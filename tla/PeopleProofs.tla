---------------------------- MODULE PeopleProofs ----------------------------
(***************************************************************************)
(* What is proved of Sessions, Offboarding, Settlement, Profile,             *)
(* Performance and Attendance, for any accounts, requests, separations,      *)
(* workers, officers, participants, goals, punches and day boundaries.       *)
(***************************************************************************)
EXTENDS Offboarding, Settlement, Profile, Performance, Attendance, SumTheorems,
        FiniteSetTheorems, TLAPS

-----------------------------------------------------------------------------
(* Accounts and sessions *)

Request == [pc : CallSteps, user : Users \cup {NoUser}, sid : 0..MaxSessions,
            before : Statuses, inactive : BOOLEAN]

Present == sessions \cup expired

SessionTypes ==
  /\ sessions \in SUBSET Sids /\ expired \in SUBSET Sids /\ owner \in [Sids -> Users \cup {NoUser}]
  /\ issued \in 0..MaxSessions /\ changes \in 0..MaxChanges /\ heirs \in [Sids -> Nat]

\* A session that is there has not been exchanged, and was inserted with its owner.
SessionInv(s) ==
  /\ s > issued => s \notin Present /\ heirs[s] = 0
  /\ s <= issued => owner[s] \in Users
  /\ heirs[s] <= 1
  /\ s \in Present => heirs[s] = 0

\* One request alone holds the right to exchange a session, from the delete of its
\* row to the insert that follows; and no account was inactive when it was checked.
RequestInv(c) ==
  /\ access[c].sid <= issued
  /\ access[c].pc \notin {"idle", "writeStatus"} => access[c].user \in Users
  /\ access[c].pc \in {"consume", "issue"} => ~ access[c].inactive
  /\ (access[c].pc = "issue" /\ access[c].sid # NoSid) =>
       /\ access[c].sid \notin Present /\ heirs[access[c].sid] = 0
       /\ \A d \in Calls \ {c} : ~ (access[d].pc = "issue" /\ access[d].sid = access[c].sid)

SessInv ==
  /\ account \in [Users -> Account] /\ linked \in Users \cup {NoUser} /\ employment \in Statuses
  /\ SessionTypes
  /\ access \in [Calls -> Request]
  /\ \A s \in Sids : SessionInv(s)
  /\ \A c \in Calls : RequestInv(c)
  /\ intruders = {}

LEMMA IdleRequest == Idle \in Request
  BY SessionAssumption DEF Request, Idle, NoSid, CallSteps, Statuses

LEMMA StepRequest ==
  ASSUME NEW r \in Request, NEW step \in CallSteps
  PROVE  [r EXCEPT !.pc = step] \in Request
  BY DEF Request

LEMMA RequestStored ==
  ASSUME access \in [Calls -> Request], NEW c, NEW r \in Request
  PROVE  [access EXCEPT ![c] = r] \in [Calls -> Request]
  OBVIOUS

LEMMA StepStored ==
  ASSUME access \in [Calls -> Request], NEW c \in Calls, NEW step \in CallSteps
  PROVE  [access EXCEPT ![c].pc = step] \in [Calls -> Request]
<1>1. [access EXCEPT ![c].pc = step] = [access EXCEPT ![c] = [access[c] EXCEPT !.pc = step]]
  OBVIOUS
<1>2. [access[c] EXCEPT !.pc = step] \in Request
  BY StepRequest
<1>3. QED
  BY <1>1, <1>2

\* An account's fields are written one or two at a time.
LEMMA AccountStored ==
  ASSUME account \in [Users -> Account], NEW u, NEW a \in Account
  PROVE  [account EXCEPT ![u] = a] \in [Users -> Account]
  OBVIOUS

LEMMA PasswordStored ==
  ASSUME account \in [Users -> Account], NEW u \in Users, NEW p \in Nat, NEW b \in BOOLEAN
  PROVE  [account EXCEPT ![u].password = p, ![u].mustChange = b] \in [Users -> Account]
<1>1. [account EXCEPT ![u].password = p, ![u].mustChange = b]
        = [account EXCEPT ![u] = [account[u] EXCEPT !.password = p, !.mustChange = b]]
  OBVIOUS
<1>2. [account[u] EXCEPT !.password = p, !.mustChange = b] \in Account
  BY DEF Account
<1>3. QED
  BY <1>1, <1>2

LEMMA ActivityStored ==
  ASSUME account \in [Users -> Account], NEW u \in Users, NEW b \in BOOLEAN
  PROVE  [account EXCEPT ![u].active = b] \in [Users -> Account]
<1>1. [account EXCEPT ![u].active = b] = [account EXCEPT ![u] = [account[u] EXCEPT !.active = b]]
  OBVIOUS
<1>2. [account[u] EXCEPT !.active = b] \in Account
  BY DEF Account
<1>3. QED
  BY <1>1, <1>2

LEMMA BooleanActivity ==
  ASSUME account \in [Users -> Account], NEW u
  PROVE  (~ account[u].active) \in BOOLEAN
  OBVIOUS

\* What a request knows stays true as long as no other begins to exchange a session.
LEMMA RequestKept ==
  ASSUME SessInv, NEW c \in Calls, access'[c] = access[c], issued' = issued, heirs' = heirs,
         Present' \subseteq Present,
         \A d \in Calls \ {c} : access'[d] = access[d] \/ access'[d].pc # "issue"
  PROVE  RequestInv(c)'
  BY DEF SessInv, RequestInv

LEMMA StepKeepsSessInv == SessInv /\ [SessNext]_sessVars => SessInv'
<1> SUFFICES ASSUME SessInv, [SessNext]_sessVars PROVE SessInv'
  OBVIOUS
<1> USE DEF SessInv
<1>1. ASSUME NEW c \in Calls, NEW u \in Users, LoginRead(c, u) PROVE SessInv'
  <2>1. (account \in [Users -> Account] /\ linked \in Users \cup {NoUser} /\ employment \in Statuses)'
    BY <1>1 DEF LoginRead, Begins, Idle, accountVars
  <2>2. SessionTypes'
    BY <1>1, SessionAssumption DEF LoginRead, Begins, Idle, SessionTypes, Sids, sessionVars
  <2>3. (access \in [Calls -> Request])'
    <3>1. [Idle EXCEPT !.pc = "issue", !.user = u] \in Request
      BY IdleRequest, SessionAssumption DEF Request, CallSteps, Statuses, NoSid, Sids, SessionTypes
    <3>2. QED
      BY <1>1, <3>1, RequestStored DEF LoginRead, Begins
  <2>4. (\A t \in Sids : SessionInv(t))'
    BY <1>1 DEF LoginRead, Begins, Idle, SessionInv, Sids, SessionTypes, Present, sessionVars
  <2>5. (\A d \in Calls : RequestInv(d))'
    BY <1>1 DEF LoginRead, Begins, Idle, RequestInv, Request, SessionTypes, Present, Sids,
       sessionVars, NoSid
  <2>6. (intruders = {})'
    BY <1>1 DEF LoginRead, Begins, Idle, sessionVars
  <2>7. QED
    BY <2>1, <2>2, <2>3, <2>4, <2>5, <2>6
<1>2. ASSUME NEW c \in Calls, NEW u \in Users, ChangeRead(c, u) PROVE SessInv'
  <2>1. (account \in [Users -> Account] /\ linked \in Users \cup {NoUser} /\ employment \in Statuses)'
    BY <1>2 DEF ChangeRead, Begins, Idle, accountVars
  <2>2. SessionTypes'
    BY <1>2, SessionAssumption DEF ChangeRead, Begins, Idle, SessionTypes, Sids, sessionVars
  <2>3. (access \in [Calls -> Request])'
    <3>1. [Idle EXCEPT !.pc = "writePassword", !.user = u] \in Request
      BY IdleRequest, SessionAssumption DEF Request, CallSteps, Statuses, NoSid, Sids, SessionTypes
    <3>2. QED
      BY <1>2, <3>1, RequestStored DEF ChangeRead, Begins
  <2>4. (\A t \in Sids : SessionInv(t))'
    BY <1>2 DEF ChangeRead, Begins, Idle, SessionInv, Sids, SessionTypes, Present, sessionVars
  <2>5. (\A d \in Calls : RequestInv(d))'
    BY <1>2 DEF ChangeRead, Begins, Idle, RequestInv, Request, SessionTypes, Present, Sids,
       sessionVars, NoSid
  <2>6. (intruders = {})'
    BY <1>2 DEF ChangeRead, Begins, Idle, sessionVars
  <2>7. QED
    BY <2>1, <2>2, <2>3, <2>4, <2>5, <2>6
<1>3. ASSUME NEW c \in Calls, NEW u \in Users, ProvisionRead(c, u) PROVE SessInv'
  <2>1. (account \in [Users -> Account] /\ linked \in Users \cup {NoUser} /\ employment \in Statuses)'
    BY <1>3 DEF ProvisionRead, Begins, Idle, accountVars
  <2>2. SessionTypes'
    BY <1>3, SessionAssumption DEF ProvisionRead, Begins, Idle, SessionTypes, Sids, sessionVars
  <2>3. (access \in [Calls -> Request])'
    <3>1. [Idle EXCEPT !.pc = "provision", !.user = u, !.before = employment] \in Request
      BY IdleRequest, SessionAssumption DEF Request, CallSteps, Statuses, NoSid, Sids, SessionTypes
    <3>2. QED
      BY <1>3, <3>1, RequestStored DEF ProvisionRead, Begins
  <2>4. (\A t \in Sids : SessionInv(t))'
    BY <1>3 DEF ProvisionRead, Begins, Idle, SessionInv, Sids, SessionTypes, Present, sessionVars
  <2>5. (\A d \in Calls : RequestInv(d))'
    BY <1>3 DEF ProvisionRead, Begins, Idle, RequestInv, Request, SessionTypes, Present, Sids,
       sessionVars, NoSid
  <2>6. (intruders = {})'
    BY <1>3 DEF ProvisionRead, Begins, Idle, sessionVars
  <2>7. QED
    BY <2>1, <2>2, <2>3, <2>4, <2>5, <2>6
<1>4. ASSUME NEW c \in Calls, NEW s \in Sids, RefreshLookup(c, s) PROVE SessInv'
  <2>1. (account \in [Users -> Account] /\ linked \in Users \cup {NoUser} /\ employment \in Statuses)'
    BY <1>4 DEF RefreshLookup, Begins, Idle, accountVars
  <2>2. SessionTypes'
    BY <1>4, SessionAssumption DEF RefreshLookup, Begins, Idle, SessionTypes, Sids, sessionVars
  <2>3. (access \in [Calls -> Request])'
    <3>1. (~ account[owner[s]].active) \in BOOLEAN
      BY BooleanActivity
    <3>2. owner[s] \in Users /\ s \in 0..MaxSessions
      BY <1>4 DEF RefreshLookup, SessionInv, Present, SessionTypes, Sids
    <3>3. ASSUME NEW b \in BOOLEAN, NEW u \in Users
          PROVE  [Idle EXCEPT !.pc = "check", !.user = u, !.sid = s, !.inactive = b] \in Request
      BY <3>2, IdleRequest DEF Request, CallSteps
    <3>4. [Idle EXCEPT !.pc = "check", !.user = owner[s], !.sid = s,
                    !.inactive = ~ account[owner[s]].active] \in Request
      BY <3>1, <3>2, <3>3
    <3>5. QED
      BY <1>4, <3>4, RequestStored DEF RefreshLookup, Begins
  <2>4. (\A t \in Sids : SessionInv(t))'
    BY <1>4 DEF RefreshLookup, Begins, Idle, SessionInv, Sids, SessionTypes, Present, sessionVars
  <2>5. (\A d \in Calls : RequestInv(d))'
    <3>1. /\ \A d \in Calls \ {c} : access'[d] = access[d]
          /\ access'[c].pc = "check" /\ access'[c].sid = s /\ access'[c].user = owner[s]
          /\ s \in sessions /\ issued' = issued /\ heirs' = heirs /\ Present' \subseteq Present
      BY <1>4 DEF RefreshLookup, Begins, sessionVars, Present, Idle
    <3>2. ASSUME NEW d \in Calls \ {c} PROVE RequestInv(d)'
      BY <3>1, <3>2, RequestKept DEF Idle
    <3>3. RequestInv(c)'
      BY <3>1, <1>4 DEF RequestInv, SessionInv, Present, SessionTypes, Sids
    <3>4. QED
      BY <3>2, <3>3
  <2>6. (intruders = {})'
    BY <1>4 DEF RefreshLookup, Begins, Idle, sessionVars
  <2>7. QED
    BY <2>1, <2>2, <2>3, <2>4, <2>5, <2>6
<1>5. ASSUME NEW c \in Calls, NEW s \in Sids, RefreshExpired(c, s) PROVE SessInv'
  <2>1. (account \in [Users -> Account] /\ linked \in Users \cup {NoUser} /\ employment \in Statuses)'
    BY <1>5 DEF RefreshExpired, accountVars
  <2>2. SessionTypes'
    BY <1>5, SessionAssumption DEF RefreshExpired, SessionTypes, Sids, sessionVars
  <2>3. (access \in [Calls -> Request])'
    BY <1>5 DEF RefreshExpired, Request, CallSteps, NoSid, Statuses
  <2>4. (\A t \in Sids : SessionInv(t))'
    BY <1>5 DEF RefreshExpired, SessionInv, Sids, SessionTypes, Present, sessionVars
  <2>5. (\A d \in Calls : RequestInv(d))'
    BY <1>5 DEF RefreshExpired, RequestInv, Request, SessionTypes, Present, Sids, sessionVars, NoSid
  <2>6. (intruders = {})'
    BY <1>5 DEF RefreshExpired, sessionVars
  <2>7. QED
    BY <2>1, <2>2, <2>3, <2>4, <2>5, <2>6
<1>6. ASSUME NEW c \in Calls, RefreshCheck(c) PROVE SessInv'
  <2>1. (account \in [Users -> Account] /\ linked \in Users \cup {NoUser} /\ employment \in Statuses)'
    BY <1>6 DEF RefreshCheck, At, Goes, Answers, Idle, accountVars
  <2>2. SessionTypes'
    BY <1>6, SessionAssumption DEF RefreshCheck, At, Goes, Answers, Idle, SessionTypes, Sids,
       sessionVars
  <2>3. (access \in [Calls -> Request])'
    <3>1. [access[c] EXCEPT !.pc = "consume", !.inactive = FALSE] \in Request
      BY DEF Request, CallSteps
    <3>2. [access EXCEPT ![c].pc = "consume", ![c].inactive = FALSE]
            = [access EXCEPT ![c] = [access[c] EXCEPT !.pc = "consume", !.inactive = FALSE]]
      OBVIOUS
    <3>3. QED
      BY <1>6, <3>1, <3>2, IdleRequest, RequestStored DEF RefreshCheck, Answers
  <2>4. (\A t \in Sids : SessionInv(t))'
    BY <1>6 DEF RefreshCheck, At, Goes, Answers, Idle, SessionInv, Sids, SessionTypes, Present,
       sessionVars
  <2>5. (\A d \in Calls : RequestInv(d))'
    <3>1. /\ \A d \in Calls \ {c} : access'[d] = access[d]
          /\ \/ access'[c] = Idle
             \/ /\ access[c].pc = "check" /\ access'[c].pc = "consume"
                /\ access'[c].sid = access[c].sid /\ access'[c].user = access[c].user
                /\ access'[c].inactive = FALSE
          /\ issued' = issued /\ heirs' = heirs /\ Present' \subseteq Present
      BY <1>6 DEF RefreshCheck, At, Answers, sessionVars, Present, Request
    <3>2. ASSUME NEW d \in Calls \ {c} PROVE RequestInv(d)'
      BY <3>1, <3>2, RequestKept DEF Idle
    <3>3. RequestInv(c)'
      BY <3>1, <1>6 DEF RequestInv, Idle, SessionTypes, NoSid
    <3>4. QED
      BY <3>2, <3>3
  <2>6. (intruders = {})'
    BY <1>6 DEF RefreshCheck, At, Goes, Answers, Idle, sessionVars
  <2>7. QED
    BY <2>1, <2>2, <2>3, <2>4, <2>5, <2>6
<1>7. ASSUME NEW c \in Calls, RefreshConsume(c) PROVE SessInv'
  <2>1. (account \in [Users -> Account] /\ linked \in Users \cup {NoUser} /\ employment \in Statuses)'
    BY <1>7 DEF RefreshConsume, At, Goes, Answers, Idle, accountVars
  <2>2. SessionTypes'
    BY <1>7, SessionAssumption DEF RefreshConsume, At, Goes, Answers, Idle, SessionTypes, Sids,
       sessionVars
  <2>3. (access \in [Calls -> Request])'
    <3>1. Answers(c) \/ Goes(c, "issue")
      BY <1>7 DEF RefreshConsume
    <3>2. QED
      BY ZenonT(60), <3>1, IdleRequest, RequestStored, StepStored DEF Goes, Answers, CallSteps
  <2>4. (\A t \in Sids : SessionInv(t))'
    BY <1>7 DEF RefreshConsume, At, Goes, Answers, Idle, SessionInv, Sids, SessionTypes, Present,
       sessionVars
  <2>5. (\A d \in Calls : RequestInv(d))'
    <3>1. CASE access[c].sid \in Present
      <4>1. /\ \A d \in Calls \ {c} : access'[d] = access[d]
            /\ access'[c] = [access[c] EXCEPT !.pc = "issue"] /\ access[c].pc = "consume"
            /\ issued' = issued /\ heirs' = heirs
            /\ Present' = Present \ {access[c].sid}
        BY <1>7, <3>1 DEF RefreshConsume, At, Goes, Present
      <4>2. access'[c].pc = "issue" /\ access'[c].sid = access[c].sid
            /\ access'[c].user = access[c].user /\ access'[c].inactive = access[c].inactive
        BY <4>1 DEF Request
      <4>3. ASSUME NEW d \in Calls \ {c}
            PROVE  ~ (access[d].pc = "issue" /\ access[d].sid = access[c].sid)
        BY <3>1 DEF RequestInv, Present, SessionTypes, Sids, NoSid
      <4>4. RequestInv(c)'
        BY <3>1, <4>1, <4>2, <4>3 DEF RequestInv, SessionInv, Present, SessionTypes, Sids
      <4>5. ASSUME NEW d \in Calls \ {c} PROVE RequestInv(d)'
        <5>1. access'[d] = access[d] /\ issued' = issued /\ heirs' = heirs /\ Present' \subseteq Present
          BY <4>1
        <5>2. ASSUME NEW e \in Calls \ {d}, access[d].pc = "issue", access[d].sid # NoSid,
                     access'[e].pc = "issue", access'[e].sid = access[d].sid
              PROVE  FALSE
          <6>1. e # c BY <4>2, <4>3, <5>2
          <6>2. access'[e] = access[e] BY <4>1, <6>1
          <6> QED BY <5>2, <6>2 DEF RequestInv
        <5>3. RequestInv(d) OBVIOUS
        <5> QED BY <5>1, <5>2, <5>3 DEF RequestInv
      <4>6. QED
        BY <4>4, <4>5
    <3>2. CASE access[c].sid \notin Present
      <4>1. /\ \A d \in Calls \ {c} : access'[d] = access[d]
            /\ access'[c] = Idle /\ issued' = issued /\ heirs' = heirs /\ Present' = Present
        BY <1>7, <3>2 DEF RefreshConsume, Answers, Present
      <4>2. ASSUME NEW d \in Calls \ {c} PROVE RequestInv(d)'
        BY <4>1, RequestKept DEF Idle
      <4>3. RequestInv(c)'
        BY <4>1 DEF RequestInv, Idle, NoSid, SessionTypes
      <4>4. QED
        BY <4>2, <4>3
    <3>3. QED
      BY <3>1, <3>2
  <2>6. (intruders = {})'
    BY <1>7 DEF RefreshConsume, At, Goes, Answers, Idle, sessionVars
  <2>7. QED
    BY <2>1, <2>2, <2>3, <2>4, <2>5, <2>6
<1>8. ASSUME NEW c \in Calls, Issue(c) PROVE SessInv'
  <2>1. issued + 1 \in Sids /\ issued + 1 > issued /\ access[c].user \in Users
        /\ (issued + 1) \notin Present /\ heirs[issued + 1] = 0
    BY <1>8 DEF Issue, At, RequestInv, SessionInv, SessionTypes
  <2>2. /\ issued' = issued + 1 /\ sessions' = sessions \cup {issued + 1} /\ expired' = expired
        /\ owner' = [owner EXCEPT ![issued + 1] = access[c].user]
        /\ access' = [access EXCEPT ![c] = Idle] /\ UNCHANGED changes
    BY <1>8 DEF Issue, Answers
  <2>3. /\ access[c].pc = "issue" /\ access[c].sid <= issued /\ ~ access[c].inactive
        /\ access[c].sid # NoSid => heirs[access[c].sid] = 0 /\ access[c].sid \notin Present
    BY <1>8 DEF Issue, At, RequestInv
  <2>4. /\ heirs' \in [Sids -> Nat]
        /\ \A s \in Sids : heirs'[s] = IF access[c].sid = s THEN 1 ELSE heirs[s]
    <3>1. CASE access[c].sid = NoSid
      BY <1>8, <3>1 DEF Issue, SessionTypes, NoSid, Sids
    <3>2. CASE access[c].sid # NoSid
      <4>1. access[c].sid \in Sids
        BY <3>2 DEF Request, NoSid, Sids
      <4>2. heirs' = [heirs EXCEPT ![access[c].sid] = heirs[access[c].sid] + 1]
        BY <1>8, <3>2 DEF Issue
      <4>3. heirs[access[c].sid] + 1 = 1
        BY <2>3, <3>2
      <4>4. QED
        BY <4>1, <4>2, <4>3 DEF SessionTypes
    <3>3. QED
      BY <3>1, <3>2
  <2>5. (account \in [Users -> Account] /\ linked \in Users \cup {NoUser} /\ employment \in Statuses)'
    BY <1>8, <2>1, <2>2, <2>3, <2>4 DEF Issue, At, Answers, Idle, accountVars
  <2>6. SessionTypes'
    <3>1. issued + 1 \in 0..MaxSessions
      BY <2>1, SessionAssumption DEF Sids
    <3>2. owner' \in [Sids -> Users \cup {NoUser}]
      BY <2>1, <2>2 DEF SessionTypes
    <3>3. sessions' \in SUBSET Sids
      BY <2>1, <2>2 DEF SessionTypes
    <3>4. QED
      BY <2>2, <2>4, <3>1, <3>2, <3>3 DEF SessionTypes
  <2>7. (access \in [Calls -> Request])'
    BY <2>2, IdleRequest, RequestStored
  <2>8. (\A t \in Sids : SessionInv(t))'
    <3>1. ASSUME NEW s \in Sids PROVE SessionInv(s)'
      <4>1. s \in Present' <=> s \in Present \/ s = issued + 1
        BY <2>2 DEF Present
      <4>2. access[c].sid = s => s \notin Present /\ s <= issued
        BY <2>3 DEF Sids, NoSid
      <4>3. CASE s = issued + 1
        <5>1. owner'[s] = access[c].user /\ heirs'[s] = 0
          BY <2>1, <2>2, <2>3, <2>4, <4>3 DEF SessionTypes, Request
        <5>2. QED
          BY <2>1, <2>2, <4>3, <5>1 DEF SessionInv, SessionTypes
      <4>4. CASE s # issued + 1
        <5>1. owner'[s] = owner[s] /\ (s <= issued' => s <= issued) /\ (s > issued' => s > issued)
          BY <2>2, <4>4 DEF SessionTypes, Sids
        <5>2. QED
          BY <2>2, <2>4, <4>1, <4>2, <4>4, <5>1 DEF SessionInv, SessionTypes, Sids
      <4>5. QED
        BY <4>3, <4>4
    <3>2. QED
      BY <3>1
  <2>9. (\A d \in Calls : RequestInv(d))'
    <3>1. RequestInv(c)'
      BY <2>2 DEF RequestInv, Idle, NoSid, SessionTypes
    <3>2. ASSUME NEW d \in Calls \ {c} PROVE RequestInv(d)'
      <4>1. access'[d] = access[d] /\ issued' >= issued
        BY <2>2 DEF SessionTypes
      <4>2. ASSUME access[d].pc = "issue", access[d].sid # NoSid
            PROVE  /\ access[d].sid \notin Present' /\ heirs'[access[d].sid] = 0
                   /\ \A e \in Calls \ {d} :
                        ~ (access'[e].pc = "issue" /\ access'[e].sid = access[d].sid)
        <5>1. access[d].sid \in Sids /\ access[d].sid <= issued /\ access[d].sid # access[c].sid
          BY <2>3, <4>2 DEF RequestInv, Request, NoSid, Sids
        <5>2. access[d].sid # issued + 1
          BY <5>1 DEF Sids, SessionTypes
        <5>3. access[d].sid \notin Present' /\ heirs'[access[d].sid] = 0
          BY <2>2, <2>4, <4>2, <5>1, <5>2 DEF RequestInv, Present
        <5>4. QED
          BY <2>2, <4>2, <5>3 DEF RequestInv, Idle
      <4>3. access[d].sid <= issued'
        BY <2>2 DEF RequestInv, Request, SessionTypes
      <4>4. QED
        BY <4>1, <4>2, <4>3 DEF RequestInv
    <3>3. QED
      BY <3>1, <3>2
  <2>10. (intruders = {})'
    BY <1>8, <2>3 DEF Issue
  <2>11. QED
    BY <2>5, <2>6, <2>7, <2>8, <2>9, <2>10
<1>9. ASSUME NEW c \in Calls, ChangeWrite(c) PROVE SessInv'
  <2>1. (account \in [Users -> Account] /\ linked \in Users \cup {NoUser} /\ employment \in Statuses)'
    <3>1. access[c].user \in Users /\ changes + 1 \in Nat
      BY <1>9, SessionAssumption DEF ChangeWrite, At, RequestInv, SessionTypes
    <3>2. QED
      BY <1>9, <3>1, PasswordStored DEF ChangeWrite
  <2>2. SessionTypes'
    BY <1>9, SessionAssumption DEF ChangeWrite, At, Goes, Changes, SessionTypes, Sids, sessionVars
  <2>3. (access \in [Calls -> Request])'
    BY <1>9, IdleRequest, RequestStored, StepStored DEF ChangeWrite, At, Goes, Answers, CallSteps
  <2>4. (\A t \in Sids : SessionInv(t))'
    BY <1>9 DEF ChangeWrite, At, Goes, Changes, SessionInv, Sids, SessionTypes, Present, sessionVars
  <2>5. (\A d \in Calls : RequestInv(d))'
    BY <1>9 DEF ChangeWrite, At, Goes, Changes, RequestInv, Request, SessionTypes, Present, Sids,
       sessionVars, NoSid
  <2>6. (intruders = {})'
    BY <1>9 DEF ChangeWrite, At, Goes, Changes, sessionVars
  <2>7. QED
    BY <2>1, <2>2, <2>3, <2>4, <2>5, <2>6
<1>10. ASSUME NEW c \in Calls, ChangeRevoke(c) PROVE SessInv'
  <2>1. (account \in [Users -> Account] /\ linked \in Users \cup {NoUser} /\ employment \in Statuses)'
    BY <1>10 DEF ChangeRevoke, At, Answers, Idle, Revoke, accountVars
  <2>2. SessionTypes'
    BY <1>10, SessionAssumption DEF ChangeRevoke, At, Answers, Idle, Revoke, SessionTypes, Sids,
       sessionVars
  <2>3. (access \in [Calls -> Request])'
    BY <1>10, IdleRequest, RequestStored DEF ChangeRevoke, Answers
  <2>4. (\A t \in Sids : SessionInv(t))'
    BY <1>10 DEF ChangeRevoke, At, Answers, Idle, Revoke, SessionInv, Sids, SessionTypes, Present,
       sessionVars
  <2>5. (\A d \in Calls : RequestInv(d))'
    BY <1>10 DEF ChangeRevoke, At, Answers, Idle, Revoke, RequestInv, Request, SessionTypes,
       Present, Sids, sessionVars, NoSid
  <2>6. (intruders = {})'
    BY <1>10 DEF ChangeRevoke, At, Answers, Idle, Revoke, sessionVars
  <2>7. QED
    BY <2>1, <2>2, <2>3, <2>4, <2>5, <2>6
<1>11. ASSUME NEW c \in Calls, ProvisionWrite(c) PROVE SessInv'
  <2>1. (account \in [Users -> Account] /\ linked \in Users \cup {NoUser} /\ employment \in Statuses)'
    <3>1. access[c].user \in Users /\ changes + 1 \in Nat
      BY <1>11, SessionAssumption DEF ProvisionWrite, At, RequestInv, SessionTypes
    <3>2. [exists |-> TRUE, active |-> access[c].before # "TERMINATED",
           password |-> changes + 1, mustChange |-> TRUE] \in Account
      BY <3>1 DEF Account
    <3>3. QED
      BY <1>11, <3>1, <3>2, AccountStored DEF ProvisionWrite
  <2>2. SessionTypes'
    BY <1>11, SessionAssumption DEF ProvisionWrite, At, Answers, Idle, Changes, SessionTypes, Sids,
       sessionVars
  <2>3. (access \in [Calls -> Request])'
    BY <1>11, IdleRequest, RequestStored DEF ProvisionWrite, Answers
  <2>4. (\A t \in Sids : SessionInv(t))'
    BY <1>11 DEF ProvisionWrite, At, Answers, Idle, Changes, SessionInv, Sids, SessionTypes,
       Present, sessionVars
  <2>5. (\A d \in Calls : RequestInv(d))'
    BY <1>11 DEF ProvisionWrite, At, Answers, Idle, Changes, RequestInv, Request, SessionTypes,
       Present, Sids, sessionVars, NoSid
  <2>6. (intruders = {})'
    BY <1>11 DEF ProvisionWrite, At, Answers, Idle, Changes, sessionVars
  <2>7. QED
    BY <2>1, <2>2, <2>3, <2>4, <2>5, <2>6
<1>12. ASSUME NEW c \in Calls, UpdateRead(c) PROVE SessInv'
  <2>1. (account \in [Users -> Account] /\ linked \in Users \cup {NoUser} /\ employment \in Statuses)'
    BY <1>12 DEF UpdateRead, Begins, Idle, accountVars
  <2>2. SessionTypes'
    BY <1>12, SessionAssumption DEF UpdateRead, Begins, Idle, SessionTypes, Sids, sessionVars
  <2>3. (access \in [Calls -> Request])'
    <3>1. [Idle EXCEPT !.pc = "writeStatus", !.user = linked, !.before = employment] \in Request
      BY IdleRequest, SessionAssumption DEF Request, CallSteps, Statuses, NoSid, Sids, SessionTypes
    <3>2. QED
      BY <1>12, <3>1, RequestStored DEF UpdateRead, Begins
  <2>4. (\A t \in Sids : SessionInv(t))'
    BY <1>12 DEF UpdateRead, Begins, Idle, SessionInv, Sids, SessionTypes, Present, sessionVars
  <2>5. (\A d \in Calls : RequestInv(d))'
    BY <1>12 DEF UpdateRead, Begins, Idle, RequestInv, Request, SessionTypes, Present, Sids,
       sessionVars, NoSid
  <2>6. (intruders = {})'
    BY <1>12 DEF UpdateRead, Begins, Idle, sessionVars
  <2>7. QED
    BY <2>1, <2>2, <2>3, <2>4, <2>5, <2>6
<1>13. ASSUME NEW c \in Calls, NEW status \in Statuses, UpdateWrite(c, status) PROVE SessInv'
  <2>1. (account \in [Users -> Account] /\ linked \in Users \cup {NoUser} /\ employment \in Statuses)'
    <3>1. access[c].user \in Users \cup {NoUser}
      BY DEF Request
    <3>2. ASSUME access[c].user \in Users
          PROVE  ActiveAfter(access[c].before, status, account[access[c].user].active) \in BOOLEAN
      BY <3>2 DEF ActiveAfter, Account
    <3>3. account' \in [Users -> Account]
      <4> DEFINE u == access[c].user
                 b == ActiveAfter(access[c].before, status, account[u].active)
      <4>1. CASE u = NoUser
        BY <1>13, <4>1 DEF UpdateWrite
      <4>2. CASE u \in Users
        <5>1. b \in BOOLEAN
          BY <4>2, <3>2
        <5>2. account' = [account EXCEPT ![u].active = b]
          BY <1>13, <4>2, SessionAssumption DEF UpdateWrite
        <5> HIDE DEF b, u
        <5>3. QED
          BY <4>2, <5>1, <5>2, ActivityStored
      <4>3. QED
        BY <3>1, <4>1, <4>2
    <3>4. QED
      BY <1>13, <3>1, <3>3 DEF UpdateWrite
  <2>2. SessionTypes'
    BY <1>13, SessionAssumption DEF UpdateWrite, At, Answers, Idle, Changes, Revoke, SessionTypes,
       Sids, sessionVars
  <2>3. (access \in [Calls -> Request])'
    BY <1>13, IdleRequest, RequestStored DEF UpdateWrite, Answers
  <2>4. (\A t \in Sids : SessionInv(t))'
    BY <1>13 DEF UpdateWrite, At, Answers, Idle, Changes, Revoke, SessionInv, Sids, SessionTypes,
       Present, sessionVars
  <2>5. (\A d \in Calls : RequestInv(d))'
    <3>1. /\ \A d \in Calls \ {c} : access'[d] = access[d]
          /\ access'[c] = Idle
          /\ issued' = issued /\ heirs' = heirs /\ Present' \subseteq Present
      BY <1>13 DEF UpdateWrite, At, Answers, Revoke, sessionVars, Present
    <3>2. ASSUME NEW d \in Calls \ {c} PROVE RequestInv(d)'
      BY <3>1, <3>2, RequestKept DEF Idle
    <3>3. RequestInv(c)'
      BY <3>1 DEF RequestInv, Idle, SessionTypes, NoSid
    <3>4. QED
      BY <3>2, <3>3
  <2>6. (intruders = {})'
    BY <1>13 DEF UpdateWrite, At, Answers, Idle, Changes, Revoke, sessionVars
  <2>7. QED
    BY <2>1, <2>2, <2>3, <2>4, <2>5, <2>6
<1>14. ASSUME NEW c \in Calls, Dies(c) PROVE SessInv'
  <2>1. (account \in [Users -> Account] /\ linked \in Users \cup {NoUser} /\ employment \in Statuses)'
    BY <1>14 DEF Dies, Answers, Idle, accountVars
  <2>2. SessionTypes'
    BY <1>14, SessionAssumption DEF Dies, Answers, Idle, SessionTypes, Sids, sessionVars
  <2>3. (access \in [Calls -> Request])'
    BY <1>14, IdleRequest, RequestStored DEF Dies, Answers
  <2>4. (\A t \in Sids : SessionInv(t))'
    BY <1>14 DEF Dies, Answers, Idle, SessionInv, Sids, SessionTypes, Present, sessionVars
  <2>5. (\A d \in Calls : RequestInv(d))'
    BY <1>14 DEF Dies, Answers, Idle, RequestInv, Request, SessionTypes, Present, Sids, sessionVars,
       NoSid
  <2>6. (intruders = {})'
    BY <1>14 DEF Dies, Answers, Idle, sessionVars
  <2>7. QED
    BY <2>1, <2>2, <2>3, <2>4, <2>5, <2>6
<1>15. ASSUME NEW s \in Sids, Logout(s) PROVE SessInv'
  <2>1. (account \in [Users -> Account] /\ linked \in Users \cup {NoUser} /\ employment \in Statuses)'
    BY <1>15 DEF Logout, accountVars
  <2>2. SessionTypes'
    BY <1>15, SessionAssumption DEF Logout, SessionTypes, Sids, sessionVars
  <2>3. (access \in [Calls -> Request])'
    BY <1>15 DEF Logout, Request, CallSteps, NoSid, Statuses
  <2>4. (\A t \in Sids : SessionInv(t))'
    BY <1>15 DEF Logout, SessionInv, Sids, SessionTypes, Present, sessionVars
  <2>5. (\A d \in Calls : RequestInv(d))'
    BY <1>15 DEF Logout, RequestInv, Request, SessionTypes, Present, Sids, sessionVars, NoSid
  <2>6. (intruders = {})'
    BY <1>15 DEF Logout, sessionVars
  <2>7. QED
    BY <2>1, <2>2, <2>3, <2>4, <2>5, <2>6
<1>16. ASSUME NEW s \in Sids, Expires(s) PROVE SessInv'
  <2>1. (account \in [Users -> Account] /\ linked \in Users \cup {NoUser} /\ employment \in Statuses)'
    BY <1>16 DEF Expires, accountVars
  <2>2. SessionTypes'
    BY <1>16, SessionAssumption DEF Expires, SessionTypes, Sids, sessionVars
  <2>3. (access \in [Calls -> Request])'
    BY <1>16 DEF Expires, Request, CallSteps, NoSid, Statuses
  <2>4. (\A t \in Sids : SessionInv(t))'
    BY <1>16 DEF Expires, SessionInv, Sids, SessionTypes, Present, sessionVars
  <2>5. (\A d \in Calls : RequestInv(d))'
    BY <1>16 DEF Expires, RequestInv, Request, SessionTypes, Present, Sids, sessionVars, NoSid
  <2>6. (intruders = {})'
    BY <1>16 DEF Expires, sessionVars
  <2>7. QED
    BY <2>1, <2>2, <2>3, <2>4, <2>5, <2>6
<1>17. CASE ResetPassword
  <2>1. (account \in [Users -> Account] /\ linked \in Users \cup {NoUser} /\ employment \in Statuses)'
    <3>1. linked \in Users /\ changes + 1 \in Nat
      BY <1>17, SessionAssumption DEF ResetPassword, SessionTypes
    <3>2. QED
      BY <1>17, <3>1, PasswordStored DEF ResetPassword
  <2>2. SessionTypes'
    BY <1>17, SessionAssumption DEF ResetPassword, Changes, Revoke, SessionTypes, Sids, sessionVars
  <2>3. (access \in [Calls -> Request])'
    BY <1>17 DEF ResetPassword, Changes, Revoke, Request, CallSteps, NoSid, Statuses
  <2>4. (\A t \in Sids : SessionInv(t))'
    BY <1>17 DEF ResetPassword, Changes, Revoke, SessionInv, Sids, SessionTypes, Present,
       sessionVars
  <2>5. (\A d \in Calls : RequestInv(d))'
    BY <1>17 DEF ResetPassword, Changes, Revoke, RequestInv, Request, SessionTypes, Present, Sids,
       sessionVars, NoSid
  <2>6. (intruders = {})'
    BY <1>17 DEF ResetPassword, Changes, Revoke, sessionVars
  <2>7. QED
    BY <2>1, <2>2, <2>3, <2>4, <2>5, <2>6
<1>18. ASSUME NEW u \in Users, SetRoles(u) PROVE SessInv'
  <2>1. (account \in [Users -> Account] /\ linked \in Users \cup {NoUser} /\ employment \in Statuses)'
    BY <1>18 DEF SetRoles, Changes, Revoke, accountVars
  <2>2. SessionTypes'
    BY <1>18, SessionAssumption DEF SetRoles, Changes, Revoke, SessionTypes
  <2>3. (access \in [Calls -> Request])'
    BY <1>18 DEF SetRoles, Changes, Revoke, Request, CallSteps, NoSid, Statuses
  <2>4. (\A t \in Sids : SessionInv(t))'
    BY <1>18 DEF SetRoles, Changes, Revoke, SessionInv, Sids, SessionTypes, Present, sessionVars
  <2>5. (\A d \in Calls : RequestInv(d))'
    BY <1>18 DEF SetRoles, Changes, Revoke, RequestInv, Request, SessionTypes, Present, Sids,
       sessionVars, NoSid
  <2>6. (intruders = {})'
    BY <1>18 DEF SetRoles, Changes, Revoke, sessionVars
  <2>7. QED
    BY <2>1, <2>2, <2>3, <2>4, <2>5, <2>6
<1>19. CASE UNCHANGED sessVars
  BY <1>19 DEF sessVars, CallSteps, NoSid, Present, Request, RequestInv, SessionInv, SessionTypes,
     Sids, Statuses, accountVars, sessionVars
<1>20. QED
  BY <1>1, <1>2, <1>3, <1>4, <1>5, <1>6, <1>7, <1>8, <1>9, <1>10, <1>11, <1>12, <1>13, <1>14, <1>15,
     <1>16, <1>17, <1>18, <1>19 DEF SessNext

LEMMA SessInvInit == SessInit => SessInv
<1> SUFFICES ASSUME SessInit PROVE SessInv
  OBVIOUS
<1>1. account \in [Users -> Account]
  BY DEF SessInit, Account, NoAccount
<1>2. access \in [Calls -> Request]
  BY IdleRequest DEF SessInit
<1>3. SessionTypes
  BY SessionAssumption DEF SessInit, SessionTypes, Sids
<1>4. \A s \in Sids : SessionInv(s)
  BY DEF SessInit, SessionInv, Sids, Present
<1>5. \A c \in Calls : RequestInv(c)
  BY DEF SessInit, RequestInv, Idle, NoSid
<1>6. QED
  BY <1>1, <1>2, <1>3, <1>4, <1>5 DEF SessInit, SessInv, Statuses

LEMMA SessInvTypes == SessInv => SessTypeOK /\ TokensHold
  BY DEF SessInv, SessionTypes, SessionInv, SessTypeOK, TokensHold, RefreshOnce,
         InactiveGetsNoToken, Request

\* However many requests, logins, password changes and operations of HR interleave:
\* a refresh token is exchanged at most once, and no refresh that finds its account
\* inactive gets a token (kabipay-auth: client_refresh, issue_client_tokens).
THEOREM RefreshTokensHold == SessSpec => []TokensHold
<1>1. SessInit => SessInv
  BY SessInvInit
<1>2. SessInv /\ [SessNext]_sessVars => SessInv'
  BY StepKeepsSessInv
<1>3. SessInv => TokensHold
  BY SessInvTypes
<1>4. QED
  BY <1>1, <1>2, <1>3, PTL DEF SessSpec

-----------------------------------------------------------------------------
(* Separations *)

OffTypes ==
  /\ separation \in [Separations -> {"NONE", "PENDING", "APPROVED", "REJECTED"}]
  /\ due \in SUBSET Separations /\ dueOrder \in [Separations -> Nat]
  /\ offboarded \in SUBSET Separations
  /\ sweepRest \in [Sweepers -> SUBSET Separations]
  /\ faults \in 0..MaxFaults /\ leavings \in [Separations -> Nat]

SeparationInv(s) ==
  /\ leavings[s] = IF s \in offboarded THEN 1 ELSE 0
  /\ s \in offboarded => separation[s] = "APPROVED" /\ s \in due

OffInv == SessInv /\ OffTypes /\ \A s \in Separations : SeparationInv(s)

LEMMA SessInvStutters == SessInv /\ UNCHANGED sessVars => SessInv'
  BY StepKeepsSessInv

\* The offboarding transaction is one more operation on the account and its sessions.
LEMMA OffboardKeepsSessInv ==
  ASSUME SessInv, NEW s, Offboard(s)
  PROVE  SessInv'
<1> USE DEF SessInv
<1>1. access' = access /\ linked' = linked /\ changes' = changes /\ employment' \in Statuses
  BY DEF Offboard, Statuses
<1>2. CASE linked = NoUser
  <2>1. account' = account /\ UNCHANGED sessionVars
    BY <1>2 DEF Offboard
  <2>2. SessionTypes' /\ (\A t \in Sids : SessionInv(t))' /\ (\A c \in Calls : RequestInv(c))'
    BY <1>1, <2>1 DEF sessionVars, SessionTypes, SessionInv, RequestInv, Present
  <2>3. QED
    BY <1>1, <2>1, <2>2 DEF sessionVars
<1>3. CASE linked # NoUser
  <2>1. account' = [account EXCEPT ![linked].active = FALSE] /\ Revoke(linked)
    BY <1>3 DEF Offboard
  <2>2. account' \in [Users -> Account]
    BY <1>3, <2>1, ActivityStored
  <2>3. SessionTypes' /\ (\A t \in Sids : SessionInv(t))'
    BY <1>1, <2>1 DEF Revoke, SessionTypes, SessionInv, Present
  <2>4. ASSUME NEW c \in Calls PROVE RequestInv(c)'
    BY <1>1, <2>1, RequestKept DEF Revoke, Present
  <2>5. QED
    BY <1>1, <2>1, <2>2, <2>3, <2>4 DEF Revoke
<1>4. QED
  BY <1>2, <1>3

\* An offboarding that its gate lets through leaves one event and the mark.
LEMMA OffboardLeavesOnce ==
  ASSUME OffInv, NEW s \in Separations, Gate(s, separation'[s]), Offboard(s), due' = due,
         separation' \in [Separations -> {"NONE", "PENDING", "APPROVED", "REJECTED"}],
         \A t \in Separations \ {s} : separation'[t] = separation[t]
  PROVE  /\ offboarded' \in SUBSET Separations /\ leavings' \in [Separations -> Nat]
         /\ \A t \in Separations : SeparationInv(t)'
<1>1. offboarded' = offboarded \cup {s} /\ leavings' = [leavings EXCEPT ![s] = leavings[s] + 1]
  BY DEF Offboard
<1>2. leavings[s] = 0 /\ s \in due /\ separation'[s] = "APPROVED"
  BY DEF OffInv, SeparationInv, Gate
<1>3. leavings' \in [Separations -> Nat] /\ leavings'[s] = 1
      /\ \A t \in Separations \ {s} : leavings'[t] = leavings[t]
  BY <1>1, <1>2 DEF OffInv, OffTypes
<1>4. \A t \in Separations : SeparationInv(t)'
  BY <1>1, <1>2, <1>3 DEF OffInv, SeparationInv
<1>5. QED
  BY <1>1, <1>3, <1>4 DEF OffInv, OffTypes

LEMMA StepKeepsOffInv == OffInv /\ [OffNext]_offVars => OffInv'
<1> SUFFICES ASSUME OffInv, [OffNext]_offVars PROVE OffInv'
  OBVIOUS
<1> USE DEF OffInv
<1>1. CASE SessNext /\ UNCHANGED <<separationVars, sweepRest, faults>>
  <2>1. SessInv'
    BY <1>1, StepKeepsSessInv
  <2>2. OffTypes' /\ (\A s \in Separations : SeparationInv(s))'
    BY <1>1 DEF separationVars, OffTypes, SeparationInv
  <2>3. QED
    BY <2>1, <2>2
<1>2. ASSUME NEW s \in Separations, File(s) PROVE OffInv'
  <2>1. SessInv'
    BY <1>2, SessInvStutters DEF File, LeavesSessions
  <2>2. OffTypes' /\ (\A t \in Separations : SeparationInv(t))'
    BY <1>2 DEF File, OffTypes, SeparationInv
  <2>3. QED
    BY <2>1, <2>2
<1>3. ASSUME NEW s \in Separations, LastDayComes(s) PROVE OffInv'
  <2>1. SessInv'
    BY <1>3, SessInvStutters DEF LastDayComes, LeavesSessions
  <2>2. Cardinality(due) \in Nat
    BY FS_Subset, FS_CardinalityType, OffboardingAssumption DEF OffTypes
  <2>3. OffTypes' /\ (\A t \in Separations : SeparationInv(t))'
    BY <1>3, <2>2 DEF LastDayComes, OffTypes, SeparationInv
  <2>4. QED
    BY <2>1, <2>3
<1>4. ASSUME NEW s \in Separations, Approve(s) PROVE OffInv'
  <2>1. /\ separation' \in [Separations -> {"NONE", "PENDING", "APPROVED", "REJECTED"}]
        /\ separation[s] = "PENDING" /\ separation'[s] = "APPROVED"
        /\ \A t \in Separations \ {s} : separation'[t] = separation[t]
        /\ UNCHANGED <<due, dueOrder, sweepRest, faults>>
    BY <1>4 DEF Approve, OffTypes
  <2>2. CASE Gate(s, "APPROVED") /\ Offboard(s)
    <3>1. Gate(s, separation'[s])
      BY <2>1, <2>2
    <3>2. SessInv'
      BY <2>2, OffboardKeepsSessInv
    <3>3. QED
      BY <2>1, <2>2, <3>1, <3>2, OffboardLeavesOnce DEF OffTypes
  <2>3. CASE UNCHANGED <<offboarded, leavings>> /\ LeavesSessions
    <3>1. SessInv'
      BY <2>3, SessInvStutters DEF LeavesSessions
    <3>2. QED
      BY <2>1, <2>3, <3>1 DEF OffTypes, SeparationInv
  <2>4. QED
    BY <1>4, <2>2, <2>3 DEF Approve
<1>5. ASSUME NEW s \in Separations, RejectSeparation(s) PROVE OffInv'
  <2>1. SessInv'
    BY <1>5, SessInvStutters DEF RejectSeparation, LeavesSessions
  <2>2. OffTypes' /\ (\A t \in Separations : SeparationInv(t))'
    BY <1>5 DEF RejectSeparation, OffTypes, SeparationInv
  <2>3. QED
    BY <2>1, <2>2
<1>6. ASSUME NEW w \in Sweepers, Scan(w) PROVE OffInv'
  <2>1. SessInv'
    BY <1>6, SessInvStutters DEF Scan, LeavesSessions
  <2>2. PICK list \in SUBSET Separations : sweepRest' = [sweepRest EXCEPT ![w] = list]
    BY <1>6 DEF Scan, Batch
  <2>3. OffTypes' /\ (\A t \in Separations : SeparationInv(t))'
    BY <1>6, <2>2 DEF Scan, separationVars, OffTypes, SeparationInv
  <2>4. QED
    BY <2>1, <2>3
<1>7. ASSUME NEW w \in Sweepers, SweepOne(w) PROVE OffInv'
  <2>1. PICK s \in sweepRest[w] :
          /\ sweepRest' = [sweepRest EXCEPT ![w] = sweepRest[w] \ {s}]
          /\ \/ Gate(s, separation[s]) /\ Offboard(s)
             \/ UNCHANGED <<offboarded, leavings>> /\ LeavesSessions
    BY <1>7 DEF SweepOne
  <2>2. /\ s \in Separations /\ sweepRest' \in [Sweepers -> SUBSET Separations]
        /\ UNCHANGED <<separation, due, dueOrder, faults>>
    BY <1>7, <2>1 DEF SweepOne, OffTypes
  <2>3. CASE Gate(s, separation[s]) /\ Offboard(s)
    <3>1. Gate(s, separation'[s])
      BY <2>2, <2>3
    <3>2. SessInv'
      BY <2>3, OffboardKeepsSessInv
    <3>3. QED
      BY <2>2, <2>3, <3>1, <3>2, OffboardLeavesOnce DEF OffTypes
  <2>4. CASE UNCHANGED <<offboarded, leavings>> /\ LeavesSessions
    <3>1. SessInv'
      BY <2>4, SessInvStutters DEF LeavesSessions
    <3>2. QED
      BY <2>2, <2>4, <3>1 DEF OffTypes, SeparationInv
  <2>5. QED
    BY <2>1, <2>3, <2>4
<1>8. ASSUME NEW w \in Sweepers, SweepFails(w) PROVE OffInv'
  <2>1. SessInv'
    BY <1>8, SessInvStutters DEF SweepFails, LeavesSessions
  <2>2. OffTypes' /\ (\A t \in Separations : SeparationInv(t))'
    BY <1>8, OffboardingAssumption DEF SweepFails, separationVars, OffTypes, SeparationInv
  <2>3. QED
    BY <2>1, <2>2
<1>9. CASE UNCHANGED offVars
  <2>1. SessInv'
    BY <1>9, SessInvStutters DEF offVars
  <2>2. QED
    BY <1>9, <2>1 DEF offVars, separationVars, OffTypes, SeparationInv
<1>10. QED
  BY <1>1, <1>2, <1>3, <1>4, <1>5, <1>6, <1>7, <1>8, <1>9 DEF OffNext, Sweeping

LEMMA OffInvariant == OffSpec => []OffInv
<1>1. OffInit => OffInv
  BY SessInvInit, OffboardingAssumption DEF OffInit, OffInv, OffTypes, SeparationInv
<1>2. OffInv /\ [OffNext]_offVars => OffInv'
  BY StepKeepsOffInv
<1>3. QED
  BY <1>1, <1>2, PTL DEF OffSpec

\* Whichever of the sweeps and the approval come for a separation, and in whatever
\* order: it is carried out once, with one event, and only when approved and due
\* (offboard_approved_separation_in_transaction).
THEOREM SeparationsLeaveOnce == OffSpec => []OffboardedOnce
<1>1. OffInv => OffboardedOnce
  BY SessInvTypes DEF OffInv, OffTypes, SeparationInv, OffboardedOnce, OffTypeOK
<1>2. QED
  BY <1>1, OffInvariant, PTL

\* The promises about tokens, with offboardings revoking sessions and switching
\* accounts off between any two statements of a request.
THEOREM TokensHoldWhileLeaving == OffSpec => []TokensHold
<1>1. OffInv => TokensHold
  BY SessInvTypes DEF OffInv
<1>2. QED
  BY <1>1, OffInvariant, PTL

-----------------------------------------------------------------------------
(* Final settlement and clearance *)

FnfRow == [status : {"NONE", "DRAFT", "PROCESSED"}, amounts : Amounts \cup {Unset}, net : Money]

Work == [pc : {"idle", "seed", "edit", "finalize"}, row : FnfRows \cup {0},
         seeds : BOOLEAN, clears : BOOLEAN]

Lines(d) == clearance[d].open + clearance[d].cleared

\* A processed row that no edit had read keeps its amount, and no edit can reach it.
RowInv(i) ==
  (fnf[i].status = "PROCESSED" /\ i \notin edited) =>
    /\ fnf[i].net = paidOut[i]
    /\ \A o \in Officers : ~ (officer[o].pc = "edit" /\ officer[o].row = i)

OfficerInv(o) ==
  /\ officer[o].pc \in {"edit", "finalize"} =>
       officer[o].row \in FnfRows /\ fnf[officer[o].row].status # "NONE"
  /\ officer[o].pc # "idle" => approved

\* What a backfill found missing is missing until it writes, and it is alone.
SeedInv(o) ==
  officer[o].pc = "seed" =>
    /\ officer[o].seeds => Existing = {}
    /\ officer[o].clears => ~ Seeded
    /\ \A p \in Officers : officer[p].pc = "seed" => p = o

OnceEach ==
  /\ ~ (fnf[1].status # "NONE" /\ fnf[2].status # "NONE")
  /\ \A d \in Departments : Lines(d) <= 1

SettlementInv ==
  /\ fnf \in [FnfRows -> FnfRow] /\ paidOut \in [FnfRows -> Money]
  /\ officer \in [Officers -> Work]
  /\ clearance \in [Departments -> [open : Nat, cleared : Nat]]
  /\ approved \in BOOLEAN /\ seeding \in BOOLEAN /\ edited \in SUBSET FnfRows
  /\ \A i \in FnfRows : RowInv(i)
  /\ \A o \in Officers : OfficerInv(o)
  /\ ~ approved => Existing = {}
  /\ ~ seeding => OnceEach /\ \A o \in Officers : SeedInv(o)

LEMMA FreeWork == Free \in Work /\ Free.pc = "idle"
  BY DEF Free, Work

LEMMA DraftRow ==
  /\ Draft \in FnfRow /\ Draft.status = "DRAFT"
  /\ NoFnf \in FnfRow /\ NoFnf.status = "NONE"
<1>1. 0 \in Money /\ Unset \in Amounts \cup {Unset}
  BY DEF Money
<1>2. QED
  BY <1>1 DEF Draft, NoFnf, FnfRow

\* A net amount lies between nothing and what is due.
LEMMA NetIsMoney == ASSUME NEW a \in Amounts PROVE Net(a) \in Money
<1>1. a.due \in Nat /\ a.recovery \in Nat
  BY SettlementAssumption
<1>2. Net(a) \in 0..a.due
  BY <1>1 DEF Net
<1>3. QED
  BY <1>2 DEF Money

LEMMA AtMostOne == OnceEach => Cardinality(Existing) <= 1
<1> SUFFICES ASSUME OnceEach PROVE Cardinality(Existing) <= 1
  OBVIOUS
<1>1. Existing = {} \/ Existing = {1} \/ Existing = {2}
  BY DEF OnceEach, Existing, FnfRows
<1>2. Cardinality({}) = 0 /\ Cardinality({1}) = 1 /\ Cardinality({2}) = 1
  BY FS_EmptySet, FS_Singleton
<1>3. QED
  BY <1>1, <1>2

Created(settlement, lines) ==
  /\ fnf' \in [FnfRows -> FnfRow]
  /\ \A i \in FnfRows :
       fnf'[i] = fnf[i] \/ (settlement /\ fnf[i].status = "NONE" /\ fnf'[i].status = "DRAFT")
  /\ (settlement /\ Existing = {}) => ~ (fnf'[1].status # "NONE" /\ fnf'[2].status # "NONE")
  /\ ~ settlement => fnf' = fnf
  /\ clearance' \in [Departments -> [open : Nat, cleared : Nat]]
  /\ ~ lines => clearance' = clearance
  /\ \A d \in Departments : lines => Lines(d)' = Lines(d) + 1

LEMMA LinesCounted ==
  ASSUME clearance \in [Departments -> [open : Nat, cleared : Nat]]
  PROVE  /\ \A d \in Departments : Lines(d) \in Nat
         /\ Seeded <=> \E d \in Departments : Lines(d) > 0
  BY DEF Lines, Seeded

\* The creation adds a draft where no row was, and one line to each department.
LEMMA CreateEffect ==
  ASSUME SettlementInv, NEW settlement \in BOOLEAN, NEW lines \in BOOLEAN,
         Create(settlement, lines)
  PROVE  Created(settlement, lines)
<1> USE DEF SettlementInv, Created
<1>1. /\ clearance' \in [Departments -> [open : Nat, cleared : Nat]]
      /\ ~ lines => clearance' = clearance
      /\ \A d \in Departments : lines => Lines(d)' = Lines(d) + 1
  <2>1. CASE lines
    <3>1. clearance' = [d \in Departments |-> [clearance[d] EXCEPT !.open = clearance[d].open + 1]]
      BY <2>1 DEF Create
    <3>2. \A d \in Departments : /\ clearance[d].open \in Nat /\ clearance[d].cleared \in Nat
                                 /\ clearance'[d] = [clearance[d] EXCEPT !.open = clearance[d].open + 1]
      BY <3>1
    <3>3. \A d \in Departments : /\ clearance'[d].open = clearance[d].open + 1
                                 /\ clearance'[d].cleared = clearance[d].cleared
      BY ZenonT(60), <3>2
    <3>4. QED
      BY <2>1, <3>1, <3>2, <3>3 DEF Lines
  <2>2. CASE ~ lines
    BY <2>2 DEF Create
  <2>3. QED
    BY <2>1, <2>2
<1>2. CASE settlement /\ Existing # FnfRows
  <2>1. PICK i \in FnfRows \ Existing : fnf' = [fnf EXCEPT ![i] = Draft]
    <3> DEFINE i == CHOOSE j \in FnfRows \ Existing : TRUE
    <3>1. i \in FnfRows \ Existing
      BY <1>2 DEF Existing
    <3>2. fnf' = [fnf EXCEPT ![i] = Draft]
      BY <1>2 DEF Create
    <3>3. QED
      BY <3>1, <3>2
  <2>2. fnf[i].status = "NONE" /\ fnf' \in [FnfRows -> FnfRow]
    BY <2>1, DraftRow DEF Existing
  <2>3. Existing = {} => fnf[1].status = "NONE" /\ fnf[2].status = "NONE"
    BY DEF Existing, FnfRows
  <2>4. \A j \in FnfRows : j # i => fnf'[j] = fnf[j]
    BY <2>1
  <2>5. fnf'[i].status = "DRAFT"
    BY <2>1, DraftRow
  <2>6. QED
    BY <1>1, <1>2, <2>2, <2>3, <2>4, <2>5 DEF FnfRows
<1>3. CASE ~ (settlement /\ Existing # FnfRows)
  <2>1. fnf' = fnf
    BY <1>3 DEF Create
  <2>2. ~ (settlement /\ Existing = {})
    BY <1>3 DEF FnfRows
  <2>3. QED
    BY <2>1, <2>2, <1>1
<1>4. QED
  BY <1>2, <1>3

LEMMA StepKeepsSettlementInv == SettlementInv /\ [SetNext]_setVars => SettlementInv'
<1> SUFFICES ASSUME SettlementInv, [SetNext]_setVars PROVE SettlementInv'
  OBVIOUS
<1> USE DEF SettlementInv
<1>1. CASE ApproveSeparation
  <2>1. PICK settlement \in BOOLEAN, lines \in BOOLEAN :
          /\ Create(settlement, lines) /\ settlement = (Existing = {}) /\ lines = ~ Seeded
    BY <1>1 DEF ApproveSeparation
  <2>2. Created(settlement, lines)
    BY <2>1, CreateEffect
  <2>3. (fnf \in [FnfRows -> FnfRow] /\ paidOut \in [FnfRows -> Money])'
    BY <1>1, <2>2 DEF ApproveSeparation, Created
  <2>4. (officer \in [Officers -> Work])'
    BY <1>1, <2>1, <2>2, FreeWork DEF ApproveSeparation
  <2>5. (clearance \in [Departments -> [open : Nat, cleared : Nat]])'
    BY <2>2 DEF Created
  <2>6. (approved \in BOOLEAN /\ seeding \in BOOLEAN /\ edited \in SUBSET FnfRows)'
    BY <1>1, <2>1, <2>2 DEF ApproveSeparation, fnfVars
  <2>7. (\A j \in FnfRows : RowInv(j))'
    BY <1>1, <2>2 DEF ApproveSeparation, Created, RowInv
  <2>8. (\A p \in Officers : OfficerInv(p))'
    BY <1>1, <2>1, <2>2, FreeWork DEF ApproveSeparation, OfficerInv, fnfVars
  <2>9. (~ approved => Existing = {})'
    BY <1>1, <2>1, <2>2 DEF ApproveSeparation, Existing, fnfVars
  <2>10. (~ seeding => OnceEach /\ \A p \in Officers : SeedInv(p))'
    <3>1. Existing = {} /\ \A p \in Officers : officer'[p].pc # "seed"
      BY <1>1 DEF ApproveSeparation, OfficerInv
    <3>2. ASSUME ~ seeding', NEW d \in Departments PROVE Lines(d)' <= 1
      <4>1. Lines(d) <= 1
        BY <1>1, <3>2 DEF ApproveSeparation, OnceEach
      <4>2. CASE lines
        <5>1. ~ Seeded
          BY <2>1, <4>2
        <5>2. Lines(d) = 0
          BY <5>1, LinesCounted
        <5>3. QED
          BY <2>2, <4>2, <5>2 DEF Created
      <4>3. CASE ~ lines
        BY <2>2, <4>1, <4>3 DEF Created, Lines
      <4>4. QED
        BY <4>2, <4>3
    <3>3. QED
      BY <2>1, <2>2, <3>1, <3>2 DEF Created, OnceEach, SeedInv
  <2>11. QED
    BY <2>3, <2>4, <2>5, <2>6, <2>7, <2>8, <2>9, <2>10
<1>2. ASSUME NEW o \in Officers, BackfillRead(o) PROVE SettlementInv'
  <2>1. PICK s \in BOOLEAN, l \in BOOLEAN :
          /\ s = (Existing = {}) /\ l = ~ Seeded /\ officer[o].pc = "idle"
          /\ officer' = [officer EXCEPT ![o] = [Free EXCEPT !.pc = "seed", !.seeds = s, !.clears = l]]
    BY <1>2 DEF BackfillRead, Opens
  <2>2. [Free EXCEPT !.pc = "seed", !.seeds = s, !.clears = l] \in Work
    BY FreeWork DEF Work
  <2>3. officer'[o].pc = "seed" /\ officer'[o].seeds = s /\ officer'[o].clears = l
    BY <2>1, FreeWork DEF Work
  <2>4. \A p \in Officers \ {o} : officer'[p] = officer[p]
    BY <2>1
  <2>5. (fnf \in [FnfRows -> FnfRow] /\ paidOut \in [FnfRows -> Money])'
    BY <1>2, <2>1, <2>2, <2>3, <2>4 DEF BackfillRead, Opens, fnfVars
  <2>6. (officer \in [Officers -> Work])'
    BY <2>1, <2>2
  <2>7. (clearance \in [Departments -> [open : Nat, cleared : Nat]])'
    BY <1>2, <2>1, <2>2, <2>3, <2>4 DEF BackfillRead, Opens
  <2>8. (approved \in BOOLEAN /\ seeding \in BOOLEAN /\ edited \in SUBSET FnfRows)'
    BY <1>2, <2>1, <2>2, <2>3, <2>4 DEF BackfillRead, Opens, fnfVars
  <2>9. (\A j \in FnfRows : RowInv(j))'
    BY <1>2, <2>1, <2>2, <2>3, <2>4, FreeWork DEF BackfillRead, Opens, RowInv, fnfVars
  <2>10. (\A p \in Officers : OfficerInv(p))'
    BY <1>2, <2>1, <2>2, <2>3, <2>4, FreeWork DEF BackfillRead, Opens, OfficerInv, fnfVars
  <2>11. (~ approved => Existing = {})'
    BY <1>2, <2>1, <2>2, <2>3, <2>4 DEF BackfillRead, Opens, Existing, fnfVars
  <2>12. (~ seeding => OnceEach /\ \A p \in Officers : SeedInv(p))'
    <3> SUFFICES ASSUME ~ seeding' PROVE OnceEach' /\ \A p \in Officers : SeedInv(p)'
      OBVIOUS
    <3>1. OnceEach /\ clearance' = clearance /\ fnf' = fnf /\ \A p \in Officers : officer[p].pc # "seed"
      BY <1>2 DEF BackfillRead, fnfVars
    <3>2. Seeded' = Seeded /\ (\A d \in Departments : Lines(d)' = Lines(d)) /\ Existing' = Existing
      BY <3>1 DEF Seeded, Lines, Existing
    <3>3. OnceEach'
      BY <3>1, <3>2 DEF OnceEach
    <3>4. \A p \in Officers : SeedInv(p)'
      BY ZenonT(60), <2>1, <2>3, <2>4, <3>1, <3>2 DEF SeedInv
    <3>5. QED
      BY <3>3, <3>4
  <2>13. QED
    BY <2>5, <2>6, <2>7, <2>8, <2>9, <2>10, <2>11, <2>12
<1>3. ASSUME NEW o \in Officers, BackfillWrite(o) PROVE SettlementInv'
  <2>1. PICK settlement \in BOOLEAN, lines \in BOOLEAN :
          /\ Create(settlement, lines)
          /\ settlement = officer[o].seeds /\ lines = officer[o].clears
    BY <1>3 DEF BackfillWrite, Work
  <2>2. Created(settlement, lines)
    BY <2>1, CreateEffect
  <2>3. (fnf \in [FnfRows -> FnfRow] /\ paidOut \in [FnfRows -> Money])'
    BY <1>3, <2>2 DEF BackfillWrite, Created
  <2>4. (officer \in [Officers -> Work])'
    BY <1>3, <2>1, <2>2, FreeWork DEF BackfillWrite, Finishes
  <2>5. (clearance \in [Departments -> [open : Nat, cleared : Nat]])'
    BY <2>2 DEF Created
  <2>6. (approved \in BOOLEAN /\ seeding \in BOOLEAN /\ edited \in SUBSET FnfRows)'
    BY <1>3, <2>1, <2>2 DEF BackfillWrite, Finishes, fnfVars
  <2>7. (\A j \in FnfRows : RowInv(j))'
    BY <1>3, <2>2, FreeWork DEF BackfillWrite, Created, RowInv, Finishes
  <2>8. (\A p \in Officers : OfficerInv(p))'
    <3>1. officer' = [officer EXCEPT ![o] = Free] /\ approved' = approved
      BY <1>3 DEF BackfillWrite, Finishes
    <3>2. \A i \in FnfRows : fnf[i].status # "NONE" => fnf'[i].status # "NONE"
      BY <2>2 DEF Created
    <3>3. QED
      BY <3>1, <3>2, FreeWork DEF OfficerInv
  <2>9. (~ approved => Existing = {})'
    BY <1>3 DEF BackfillWrite, OfficerInv
  <2>10. (~ seeding => OnceEach /\ \A p \in Officers : SeedInv(p))'
    <3> SUFFICES ASSUME ~ seeding' PROVE OnceEach' /\ \A p \in Officers : SeedInv(p)'
      OBVIOUS
    <3>1. OnceEach /\ (\A p \in Officers : SeedInv(p)) /\ officer[o].pc = "seed"
      BY <1>3 DEF BackfillWrite
    <3>2. /\ settlement => Existing = {}
          /\ lines => ~ Seeded
          /\ \A p \in Officers : officer[p].pc = "seed" => p = o
      BY <2>1, <3>1 DEF SeedInv
    <3>3. \A p \in Officers : officer'[p].pc # "seed"
      BY <1>3, <3>2, FreeWork DEF BackfillWrite, Finishes
    <3>4. ASSUME NEW d \in Departments PROVE Lines(d)' <= 1
      <4>1. CASE lines
        BY <2>2, <3>2, <4>1, LinesCounted DEF Created
      <4>2. CASE ~ lines
        BY <2>2, <3>1, <4>2 DEF Created, Lines, OnceEach
      <4>3. QED
        BY <4>1, <4>2
    <3>5. ~ (fnf'[1].status # "NONE" /\ fnf'[2].status # "NONE")
      BY <2>2, <3>1, <3>2 DEF Created, OnceEach
    <3>6. QED
      BY <3>3, <3>4, <3>5 DEF OnceEach, SeedInv
  <2>11. QED
    BY <2>3, <2>4, <2>5, <2>6, <2>7, <2>8, <2>9, <2>10
<1>4. ASSUME NEW o \in Officers, FinalizeWrite(o) PROVE SettlementInv'
  <2>1. /\ officer[o].row \in FnfRows /\ fnf[officer[o].row].status # "NONE" /\ approved
    BY <1>4 DEF FinalizeWrite, OfficerInv
  <2>2. /\ fnf' = [fnf EXCEPT ![officer[o].row] = [fnf[officer[o].row] EXCEPT !.status = "PROCESSED"]]
        /\ paidOut' = [paidOut EXCEPT ![officer[o].row] = fnf[officer[o].row].net]
    BY <1>4, <2>1 DEF FinalizeWrite
  <2>3. [fnf[officer[o].row] EXCEPT !.status = "PROCESSED"] \in FnfRow
    BY <2>1 DEF FnfRow
  <2>4. Existing' = Existing /\ fnf' \in [FnfRows -> FnfRow] /\ edited' \in SUBSET FnfRows
    <3>1. fnf' \in [FnfRows -> FnfRow]
      BY <2>1, <2>2, <2>3
    <3>2. \A i \in FnfRows : fnf'[i].status # "NONE" <=> fnf[i].status # "NONE"
      BY <2>1, <2>2
    <3>3. edited' = edited \/ edited' = edited \cup {officer[o].row}
      BY <1>4 DEF FinalizeWrite
    <3>4. QED
      BY <2>1, <3>1, <3>2, <3>3 DEF Existing
  <2>5. (fnf \in [FnfRows -> FnfRow] /\ paidOut \in [FnfRows -> Money])'
    BY <2>1, <2>2, <2>4 DEF FnfRow
  <2>6. (officer \in [Officers -> Work])'
    BY <1>4, <2>1, <2>2, <2>3, <2>4, FreeWork DEF FinalizeWrite, Finishes
  <2>7. (clearance \in [Departments -> [open : Nat, cleared : Nat]])'
    BY <1>4, <2>1, <2>2, <2>3, <2>4 DEF FinalizeWrite, Finishes
  <2>8. (approved \in BOOLEAN /\ seeding \in BOOLEAN /\ edited \in SUBSET FnfRows)'
    BY <1>4, <2>4 DEF FinalizeWrite
  <2>9. (\A j \in FnfRows : RowInv(j))'
    BY <1>4, <2>1, <2>2, <2>3, <2>4, FreeWork DEF FinalizeWrite, Finishes, RowInv, fnfVars
  <2>10. (\A p \in Officers : OfficerInv(p))'
    BY <1>4, <2>1, <2>2, <2>3, <2>4, FreeWork DEF FinalizeWrite, Finishes, OfficerInv, fnfVars
  <2>11. (~ approved => Existing = {})'
    BY <1>4, <2>4 DEF FinalizeWrite
  <2>12. (~ seeding => OnceEach /\ \A p \in Officers : SeedInv(p))'
    <3> SUFFICES ASSUME ~ seeding' PROVE OnceEach' /\ \A p \in Officers : SeedInv(p)'
      OBVIOUS
    <3>1. OnceEach /\ (\A p \in Officers : SeedInv(p)) /\ clearance' = clearance
      BY <1>4 DEF FinalizeWrite
    <3>2. \A p \in Officers : officer'[p] = officer[p] \/ officer'[p].pc # "seed"
      BY <1>4, FreeWork DEF FinalizeWrite, Finishes
    <3>3. Seeded' = Seeded /\ (\A d \in Departments : Lines(d)' = Lines(d)) /\ Existing' = Existing
      BY <2>4, <3>1 DEF Seeded, Lines
    <3>4. OnceEach'
      BY <3>1, <3>3 DEF OnceEach, Existing, FnfRows
    <3>5. ASSUME NEW p \in Officers PROVE SeedInv(p)'
      BY <3>1, <3>2, <3>3 DEF SeedInv
    <3>6. QED
      BY <3>4, <3>5
  <2>13. QED
    BY <2>5, <2>6, <2>7, <2>8, <2>9, <2>10, <2>11, <2>12
<1>5. ASSUME NEW o \in Officers, OfficerDies(o) PROVE SettlementInv'
  <2>1. (fnf \in [FnfRows -> FnfRow] /\ paidOut \in [FnfRows -> Money])'
    BY <1>5 DEF OfficerDies, Finishes, fnfVars
  <2>2. (officer \in [Officers -> Work])'
    BY <1>5, FreeWork DEF OfficerDies, Finishes
  <2>3. (clearance \in [Departments -> [open : Nat, cleared : Nat]])'
    BY <1>5 DEF OfficerDies, Finishes
  <2>4. (approved \in BOOLEAN /\ seeding \in BOOLEAN /\ edited \in SUBSET FnfRows)'
    BY <1>5 DEF OfficerDies, Finishes, fnfVars
  <2>5. (\A j \in FnfRows : RowInv(j))'
    BY <1>5, FreeWork DEF OfficerDies, Finishes, RowInv, fnfVars
  <2>6. (\A p \in Officers : OfficerInv(p))'
    BY <1>5, FreeWork DEF OfficerDies, Finishes, OfficerInv, fnfVars
  <2>7. (~ approved => Existing = {})'
    BY <1>5 DEF OfficerDies, Finishes, Existing, fnfVars
  <2>8. (~ seeding => OnceEach /\ \A p \in Officers : SeedInv(p))'
    BY <1>5, FreeWork DEF OfficerDies, Finishes, OnceEach, SeedInv, Existing, Seeded, Lines, fnfVars
  <2>9. QED
    BY <2>1, <2>2, <2>3, <2>4, <2>5, <2>6, <2>7, <2>8
<1>6. ASSUME NEW o \in Officers, NEW i \in FnfRows, EditRead(o, i) PROVE SettlementInv'
  <2>1. [Free EXCEPT !.pc = "edit", !.row = i] \in Work
    BY FreeWork DEF Work
  <2>2. officer' = [officer EXCEPT ![o] = [Free EXCEPT !.pc = "edit", !.row = i]] /\ officer[o].pc = "idle"
    BY <1>6 DEF EditRead, Opens
  <2>3. officer'[o].pc = "edit" /\ officer'[o].row = i
    BY <2>2, FreeWork DEF Work
  <2>4. \A p \in Officers \ {o} : officer'[p] = officer[p]
    BY <2>2
  <2>5. (fnf \in [FnfRows -> FnfRow] /\ paidOut \in [FnfRows -> Money])'
    BY <1>6, <2>1, <2>2, <2>3, <2>4 DEF EditRead, Opens, fnfVars
  <2>6. (officer \in [Officers -> Work])'
    BY <2>1, <2>2
  <2>7. (clearance \in [Departments -> [open : Nat, cleared : Nat]])'
    BY <1>6, <2>1, <2>2, <2>3, <2>4 DEF EditRead, Opens
  <2>8. (approved \in BOOLEAN /\ seeding \in BOOLEAN /\ edited \in SUBSET FnfRows)'
    BY <1>6, <2>1, <2>2, <2>3, <2>4 DEF EditRead, Opens, fnfVars
  <2>9. (\A j \in FnfRows : RowInv(j))'
    BY <1>6, <2>1, <2>2, <2>3, <2>4, FreeWork DEF EditRead, Opens, RowInv, fnfVars
  <2>10. (\A p \in Officers : OfficerInv(p))'
    <3>1. approved /\ fnf[i].status = "DRAFT" /\ fnf' = fnf /\ approved' = approved
      BY <1>6 DEF EditRead, Existing, fnfVars
    <3>2. QED
      BY <2>3, <2>4, <3>1 DEF OfficerInv
  <2>11. (~ approved => Existing = {})'
    BY <1>6, <2>1, <2>2, <2>3, <2>4 DEF EditRead, Opens, Existing, fnfVars
  <2>12. (~ seeding => OnceEach /\ \A p \in Officers : SeedInv(p))'
    BY <1>6, <2>1, <2>2, <2>3, <2>4, FreeWork DEF EditRead, Opens, OnceEach, SeedInv, Existing,
       Seeded, Lines, fnfVars
  <2>13. QED
    BY <2>5, <2>6, <2>7, <2>8, <2>9, <2>10, <2>11, <2>12
<1>7. ASSUME NEW o \in Officers, NEW i \in FnfRows, FinalizeRead(o, i) PROVE SettlementInv'
  <2>1. [Free EXCEPT !.pc = "finalize", !.row = i] \in Work
    BY FreeWork DEF Work
  <2>2. officer' = [officer EXCEPT ![o] = [Free EXCEPT !.pc = "finalize", !.row = i]] /\ officer[o].pc = "idle"
    BY <1>7 DEF FinalizeRead, Opens
  <2>3. officer'[o].pc = "finalize" /\ officer'[o].row = i
    BY <2>2, FreeWork DEF Work
  <2>4. \A p \in Officers \ {o} : officer'[p] = officer[p]
    BY <2>2
  <2>5. (fnf \in [FnfRows -> FnfRow] /\ paidOut \in [FnfRows -> Money])'
    BY <1>7, <2>1, <2>2, <2>3, <2>4 DEF FinalizeRead, Opens, fnfVars
  <2>6. (officer \in [Officers -> Work])'
    BY <2>1, <2>2
  <2>7. (clearance \in [Departments -> [open : Nat, cleared : Nat]])'
    BY <1>7, <2>1, <2>2, <2>3, <2>4 DEF FinalizeRead, Opens
  <2>8. (approved \in BOOLEAN /\ seeding \in BOOLEAN /\ edited \in SUBSET FnfRows)'
    BY <1>7, <2>1, <2>2, <2>3, <2>4 DEF FinalizeRead, Opens, fnfVars
  <2>9. (\A j \in FnfRows : RowInv(j))'
    BY <1>7, <2>1, <2>2, <2>3, <2>4, FreeWork DEF FinalizeRead, Opens, RowInv, fnfVars
  <2>10. (\A p \in Officers : OfficerInv(p))'
    <3>1. approved /\ fnf[i].status = "DRAFT" /\ fnf' = fnf /\ approved' = approved
      BY <1>7 DEF FinalizeRead, Existing, fnfVars
    <3>2. QED
      BY <2>3, <2>4, <3>1 DEF OfficerInv
  <2>11. (~ approved => Existing = {})'
    BY <1>7, <2>1, <2>2, <2>3, <2>4 DEF FinalizeRead, Opens, Existing, fnfVars
  <2>12. (~ seeding => OnceEach /\ \A p \in Officers : SeedInv(p))'
    BY <1>7, <2>1, <2>2, <2>3, <2>4, FreeWork DEF FinalizeRead, Opens, OnceEach, SeedInv, Existing,
       Seeded, Lines, fnfVars
  <2>13. QED
    BY <2>5, <2>6, <2>7, <2>8, <2>9, <2>10, <2>11, <2>12
<1>8. ASSUME NEW o \in Officers, NEW a \in Amounts, EditWrite(o, a) PROVE SettlementInv'
  <2>1. /\ officer[o].row \in FnfRows /\ fnf[officer[o].row].status # "NONE" /\ approved
    BY <1>8 DEF EditWrite, OfficerInv
  <2>2. fnf' = [fnf EXCEPT ![officer[o].row] = [fnf[officer[o].row] EXCEPT !.amounts = a, !.net = Net(a)]]
    BY <1>8, <2>1 DEF EditWrite
  <2>3. [fnf[officer[o].row] EXCEPT !.amounts = a, !.net = Net(a)] \in FnfRow
    BY ZenonT(60), <2>1, NetIsMoney DEF FnfRow
  <2>4. Existing' = Existing /\ fnf' \in [FnfRows -> FnfRow]
    <3>1. fnf' \in [FnfRows -> FnfRow]
      BY <2>1, <2>2, <2>3
    <3>2. \A i \in FnfRows : fnf'[i].status = fnf[i].status
      BY <2>1, <2>2
    <3>3. QED
      BY <3>1, <3>2 DEF Existing
  <2>5. (fnf \in [FnfRows -> FnfRow] /\ paidOut \in [FnfRows -> Money])'
    BY <1>8, <2>4 DEF EditWrite
  <2>6. (officer \in [Officers -> Work])'
    BY <1>8, <2>1, <2>2, <2>3, <2>4, FreeWork DEF EditWrite, Finishes
  <2>7. (clearance \in [Departments -> [open : Nat, cleared : Nat]])'
    BY <1>8, <2>1, <2>2, <2>3, <2>4 DEF EditWrite, Finishes
  <2>8. (approved \in BOOLEAN /\ seeding \in BOOLEAN /\ edited \in SUBSET FnfRows)'
    BY <1>8, <2>1, <2>2, <2>3, <2>4 DEF EditWrite, Finishes, fnfVars
  <2>9. (\A j \in FnfRows : RowInv(j))'
    BY <1>8, <2>1, <2>2, <2>3, <2>4, FreeWork DEF EditWrite, Finishes, RowInv, fnfVars
  <2>10. (\A p \in Officers : OfficerInv(p))'
    BY <1>8, <2>1, <2>2, <2>3, <2>4, FreeWork DEF EditWrite, Finishes, OfficerInv, fnfVars
  <2>11. (~ approved => Existing = {})'
    BY <1>8, <2>4 DEF EditWrite
  <2>12. (~ seeding => OnceEach /\ \A p \in Officers : SeedInv(p))'
    <3> SUFFICES ASSUME ~ seeding' PROVE OnceEach' /\ \A p \in Officers : SeedInv(p)'
      OBVIOUS
    <3>1. OnceEach /\ (\A p \in Officers : SeedInv(p)) /\ clearance' = clearance
      BY <1>8 DEF EditWrite
    <3>2. \A p \in Officers : officer'[p] = officer[p] \/ officer'[p].pc # "seed"
      BY <1>8, FreeWork DEF EditWrite, Finishes
    <3>3. Seeded' = Seeded /\ (\A d \in Departments : Lines(d)' = Lines(d)) /\ Existing' = Existing
      BY <2>4, <3>1 DEF Seeded, Lines
    <3>4. OnceEach'
      BY <3>1, <3>3 DEF OnceEach, Existing, FnfRows
    <3>5. ASSUME NEW p \in Officers PROVE SeedInv(p)'
      BY <3>1, <3>2, <3>3 DEF SeedInv
    <3>6. QED
      BY <3>4, <3>5
  <2>13. QED
    BY <2>5, <2>6, <2>7, <2>8, <2>9, <2>10, <2>11, <2>12
<1>9. ASSUME NEW d \in Departments, NEW cleared \in BOOLEAN,
             ToggleClearance(d, cleared)
      PROVE  SettlementInv'
  <2>1. (fnf \in [FnfRows -> FnfRow] /\ paidOut \in [FnfRows -> Money])'
    BY <1>9 DEF ToggleClearance, fnfVars
  <2>2. (officer \in [Officers -> Work])'
    BY <1>9, FreeWork DEF ToggleClearance
  <2>3. (clearance \in [Departments -> [open : Nat, cleared : Nat]])'
    BY <1>9 DEF ToggleClearance
  <2>4. (approved \in BOOLEAN /\ seeding \in BOOLEAN /\ edited \in SUBSET FnfRows)'
    BY <1>9 DEF ToggleClearance, fnfVars
  <2>5. (\A j \in FnfRows : RowInv(j))'
    BY <1>9, FreeWork DEF ToggleClearance, RowInv, fnfVars
  <2>6. (\A p \in Officers : OfficerInv(p))'
    BY <1>9, FreeWork DEF ToggleClearance, OfficerInv, fnfVars
  <2>7. (~ approved => Existing = {})'
    BY <1>9 DEF ToggleClearance, Existing, fnfVars
  <2>8. (~ seeding => OnceEach /\ \A p \in Officers : SeedInv(p))'
    BY <1>9, FreeWork DEF ToggleClearance, OnceEach, SeedInv, Existing, Seeded, Lines, fnfVars
  <2>9. QED
    BY <2>1, <2>2, <2>3, <2>4, <2>5, <2>6, <2>7, <2>8
<1>10. CASE UNCHANGED setVars
  BY <1>10 DEF setVars, Existing, Lines, OfficerInv, OnceEach, RowInv, SeedInv, Seeded, fnfVars
<1>11. QED
  BY <1>1, <1>2, <1>3, <1>4, <1>5, <1>6, <1>7, <1>8, <1>9, <1>10 DEF SetNext

LEMMA SettlementInvInit == SetInit => SettlementInv
<1> SUFFICES ASSUME SetInit PROVE SettlementInv
  OBVIOUS
<1>1. fnf \in [FnfRows -> FnfRow] /\ paidOut \in [FnfRows -> Money]
  <2>1. 0 \in Money
    BY DEF Money
  <2>2. QED
    BY <2>1, DraftRow DEF SetInit
<1>2. officer \in [Officers -> Work] /\ \A o \in Officers : officer[o].pc = "idle"
  BY FreeWork DEF SetInit
<1>3. \A i \in FnfRows : fnf[i].status = "NONE"
  BY DraftRow DEF SetInit
<1>4. clearance \in [Departments -> [open : Nat, cleared : Nat]] /\ \A d \in Departments : Lines(d) = 0
  BY DEF SetInit, Lines
<1>5. OnceEach /\ Existing = {}
  BY <1>3, <1>4 DEF OnceEach, Existing, FnfRows
<1>6. (\A i \in FnfRows : RowInv(i)) /\ \A o \in Officers : OfficerInv(o) /\ SeedInv(o)
  BY <1>2, <1>3 DEF RowInv, OfficerInv, SeedInv
<1>7. QED
  BY <1>1, <1>2, <1>4, <1>5, <1>6 DEF SetInit, SettlementInv

\* However the requests of HR interleave: one settlement and one line per department,
\* unless two backfills overlapped; a processed settlement keeps the amount that was
\* paid, unless an edit had read the draft (ensure_artifacts_on_approval,
\* upsert_fnf_settlement, finalize_fnf_settlement).
THEOREM SettlementsSettleOnce == SetSpec => []SettledOnce
<1>1. SetInit => SettlementInv
  BY SettlementInvInit
<1>2. SettlementInv /\ [SetNext]_setVars => SettlementInv'
  BY StepKeepsSettlementInv
<1>3. SettlementInv => SettledOnce
  BY AtMostOne DEF SettlementInv, SettledOnce, SetTypeOK, FnfRow, Work, RowInv, OnceEach, Lines
<1>4. QED
  BY <1>1, <1>2, <1>3, PTL DEF SetSpec

-----------------------------------------------------------------------------
(* Profiles *)

ChangeRow == [status : {"NONE", "PENDING"} \cup Final, by : People \cup {NoOne},
              value : 0..MaxValues, sealed : BOOLEAN, doc : Documents \cup {NoOne}]

DetailRow == [value : 0..MaxValues, primary : BOOLEAN, verified : BOOLEAN]

RecordRow == [content : 0..MaxValues, deleted : BOOLEAN,
              status : {"UNVERIFIED", "PENDING", "VERIFIED", "REJECTED"}]

ClerkRow == [pc : {"idle", "insert", "apply", "write", "link", "mark", "decide"},
             req : ChangeRequests \cup {NoOne}, rec : Records \cup {NoOne},
             doc : Documents \cup {NoOne}, by : People \cup {NoOne}, rows : SUBSET DetailRows]

DocumentStatus == {"NONE", "PENDING", "APPROVED", "REJECTED"}

CountsTyped ==
  /\ values \in 0..MaxValues /\ accepted \in SUBSET (1..MaxValues)
  /\ reviewed \in [Records -> 0..MaxValues] /\ decided \in [ChangeRequests -> Nat]

DetailInv(i) == detail[i].verified => detail[i].value \in accepted

RecordInv(k) == record[k].status = "VERIFIED" => record[k].content = reviewed[k]

\* A request that was filed has a value, and one decision event if it is decided.
ChangeInv(r) ==
  /\ decided[r] = IF change[r].status \in Final THEN 1 ELSE 0
  /\ change[r].sealed <=> change[r].status = "PENDING"
  /\ change[r].status # "NONE" => change[r].value # 0

\* A change request is inserted or applied by one request alone, and nobody decides it
\* meanwhile.
ClerkInv(c) ==
  /\ clerk[c].pc = "insert" => clerk[c].req \in ChangeRequests /\ change[clerk[c].req].status = "NONE"
  /\ clerk[c].pc = "apply" => clerk[c].req \in ChangeRequests /\ change[clerk[c].req].status = "PENDING"
  /\ clerk[c].pc \in {"insert", "apply"} =>
       \A d \in Clerks \ {c} : clerk[d].pc \in {"insert", "apply"} => clerk[d].req # clerk[c].req
  /\ clerk[c].pc = "link" => clerk[c].rec \in Records /\ clerk[c].doc \in Documents

ProfileInv ==
  /\ change \in [ChangeRequests -> ChangeRow] /\ detail \in [DetailRows -> DetailRow]
  /\ record \in [Records -> RecordRow] /\ evidence \in [Records -> SUBSET Documents]
  /\ document \in [Documents -> DocumentStatus] /\ clerk \in [Clerks -> ClerkRow]
  /\ CountsTyped
  /\ \A i \in DetailRows : DetailInv(i)
  /\ \A k \in Records : RecordInv(k)
  /\ \A r \in ChangeRequests : ChangeInv(r)
  /\ \A c \in Clerks : ClerkInv(c)

LEMMA AtRestRow == AtRest \in ClerkRow /\ AtRest.pc = "idle"
  BY DEF AtRest, ClerkRow

LEMMA ClerkStored ==
  ASSUME clerk \in [Clerks -> ClerkRow], NEW c, NEW work \in ClerkRow
  PROVE  [clerk EXCEPT ![c] = work] \in [Clerks -> ClerkRow]
  OBVIOUS

LEMMA DocumentsStamped ==
  ASSUME document \in [Documents -> DocumentStatus], NEW docs, NEW b \in BOOLEAN, Stamp(docs, b)
  PROVE  document' \in [Documents -> DocumentStatus]
  BY DEF Stamp, DocumentStatus

\* Writing a detail puts the value and its mark into one row, and every other row keeps
\* its own.
LEMMA DetailWritten ==
  ASSUME detail \in [DetailRows -> DetailRow], NEW rows \in SUBSET DetailRows,
         NEW v \in 0..MaxValues, NEW verified \in BOOLEAN, WriteDetail(rows, v, verified)
  PROVE  /\ detail' \in [DetailRows -> DetailRow]
         /\ \A i \in DetailRows :
              \/ detail'[i].value = v /\ detail'[i].verified = verified
              \/ detail'[i].value = detail[i].value /\ detail'[i].verified = detail[i].verified
<1> DEFINE new == [value |-> v, primary |-> TRUE, verified |-> verified]
<1>1. new \in DetailRow /\ new.value = v /\ new.verified = verified
  BY DEF DetailRow
<1>2. CASE rows = {}
  <2>1. PICK i \in DetailRows : detail' = [detail EXCEPT ![i] = new]
    BY <1>2 DEF WriteDetail
  <2> HIDE DEF new
  <2>2. QED
    BY <1>1, <2>1
<1>3. CASE rows # {}
  <2>1. PICK target \in rows :
          detail' = [i \in DetailRows |-> IF i = target THEN new
                                          ELSE IF i \in rows THEN [detail[i] EXCEPT !.primary = FALSE]
                                          ELSE detail[i]]
    BY <1>3 DEF WriteDetail
  <2> HIDE DEF new
  <2>2. \A i \in DetailRows : /\ [detail[i] EXCEPT !.primary = FALSE] \in DetailRow
                              /\ [detail[i] EXCEPT !.primary = FALSE].value = detail[i].value
                              /\ [detail[i] EXCEPT !.primary = FALSE].verified = detail[i].verified
    BY DEF DetailRow
  <2>3. QED
    BY <1>1, <2>1, <2>2
<1>4. QED
  BY <1>2, <1>3

LEMMA StepKeepsProfileInv == ProfileInv /\ [ProfNext]_profVars => ProfileInv'
<1> SUFFICES ASSUME ProfileInv, [ProfNext]_profVars PROVE ProfileInv'
  OBVIOUS
<1> USE DEF ProfileInv
<1>1. ASSUME NEW d \in Documents, NEW p \in People, Upload(d, p) PROVE ProfileInv'
  <2>1. (change \in [ChangeRequests -> ChangeRow])'
    BY <1>1 DEF Upload, changeVars
  <2>2. (detail \in [DetailRows -> DetailRow])'
    BY <1>1 DEF Upload, changeVars
  <2>3. (record \in [Records -> RecordRow])'
    BY <1>1 DEF Upload, recordVars
  <2>4. (evidence \in [Records -> SUBSET Documents])'
    BY <1>1 DEF Upload, recordVars
  <2>5. (document \in [Documents -> DocumentStatus])'
    BY <1>1 DEF Upload, DocumentStatus
  <2>6. (clerk \in [Clerks -> ClerkRow])'
    BY <1>1, AtRestRow DEF Upload
  <2>7. CountsTyped'
    BY <1>1 DEF Upload, CountsTyped, changeVars, recordVars
  <2>8. (\A x \in DetailRows : DetailInv(x))'
    BY <1>1 DEF Upload, DetailInv, changeVars
  <2>9. (\A x \in Records : RecordInv(x))'
    BY <1>1 DEF Upload, RecordInv, recordVars
  <2>10. (\A x \in ChangeRequests : ChangeInv(x))'
    BY <1>1 DEF Upload, ChangeInv, changeVars
  <2>11. (\A x \in Clerks : ClerkInv(x))'
    BY <1>1, AtRestRow DEF Upload, ClerkInv, changeVars
  <2>12. QED
    BY <2>1, <2>2, <2>3, <2>4, <2>5, <2>6, <2>7, <2>8, <2>9, <2>10, <2>11
<1>2. ASSUME NEW c \in Clerks, NEW d \in Documents, DocumentRead(c, d) PROVE ProfileInv'
  <2>1. (change \in [ChangeRequests -> ChangeRow])'
    BY <1>2 DEF DocumentRead, Takes, changeVars
  <2>2. (detail \in [DetailRows -> DetailRow])'
    BY <1>2 DEF DocumentRead, Takes, changeVars
  <2>3. (record \in [Records -> RecordRow])'
    BY <1>2 DEF DocumentRead, Takes, recordVars
  <2>4. (evidence \in [Records -> SUBSET Documents])'
    BY <1>2 DEF DocumentRead, Takes, recordVars
  <2>5. (document \in [Documents -> DocumentStatus])'
    BY <1>2 DEF DocumentRead, Takes
  <2>6. (clerk \in [Clerks -> ClerkRow])'
    <3>1. [AtRest EXCEPT !.pc = "decide", !.doc = d] \in ClerkRow
      BY AtRestRow DEF ClerkRow, DetailsFound, People
    <3>2. QED
      BY <1>2, <3>1, ClerkStored DEF DocumentRead, Takes
  <2>7. CountsTyped'
    BY <1>2 DEF DocumentRead, Takes, CountsTyped, changeVars, recordVars
  <2>8. (\A x \in DetailRows : DetailInv(x))'
    BY <1>2 DEF DocumentRead, Takes, DetailInv, changeVars
  <2>9. (\A x \in Records : RecordInv(x))'
    BY <1>2 DEF DocumentRead, Takes, RecordInv, recordVars
  <2>10. (\A x \in ChangeRequests : ChangeInv(x))'
    BY <1>2 DEF DocumentRead, Takes, ChangeInv, changeVars
  <2>11. (\A x \in Clerks : ClerkInv(x))'
    BY <1>2, AtRestRow DEF DocumentRead, Takes, ClerkInv, changeVars
  <2>12. QED
    BY <2>1, <2>2, <2>3, <2>4, <2>5, <2>6, <2>7, <2>8, <2>9, <2>10, <2>11
<1>3. ASSUME NEW c \in Clerks, NEW ok \in BOOLEAN, DocumentDecided(c, ok) PROVE ProfileInv'
  <2>1. (change \in [ChangeRequests -> ChangeRow])'
    BY <1>3 DEF DocumentDecided, On, Rests, changeVars
  <2>2. (detail \in [DetailRows -> DetailRow])'
    BY <1>3 DEF DocumentDecided, On, Rests, changeVars
  <2>3. (record \in [Records -> RecordRow])'
    BY <1>3 DEF DocumentDecided, On, Rests, recordVars
  <2>4. (evidence \in [Records -> SUBSET Documents])'
    BY <1>3 DEF DocumentDecided, On, Rests, recordVars
  <2>5. (document \in [Documents -> DocumentStatus])'
    BY <1>3 DEF DocumentDecided, DocumentStatus
  <2>6. (clerk \in [Clerks -> ClerkRow])'
    BY <1>3, AtRestRow, ClerkStored DEF DocumentDecided, Rests
  <2>7. CountsTyped'
    BY <1>3 DEF DocumentDecided, On, Rests, CountsTyped, changeVars, recordVars
  <2>8. (\A x \in DetailRows : DetailInv(x))'
    BY <1>3 DEF DocumentDecided, On, Rests, DetailInv, changeVars
  <2>9. (\A x \in Records : RecordInv(x))'
    BY <1>3 DEF DocumentDecided, On, Rests, RecordInv, recordVars
  <2>10. (\A x \in ChangeRequests : ChangeInv(x))'
    BY <1>3 DEF DocumentDecided, On, Rests, ChangeInv, changeVars
  <2>11. (\A x \in Clerks : ClerkInv(x))'
    BY <1>3, AtRestRow DEF DocumentDecided, On, Rests, ClerkInv, changeVars
  <2>12. QED
    BY <2>1, <2>2, <2>3, <2>4, <2>5, <2>6, <2>7, <2>8, <2>9, <2>10, <2>11
<1>4. ASSUME NEW c \in Clerks, NEW r \in ChangeRequests, NEW p \in People, NEW d \in Documents \cup {NoOne},
             SubmitRead(c, r, p, d)
      PROVE  ProfileInv'
  <2>1. (change \in [ChangeRequests -> ChangeRow])'
    BY <1>4 DEF SubmitRead, Takes, changeVars
  <2>2. (detail \in [DetailRows -> DetailRow])'
    BY <1>4 DEF SubmitRead, Takes, changeVars
  <2>3. (record \in [Records -> RecordRow])'
    BY <1>4 DEF SubmitRead, Takes, recordVars
  <2>4. (evidence \in [Records -> SUBSET Documents])'
    BY <1>4 DEF SubmitRead, Takes, recordVars
  <2>5. (document \in [Documents -> DocumentStatus])'
    BY <1>4 DEF SubmitRead, Takes
  <2>6. (clerk \in [Clerks -> ClerkRow])'
    <3>1. [AtRest EXCEPT !.pc = "insert", !.req = r, !.by = p, !.doc = d] \in ClerkRow
      BY AtRestRow DEF ClerkRow, DetailsFound, People
    <3>2. QED
      BY <1>4, <3>1, ClerkStored DEF SubmitRead, Takes
  <2>7. CountsTyped'
    BY <1>4 DEF SubmitRead, Takes, CountsTyped, changeVars, recordVars
  <2>8. (\A x \in DetailRows : DetailInv(x))'
    BY <1>4 DEF SubmitRead, Takes, DetailInv, changeVars
  <2>9. (\A x \in Records : RecordInv(x))'
    BY <1>4 DEF SubmitRead, Takes, RecordInv, recordVars
  <2>10. (\A x \in ChangeRequests : ChangeInv(x))'
    BY <1>4 DEF SubmitRead, Takes, ChangeInv, changeVars
  <2>11. (\A x \in Clerks : ClerkInv(x))'
    BY <1>4, AtRestRow DEF SubmitRead, Takes, ClerkInv, changeVars
  <2>12. QED
    BY <2>1, <2>2, <2>3, <2>4, <2>5, <2>6, <2>7, <2>8, <2>9, <2>10, <2>11
<1>5. ASSUME NEW c \in Clerks, NEW r \in ChangeRequests, NEW p \in People,
             ApproveRead(c, r, p)
      PROVE  ProfileInv'
  <2>1. (change \in [ChangeRequests -> ChangeRow])'
    BY <1>5 DEF ApproveRead, Takes, changeVars
  <2>2. (detail \in [DetailRows -> DetailRow])'
    BY <1>5 DEF ApproveRead, Takes, changeVars
  <2>3. (record \in [Records -> RecordRow])'
    BY <1>5 DEF ApproveRead, Takes, recordVars
  <2>4. (evidence \in [Records -> SUBSET Documents])'
    BY <1>5 DEF ApproveRead, Takes, recordVars
  <2>5. (document \in [Documents -> DocumentStatus])'
    BY <1>5 DEF ApproveRead, Takes
  <2>6. (clerk \in [Clerks -> ClerkRow])'
    <3>1. [AtRest EXCEPT !.pc = "apply", !.req = r, !.by = p, !.rows = DetailsFound] \in ClerkRow
      BY AtRestRow DEF ClerkRow, DetailsFound, People
    <3>2. QED
      BY <1>5, <3>1, ClerkStored DEF ApproveRead, Takes
  <2>7. CountsTyped'
    BY <1>5 DEF ApproveRead, Takes, CountsTyped, changeVars, recordVars
  <2>8. (\A x \in DetailRows : DetailInv(x))'
    BY <1>5 DEF ApproveRead, Takes, DetailInv, changeVars
  <2>9. (\A x \in Records : RecordInv(x))'
    BY <1>5 DEF ApproveRead, Takes, RecordInv, recordVars
  <2>10. (\A x \in ChangeRequests : ChangeInv(x))'
    BY <1>5 DEF ApproveRead, Takes, ChangeInv, changeVars
  <2>11. (\A x \in Clerks : ClerkInv(x))'
    <3>1. /\ clerk' = [clerk EXCEPT ![c] = [AtRest EXCEPT !.pc = "apply", !.req = r, !.by = p,
                                                    !.rows = DetailsFound]]
          /\ change' = change /\ change[r].status = "PENDING"
          /\ \A x \in Clerks : ~ (clerk[x].pc = "apply" /\ clerk[x].req = r)
      BY <1>5 DEF ApproveRead, Takes, MayResolve, Locked, On, changeVars
    <3>2. clerk'[c].pc = "apply" /\ clerk'[c].req = r
      BY <3>1, AtRestRow DEF ClerkRow
    <3>3. ASSUME NEW x \in Clerks \ {c}
          PROVE  clerk'[x] = clerk[x] /\ (clerk[x].pc \in {"insert", "apply"} => clerk[x].req # r)
      BY <3>1, <3>3 DEF ClerkInv
    <3>4. ClerkInv(c)'
      BY <3>1, <3>2, <3>3 DEF ClerkInv
    <3>5. ASSUME NEW x \in Clerks \ {c} PROVE ClerkInv(x)'
      BY <3>1, <3>2, <3>3 DEF ClerkInv
    <3>6. QED
      BY <3>4, <3>5
  <2>12. QED
    BY <2>1, <2>2, <2>3, <2>4, <2>5, <2>6, <2>7, <2>8, <2>9, <2>10, <2>11
<1>6. ASSUME NEW c \in Clerks, SubmitInsert(c) PROVE ProfileInv'
  <2>1. clerk[c].req \in ChangeRequests /\ change[clerk[c].req].status = "NONE"
    BY <1>6 DEF SubmitInsert, On, ClerkInv
  <2>2. PICK row \in ChangeRow : /\ change' = [change EXCEPT ![clerk[c].req] = row]
                               /\ row.status = "PENDING" /\ row.sealed = TRUE /\ row.value = values + 1
    <3> DEFINE row == [status |-> "PENDING", by |-> clerk[c].by, value |-> values + 1, sealed |-> TRUE,
                       doc |-> clerk[c].doc]
    <3>1. values + 1 \in 0..MaxValues
      BY <1>6, ProfileAssumption DEF SubmitInsert, NewValue, CountsTyped
    <3>2. row \in ChangeRow /\ row.status = "PENDING" /\ row.sealed = TRUE /\ row.value = values + 1
      BY <3>1 DEF ChangeRow, ClerkRow
    <3>3. change' = [change EXCEPT ![clerk[c].req] = row]
      BY <1>6 DEF SubmitInsert
    <3>4. QED
      BY <3>2, <3>3
  <2>3. values' = values + 1 /\ values' \in 0..MaxValues
    BY <1>6, ProfileAssumption DEF SubmitInsert, NewValue, CountsTyped
  <2>4. (change \in [ChangeRequests -> ChangeRow])'
    BY <2>2
  <2>5. (detail \in [DetailRows -> DetailRow])'
    BY <1>6, <2>1, <2>2, <2>3 DEF SubmitInsert, On, Rests, NewValue, changeVars
  <2>6. (record \in [Records -> RecordRow])'
    BY <1>6, <2>1, <2>2, <2>3 DEF SubmitInsert, On, Rests, NewValue, recordVars
  <2>7. (evidence \in [Records -> SUBSET Documents])'
    BY <1>6, <2>1, <2>2, <2>3 DEF SubmitInsert, On, Rests, NewValue, recordVars
  <2>8. (document \in [Documents -> DocumentStatus])'
    BY <1>6, <2>1, <2>2, <2>3 DEF SubmitInsert, On, Rests, NewValue
  <2>9. (clerk \in [Clerks -> ClerkRow])'
    BY <1>6, AtRestRow, ClerkStored DEF SubmitInsert, Rests
  <2>10. CountsTyped'
    BY <1>6, <2>3 DEF SubmitInsert, CountsTyped, recordVars
  <2>11. (\A x \in DetailRows : DetailInv(x))'
    BY <1>6, <2>1, <2>2, <2>3 DEF SubmitInsert, On, Rests, NewValue, DetailInv, changeVars
  <2>12. (\A x \in Records : RecordInv(x))'
    BY <1>6, <2>1, <2>2, <2>3 DEF SubmitInsert, On, Rests, NewValue, RecordInv, recordVars
  <2>13. (\A x \in ChangeRequests : ChangeInv(x))'
    BY <1>6, <2>1, <2>2 DEF SubmitInsert, ChangeInv, CountsTyped, Final
  <2>14. (\A x \in Clerks : ClerkInv(x))'
    <3>1. clerk' = [clerk EXCEPT ![c] = AtRest]
      BY <1>6 DEF SubmitInsert, Rests
    <3>2. clerk[c].pc = "insert"
      BY <1>6 DEF SubmitInsert, On
    <3>3. ASSUME NEW x \in Clerks PROVE ClerkInv(x)'
      <4>1. CASE x = c
        BY <3>1, <4>1, AtRestRow DEF ClerkInv
      <4>2. CASE x # c
        <5>1. clerk'[x] = clerk[x] /\ (clerk[x].pc \in {"insert", "apply"} => clerk[x].req # clerk[c].req)
          BY <3>1, <3>2, <4>2 DEF ClerkInv
        <5>2. clerk[x].pc \in {"insert", "apply"} => change'[clerk[x].req] = change[clerk[x].req]
          BY <2>2, <5>1 DEF ClerkInv
        <5>3. QED
          BY <3>1, <5>1, <5>2, AtRestRow DEF ClerkInv
      <4>3. QED
        BY <4>1, <4>2
    <3>4. QED
      BY <3>3
  <2>15. QED
    BY <2>4, <2>5, <2>6, <2>7, <2>8, <2>9, <2>10, <2>11, <2>12, <2>13, <2>14
<1>7. ASSUME NEW c \in Clerks, ApproveWrite(c) PROVE ProfileInv'
  <2>1. clerk[c].req \in ChangeRequests /\ change[clerk[c].req].status = "PENDING"
    BY <1>7 DEF ApproveWrite, On, ClerkInv
  <2>2. PICK row \in ChangeRow : /\ change' = [change EXCEPT ![clerk[c].req] = row] /\ row.status = "APPROVED"
                               /\ row.sealed = FALSE /\ row.value = change[clerk[c].req].value
    <3> DEFINE row == [change[clerk[c].req] EXCEPT !.status = "APPROVED", !.sealed = FALSE]
    <3>1. row \in ChangeRow /\ row.status = "APPROVED" /\ row.sealed = FALSE /\ row.value = change[clerk[c].req].value
      BY ZenonT(60), <2>1 DEF ChangeRow, Final
    <3>2. change' = [change EXCEPT ![clerk[c].req] = row]
      BY <1>7, <2>1 DEF ApproveWrite, Close
    <3>3. QED
      BY <3>1, <3>2
  <2>3. decided' = [decided EXCEPT ![clerk[c].req] = 1]
    <3>1. decided' = [decided EXCEPT ![clerk[c].req] = decided[clerk[c].req] + 1]
      BY <1>7 DEF ApproveWrite, Close
    <3>2. decided[clerk[c].req] = 0
      BY <1>7, <2>1 DEF ApproveWrite, ChangeInv, MayResolve, Final
    <3>3. QED
      BY <3>1, <3>2
  <2>4. change[clerk[c].req].value \in 1..MaxValues /\ accepted' = accepted \cup {change[clerk[c].req].value}
    BY <1>7, <2>1, ProfileAssumption DEF ApproveWrite, ChangeInv, ChangeRow
  <2>5. /\ detail' \in [DetailRows -> DetailRow]
        /\ \A i \in DetailRows :
              \/ detail'[i].value = change[clerk[c].req].value
              \/ detail'[i].value = detail[i].value /\ detail'[i].verified = detail[i].verified
    <3>1. clerk[c].rows \in SUBSET DetailRows /\ change[clerk[c].req].value \in 0..MaxValues
      BY <2>1 DEF ClerkRow, ChangeRow
    <3>2. WriteDetail(clerk[c].rows, change[clerk[c].req].value, TRUE)
      BY <1>7 DEF ApproveWrite
    <3>3. QED
      BY ZenonT(60), <3>1, <3>2, DetailWritten
  <2>6. (change \in [ChangeRequests -> ChangeRow])'
    BY <2>1, <2>2
  <2>7. (detail \in [DetailRows -> DetailRow])'
    BY <2>5
  <2>8. (record \in [Records -> RecordRow])'
    BY <1>7, <2>1, <2>2, <2>3, <2>4, <2>5 DEF ApproveWrite, On, Rests, recordVars
  <2>9. (evidence \in [Records -> SUBSET Documents])'
    BY <1>7, <2>1, <2>2, <2>3, <2>4, <2>5 DEF ApproveWrite, On, Rests, recordVars
  <2>10. (document \in [Documents -> DocumentStatus])'
    BY <1>7, DocumentsStamped DEF ApproveWrite
  <2>11. (clerk \in [Clerks -> ClerkRow])'
    BY <1>7, AtRestRow, ClerkStored DEF ApproveWrite, Rests
  <2>12. CountsTyped'
    BY <1>7, <2>3, <2>4 DEF ApproveWrite, CountsTyped, recordVars
  <2>13. (\A x \in DetailRows : DetailInv(x))'
    BY <2>4, <2>5 DEF DetailInv
  <2>14. (\A x \in Records : RecordInv(x))'
    BY <1>7, <2>1, <2>2, <2>3, <2>4, <2>5 DEF ApproveWrite, On, Rests, RecordInv, recordVars
  <2>15. (\A x \in ChangeRequests : ChangeInv(x))'
    BY <2>1, <2>2, <2>3 DEF ChangeInv, CountsTyped, Final
  <2>16. (\A x \in Clerks : ClerkInv(x))'
    <3>1. clerk' = [clerk EXCEPT ![c] = AtRest]
      BY <1>7 DEF ApproveWrite, Rests
    <3>2. clerk[c].pc = "apply"
      BY <1>7 DEF ApproveWrite, On
    <3>3. ASSUME NEW x \in Clerks PROVE ClerkInv(x)'
      <4>1. CASE x = c
        BY <3>1, <4>1, AtRestRow DEF ClerkInv
      <4>2. CASE x # c
        <5>1. clerk'[x] = clerk[x] /\ (clerk[x].pc \in {"insert", "apply"} => clerk[x].req # clerk[c].req)
          BY <3>1, <3>2, <4>2 DEF ClerkInv
        <5>2. clerk[x].pc \in {"insert", "apply"} => change'[clerk[x].req] = change[clerk[x].req]
          BY <2>2, <5>1 DEF ClerkInv
        <5>3. QED
          BY <3>1, <5>1, <5>2, AtRestRow DEF ClerkInv
      <4>3. QED
        BY <4>1, <4>2
    <3>4. QED
      BY <3>3
  <2>17. QED
    BY <2>6, <2>7, <2>8, <2>9, <2>10, <2>11, <2>12, <2>13, <2>14, <2>15, <2>16
<1>8. ASSUME NEW c \in Clerks, UpsertRead(c) PROVE ProfileInv'
  <2>1. (change \in [ChangeRequests -> ChangeRow])'
    BY <1>8 DEF UpsertRead, Takes, changeVars
  <2>2. (detail \in [DetailRows -> DetailRow])'
    BY <1>8 DEF UpsertRead, Takes, changeVars
  <2>3. (record \in [Records -> RecordRow])'
    BY <1>8 DEF UpsertRead, Takes, recordVars
  <2>4. (evidence \in [Records -> SUBSET Documents])'
    BY <1>8 DEF UpsertRead, Takes, recordVars
  <2>5. (document \in [Documents -> DocumentStatus])'
    BY <1>8 DEF UpsertRead, Takes
  <2>6. (clerk \in [Clerks -> ClerkRow])'
    <3>1. [AtRest EXCEPT !.pc = "write", !.rows = DetailsFound] \in ClerkRow
      BY AtRestRow DEF ClerkRow, DetailsFound, People
    <3>2. QED
      BY <1>8, <3>1, ClerkStored DEF UpsertRead, Takes
  <2>7. CountsTyped'
    BY <1>8 DEF UpsertRead, Takes, CountsTyped, changeVars, recordVars
  <2>8. (\A x \in DetailRows : DetailInv(x))'
    BY <1>8 DEF UpsertRead, Takes, DetailInv, changeVars
  <2>9. (\A x \in Records : RecordInv(x))'
    BY <1>8 DEF UpsertRead, Takes, RecordInv, recordVars
  <2>10. (\A x \in ChangeRequests : ChangeInv(x))'
    BY <1>8 DEF UpsertRead, Takes, ChangeInv, changeVars
  <2>11. (\A x \in Clerks : ClerkInv(x))'
    BY <1>8, AtRestRow DEF UpsertRead, Takes, ClerkInv, changeVars
  <2>12. QED
    BY <2>1, <2>2, <2>3, <2>4, <2>5, <2>6, <2>7, <2>8, <2>9, <2>10, <2>11
<1>9. ASSUME NEW c \in Clerks, UpsertWrite(c) PROVE ProfileInv'
  <2>1. values' = values + 1 /\ values' \in 0..MaxValues
    BY <1>9, ProfileAssumption DEF UpsertWrite, NewValue, CountsTyped
  <2>2. /\ detail' \in [DetailRows -> DetailRow]
        /\ \A i \in DetailRows :
              \/ detail'[i].verified = FALSE
              \/ detail'[i].value = detail[i].value /\ detail'[i].verified = detail[i].verified
    <3>1. clerk[c].rows \in SUBSET DetailRows
      BY DEF ClerkRow
    <3>2. WriteDetail(clerk[c].rows, values + 1, FALSE)
      BY <1>9 DEF UpsertWrite
    <3>3. QED
      BY <2>1, <3>1, <3>2, DetailWritten
  <2>3. (change \in [ChangeRequests -> ChangeRow])'
    BY <1>9, <2>1, <2>2 DEF UpsertWrite, On, Rests, NewValue, changeVars
  <2>4. (detail \in [DetailRows -> DetailRow])'
    BY <2>2
  <2>5. (record \in [Records -> RecordRow])'
    BY <1>9, <2>1, <2>2 DEF UpsertWrite, On, Rests, NewValue, recordVars
  <2>6. (evidence \in [Records -> SUBSET Documents])'
    BY <1>9, <2>1, <2>2 DEF UpsertWrite, On, Rests, NewValue, recordVars
  <2>7. (document \in [Documents -> DocumentStatus])'
    BY <1>9, <2>1, <2>2 DEF UpsertWrite, On, Rests, NewValue
  <2>8. (clerk \in [Clerks -> ClerkRow])'
    BY <1>9, AtRestRow, ClerkStored DEF UpsertWrite, Rests
  <2>9. CountsTyped'
    BY <1>9, <2>1 DEF UpsertWrite, CountsTyped, recordVars
  <2>10. (\A x \in DetailRows : DetailInv(x))'
    BY <1>9, <2>2 DEF UpsertWrite, DetailInv
  <2>11. (\A x \in Records : RecordInv(x))'
    BY <1>9, <2>1, <2>2 DEF UpsertWrite, On, Rests, NewValue, RecordInv, recordVars
  <2>12. (\A x \in ChangeRequests : ChangeInv(x))'
    BY <1>9, <2>1, <2>2 DEF UpsertWrite, On, Rests, NewValue, ChangeInv, changeVars
  <2>13. (\A x \in Clerks : ClerkInv(x))'
    BY <1>9, <2>1, <2>2, AtRestRow DEF UpsertWrite, On, Rests, NewValue, ClerkInv, changeVars
  <2>14. QED
    BY <2>3, <2>4, <2>5, <2>6, <2>7, <2>8, <2>9, <2>10, <2>11, <2>12, <2>13
<1>10. ASSUME NEW c \in Clerks, NEW k \in Records, NEW d \in Documents,
              LinkCheck(c, k, d)
       PROVE  ProfileInv'
  <2>1. (change \in [ChangeRequests -> ChangeRow])'
    BY <1>10 DEF LinkCheck, Takes, changeVars
  <2>2. (detail \in [DetailRows -> DetailRow])'
    BY <1>10 DEF LinkCheck, Takes, changeVars
  <2>3. (record \in [Records -> RecordRow])'
    BY <1>10 DEF LinkCheck, Takes, recordVars
  <2>4. (evidence \in [Records -> SUBSET Documents])'
    BY <1>10 DEF LinkCheck, Takes, recordVars
  <2>5. (document \in [Documents -> DocumentStatus])'
    BY <1>10 DEF LinkCheck, Takes
  <2>6. (clerk \in [Clerks -> ClerkRow])'
    <3>1. [AtRest EXCEPT !.pc = IF d \in evidence[k] THEN "mark" ELSE "link", !.rec = k, !.doc = d] \in ClerkRow
      BY AtRestRow DEF ClerkRow, DetailsFound, People
    <3>2. QED
      BY <1>10, <3>1, ClerkStored DEF LinkCheck, Takes
  <2>7. CountsTyped'
    BY <1>10 DEF LinkCheck, Takes, CountsTyped, changeVars, recordVars
  <2>8. (\A x \in DetailRows : DetailInv(x))'
    BY <1>10 DEF LinkCheck, Takes, DetailInv, changeVars
  <2>9. (\A x \in Records : RecordInv(x))'
    BY <1>10 DEF LinkCheck, Takes, RecordInv, recordVars
  <2>10. (\A x \in ChangeRequests : ChangeInv(x))'
    BY <1>10 DEF LinkCheck, Takes, ChangeInv, changeVars
  <2>11. (\A x \in Clerks : ClerkInv(x))'
    BY <1>10, AtRestRow DEF LinkCheck, Takes, ClerkInv, changeVars
  <2>12. QED
    BY <2>1, <2>2, <2>3, <2>4, <2>5, <2>6, <2>7, <2>8, <2>9, <2>10, <2>11
<1>11. ASSUME NEW c \in Clerks, LinkInsert(c) PROVE ProfileInv'
  <2>1. (change \in [ChangeRequests -> ChangeRow])'
    BY <1>11 DEF LinkInsert, On, changeVars
  <2>2. (detail \in [DetailRows -> DetailRow])'
    BY <1>11 DEF LinkInsert, On, changeVars
  <2>3. (record \in [Records -> RecordRow])'
    BY <1>11 DEF LinkInsert, On, recordVars
  <2>4. (evidence \in [Records -> SUBSET Documents])'
    BY <1>11 DEF LinkInsert, On, ClerkInv
  <2>5. (document \in [Documents -> DocumentStatus])'
    BY <1>11 DEF LinkInsert, On
  <2>6. (clerk \in [Clerks -> ClerkRow])'
    <3>1. [clerk[c] EXCEPT !.pc = "mark"] \in ClerkRow
      BY DEF ClerkRow
    <3>2. clerk' = [clerk EXCEPT ![c] = [clerk[c] EXCEPT !.pc = "mark"]]
      BY <1>11 DEF LinkInsert
    <3>3. QED
      BY <3>1, <3>2, ClerkStored
  <2>7. CountsTyped'
    BY <1>11 DEF LinkInsert, On, CountsTyped, changeVars, recordVars
  <2>8. (\A x \in DetailRows : DetailInv(x))'
    BY <1>11 DEF LinkInsert, On, DetailInv, changeVars
  <2>9. (\A x \in Records : RecordInv(x))'
    BY <1>11 DEF LinkInsert, On, RecordInv, recordVars
  <2>10. (\A x \in ChangeRequests : ChangeInv(x))'
    BY <1>11 DEF LinkInsert, On, ChangeInv, changeVars
  <2>11. (\A x \in Clerks : ClerkInv(x))'
    BY <1>11, AtRestRow DEF LinkInsert, On, ClerkInv, changeVars
  <2>12. QED
    BY <2>1, <2>2, <2>3, <2>4, <2>5, <2>6, <2>7, <2>8, <2>9, <2>10, <2>11
<1>12. ASSUME NEW c \in Clerks, LinkMark(c) PROVE ProfileInv'
  <2>1. (change \in [ChangeRequests -> ChangeRow])'
    BY <1>12 DEF LinkMark, On, Rests, changeVars
  <2>2. (detail \in [DetailRows -> DetailRow])'
    BY <1>12 DEF LinkMark, On, Rests, changeVars
  <2>3. (record \in [Records -> RecordRow])'
    <3>1. CASE clerk[c].rec \in Records
      <4>1. [record[clerk[c].rec] EXCEPT !.status = "PENDING"] \in RecordRow
        BY <3>1 DEF RecordRow
      <4>2. QED
        BY <1>12, <3>1, <4>1 DEF LinkMark
    <3>2. CASE clerk[c].rec \notin Records
      BY <1>12, <3>2 DEF LinkMark
    <3>3. QED
      BY <3>1, <3>2
  <2>4. (evidence \in [Records -> SUBSET Documents])'
    BY <1>12 DEF LinkMark, On, Rests, recordVars
  <2>5. (document \in [Documents -> DocumentStatus])'
    BY <1>12 DEF LinkMark, On, Rests
  <2>6. (clerk \in [Clerks -> ClerkRow])'
    BY <1>12, AtRestRow, ClerkStored DEF LinkMark, Rests
  <2>7. CountsTyped'
    BY <1>12 DEF LinkMark, On, Rests, CountsTyped, changeVars, recordVars
  <2>8. (\A x \in DetailRows : DetailInv(x))'
    BY <1>12 DEF LinkMark, On, Rests, DetailInv, changeVars
  <2>9. (\A x \in Records : RecordInv(x))'
    BY <1>12 DEF LinkMark, On, Rests, RecordInv, recordVars
  <2>10. (\A x \in ChangeRequests : ChangeInv(x))'
    BY <1>12 DEF LinkMark, On, Rests, ChangeInv, changeVars
  <2>11. (\A x \in Clerks : ClerkInv(x))'
    BY <1>12, AtRestRow DEF LinkMark, On, Rests, ClerkInv, changeVars
  <2>12. QED
    BY <2>1, <2>2, <2>3, <2>4, <2>5, <2>6, <2>7, <2>8, <2>9, <2>10, <2>11
<1>13. ASSUME NEW c \in Clerks, GivesUp(c) PROVE ProfileInv'
  <2>1. (change \in [ChangeRequests -> ChangeRow])'
    BY <1>13 DEF GivesUp, Rests, changeVars
  <2>2. (detail \in [DetailRows -> DetailRow])'
    BY <1>13 DEF GivesUp, Rests, changeVars
  <2>3. (record \in [Records -> RecordRow])'
    BY <1>13 DEF GivesUp, Rests, recordVars
  <2>4. (evidence \in [Records -> SUBSET Documents])'
    BY <1>13 DEF GivesUp, Rests, recordVars
  <2>5. (document \in [Documents -> DocumentStatus])'
    BY <1>13 DEF GivesUp, Rests
  <2>6. (clerk \in [Clerks -> ClerkRow])'
    BY <1>13, AtRestRow, ClerkStored DEF GivesUp, Rests
  <2>7. CountsTyped'
    BY <1>13 DEF GivesUp, Rests, CountsTyped, changeVars, recordVars
  <2>8. (\A x \in DetailRows : DetailInv(x))'
    BY <1>13 DEF GivesUp, Rests, DetailInv, changeVars
  <2>9. (\A x \in Records : RecordInv(x))'
    BY <1>13 DEF GivesUp, Rests, RecordInv, recordVars
  <2>10. (\A x \in ChangeRequests : ChangeInv(x))'
    BY <1>13 DEF GivesUp, Rests, ChangeInv, changeVars
  <2>11. (\A x \in Clerks : ClerkInv(x))'
    BY <1>13, AtRestRow DEF GivesUp, Rests, ClerkInv, changeVars
  <2>12. QED
    BY <2>1, <2>2, <2>3, <2>4, <2>5, <2>6, <2>7, <2>8, <2>9, <2>10, <2>11
<1>14. ASSUME NEW r \in ChangeRequests, NEW p \in People, Cancel(r, p) PROVE ProfileInv'
  <2>1. PICK row \in ChangeRow : /\ change' = [change EXCEPT ![r] = row] /\ row.status = "CANCELLED"
                               /\ row.sealed = FALSE /\ row.value = change[r].value
    <3> DEFINE row == [change[r] EXCEPT !.status = "CANCELLED", !.sealed = FALSE]
    <3>1. row \in ChangeRow /\ row.status = "CANCELLED" /\ row.sealed = FALSE /\ row.value = change[r].value
      BY ZenonT(60) DEF ChangeRow, Final
    <3>2. change' = [change EXCEPT ![r] = row]
      BY <1>14 DEF Cancel, Close
    <3>3. QED
      BY <3>1, <3>2
  <2>2. decided' = [decided EXCEPT ![r] = 1]
    <3>1. decided' = [decided EXCEPT ![r] = decided[r] + 1]
      BY <1>14 DEF Cancel, Close
    <3>2. decided[r] = 0
      BY <1>14 DEF Cancel, ChangeInv, MayResolve, Final
    <3>3. QED
      BY <3>1, <3>2
  <2>3. change[r].status = "PENDING" /\ \A x \in Clerks : ~ (clerk[x].pc = "apply" /\ clerk[x].req = r)
    BY <1>14 DEF Cancel, MayResolve, Locked, On
  <2>4. (change \in [ChangeRequests -> ChangeRow])'
    BY <2>1
  <2>5. (detail \in [DetailRows -> DetailRow])'
    BY <1>14, <2>1, <2>2, <2>3 DEF Cancel, changeVars
  <2>6. (record \in [Records -> RecordRow])'
    BY <1>14, <2>1, <2>2, <2>3 DEF Cancel, recordVars
  <2>7. (evidence \in [Records -> SUBSET Documents])'
    BY <1>14, <2>1, <2>2, <2>3 DEF Cancel, recordVars
  <2>8. (document \in [Documents -> DocumentStatus])'
    BY <1>14, <2>1, <2>2, <2>3 DEF Cancel
  <2>9. (clerk \in [Clerks -> ClerkRow])'
    BY <1>14, <2>1, <2>2, <2>3, AtRestRow DEF Cancel
  <2>10. CountsTyped'
    BY <1>14, <2>2 DEF Cancel, CountsTyped, recordVars
  <2>11. (\A x \in DetailRows : DetailInv(x))'
    BY <1>14, <2>1, <2>2, <2>3 DEF Cancel, DetailInv, changeVars
  <2>12. (\A x \in Records : RecordInv(x))'
    BY <1>14, <2>1, <2>2, <2>3 DEF Cancel, RecordInv, recordVars
  <2>13. (\A x \in ChangeRequests : ChangeInv(x))'
    BY <1>14, <2>1, <2>2, <2>3 DEF ChangeInv, CountsTyped, Final
  <2>14. (\A x \in Clerks : ClerkInv(x))'
    <3>1. clerk' = clerk
      BY <1>14 DEF Cancel
    <3>2. QED
      BY <2>1, <2>3, <3>1 DEF ClerkInv
  <2>15. QED
    BY <2>4, <2>5, <2>6, <2>7, <2>8, <2>9, <2>10, <2>11, <2>12, <2>13, <2>14
<1>15. ASSUME NEW r \in ChangeRequests, NEW p \in People, RejectChange(r, p) PROVE ProfileInv'
  <2>1. PICK row \in ChangeRow : /\ change' = [change EXCEPT ![r] = row] /\ row.status = "REJECTED"
                               /\ row.sealed = FALSE /\ row.value = change[r].value
    <3> DEFINE row == [change[r] EXCEPT !.status = "REJECTED", !.sealed = FALSE]
    <3>1. row \in ChangeRow /\ row.status = "REJECTED" /\ row.sealed = FALSE /\ row.value = change[r].value
      BY ZenonT(60) DEF ChangeRow, Final
    <3>2. change' = [change EXCEPT ![r] = row]
      BY <1>15 DEF RejectChange, Close
    <3>3. QED
      BY <3>1, <3>2
  <2>2. decided' = [decided EXCEPT ![r] = 1]
    <3>1. decided' = [decided EXCEPT ![r] = decided[r] + 1]
      BY <1>15 DEF RejectChange, Close
    <3>2. decided[r] = 0
      BY <1>15 DEF RejectChange, ChangeInv, MayResolve, Final
    <3>3. QED
      BY <3>1, <3>2
  <2>3. change[r].status = "PENDING" /\ \A x \in Clerks : ~ (clerk[x].pc = "apply" /\ clerk[x].req = r)
    BY <1>15 DEF RejectChange, MayResolve, Locked, On
  <2>4. (change \in [ChangeRequests -> ChangeRow])'
    BY <2>1
  <2>5. (detail \in [DetailRows -> DetailRow])'
    BY <1>15, <2>1, <2>2, <2>3 DEF RejectChange, changeVars
  <2>6. (record \in [Records -> RecordRow])'
    BY <1>15, <2>1, <2>2, <2>3 DEF RejectChange, recordVars
  <2>7. (evidence \in [Records -> SUBSET Documents])'
    BY <1>15, <2>1, <2>2, <2>3 DEF RejectChange, recordVars
  <2>8. (document \in [Documents -> DocumentStatus])'
    BY <1>15, DocumentsStamped DEF RejectChange
  <2>9. (clerk \in [Clerks -> ClerkRow])'
    BY <1>15, <2>1, <2>2, <2>3, AtRestRow DEF RejectChange
  <2>10. CountsTyped'
    BY <1>15, <2>2 DEF RejectChange, CountsTyped, recordVars
  <2>11. (\A x \in DetailRows : DetailInv(x))'
    BY <1>15, <2>1, <2>2, <2>3 DEF RejectChange, DetailInv, changeVars
  <2>12. (\A x \in Records : RecordInv(x))'
    BY <1>15, <2>1, <2>2, <2>3 DEF RejectChange, RecordInv, recordVars
  <2>13. (\A x \in ChangeRequests : ChangeInv(x))'
    BY <1>15, <2>1, <2>2, <2>3 DEF ChangeInv, CountsTyped, Final
  <2>14. (\A x \in Clerks : ClerkInv(x))'
    <3>1. clerk' = clerk
      BY <1>15 DEF RejectChange
    <3>2. QED
      BY <2>1, <2>3, <3>1 DEF ClerkInv
  <2>15. QED
    BY <2>4, <2>5, <2>6, <2>7, <2>8, <2>9, <2>10, <2>11, <2>12, <2>13, <2>14
<1>16. ASSUME NEW k \in Records, SaveRecord(k) PROVE ProfileInv'
  <2>1. values' = values + 1 /\ values' \in 0..MaxValues
    BY <1>16, ProfileAssumption DEF SaveRecord, NewValue, CountsTyped
  <2>2. [content |-> values + 1, deleted |-> FALSE, status |-> "UNVERIFIED"] \in RecordRow
    BY <2>1 DEF RecordRow
  <2>3. (change \in [ChangeRequests -> ChangeRow])'
    BY <1>16, <2>1, <2>2 DEF SaveRecord, NewValue, changeVars
  <2>4. (detail \in [DetailRows -> DetailRow])'
    BY <1>16, <2>1, <2>2 DEF SaveRecord, NewValue, changeVars
  <2>5. (record \in [Records -> RecordRow])'
    BY <1>16, <2>2 DEF SaveRecord
  <2>6. (evidence \in [Records -> SUBSET Documents])'
    BY <1>16, <2>1, <2>2 DEF SaveRecord, NewValue, recordVars
  <2>7. (document \in [Documents -> DocumentStatus])'
    BY <1>16, <2>1, <2>2 DEF SaveRecord, NewValue
  <2>8. (clerk \in [Clerks -> ClerkRow])'
    BY <1>16, <2>1, <2>2, AtRestRow DEF SaveRecord, NewValue
  <2>9. CountsTyped'
    BY <1>16, <2>1 DEF SaveRecord, CountsTyped, changeVars
  <2>10. (\A x \in DetailRows : DetailInv(x))'
    BY <1>16, <2>1, <2>2 DEF SaveRecord, NewValue, DetailInv, changeVars
  <2>11. (\A x \in Records : RecordInv(x))'
    BY <1>16, <2>1, <2>2 DEF SaveRecord, NewValue, RecordInv, recordVars
  <2>12. (\A x \in ChangeRequests : ChangeInv(x))'
    BY <1>16, <2>1, <2>2 DEF SaveRecord, NewValue, ChangeInv, changeVars
  <2>13. (\A x \in Clerks : ClerkInv(x))'
    BY <1>16, <2>1, <2>2, AtRestRow DEF SaveRecord, NewValue, ClerkInv, changeVars
  <2>14. QED
    BY <2>3, <2>4, <2>5, <2>6, <2>7, <2>8, <2>9, <2>10, <2>11, <2>12, <2>13
<1>17. ASSUME NEW k \in Records, DeleteRecord(k) PROVE ProfileInv'
  <2>1. (change \in [ChangeRequests -> ChangeRow])'
    BY <1>17 DEF DeleteRecord, changeVars
  <2>2. (detail \in [DetailRows -> DetailRow])'
    BY <1>17 DEF DeleteRecord, changeVars
  <2>3. (record \in [Records -> RecordRow])'
    <3>1. [record[k] EXCEPT !.deleted = TRUE] \in RecordRow
      BY DEF RecordRow
    <3>2. QED
      BY <1>17, <3>1 DEF DeleteRecord
  <2>4. (evidence \in [Records -> SUBSET Documents])'
    BY <1>17 DEF DeleteRecord, recordVars
  <2>5. (document \in [Documents -> DocumentStatus])'
    BY <1>17 DEF DeleteRecord
  <2>6. (clerk \in [Clerks -> ClerkRow])'
    BY <1>17, AtRestRow DEF DeleteRecord
  <2>7. CountsTyped'
    BY <1>17 DEF DeleteRecord, CountsTyped, changeVars, recordVars
  <2>8. (\A x \in DetailRows : DetailInv(x))'
    BY <1>17 DEF DeleteRecord, DetailInv, changeVars
  <2>9. (\A x \in Records : RecordInv(x))'
    BY <1>17 DEF DeleteRecord, RecordInv, recordVars
  <2>10. (\A x \in ChangeRequests : ChangeInv(x))'
    BY <1>17 DEF DeleteRecord, ChangeInv, changeVars
  <2>11. (\A x \in Clerks : ClerkInv(x))'
    BY <1>17, AtRestRow DEF DeleteRecord, ClerkInv, changeVars
  <2>12. QED
    BY <2>1, <2>2, <2>3, <2>4, <2>5, <2>6, <2>7, <2>8, <2>9, <2>10, <2>11
<1>18. ASSUME NEW k \in Records, NEW d \in Documents, UploadUndone(d, k) PROVE ProfileInv'
  <2>1. (change \in [ChangeRequests -> ChangeRow])'
    BY <1>18 DEF UploadUndone, changeVars
  <2>2. (detail \in [DetailRows -> DetailRow])'
    BY <1>18 DEF UploadUndone, changeVars
  <2>3. (record \in [Records -> RecordRow])'
    BY <1>18 DEF UploadUndone, recordVars
  <2>4. (evidence \in [Records -> SUBSET Documents])'
    BY <1>18 DEF UploadUndone, recordVars
  <2>5. (document \in [Documents -> DocumentStatus])'
    BY <1>18 DEF UploadUndone, DocumentStatus
  <2>6. (clerk \in [Clerks -> ClerkRow])'
    BY <1>18, AtRestRow DEF UploadUndone
  <2>7. CountsTyped'
    BY <1>18 DEF UploadUndone, CountsTyped, changeVars, recordVars
  <2>8. (\A x \in DetailRows : DetailInv(x))'
    BY <1>18 DEF UploadUndone, DetailInv, changeVars
  <2>9. (\A x \in Records : RecordInv(x))'
    BY <1>18 DEF UploadUndone, RecordInv, recordVars
  <2>10. (\A x \in ChangeRequests : ChangeInv(x))'
    BY <1>18 DEF UploadUndone, ChangeInv, changeVars
  <2>11. (\A x \in Clerks : ClerkInv(x))'
    BY <1>18, AtRestRow DEF UploadUndone, ClerkInv, changeVars
  <2>12. QED
    BY <2>1, <2>2, <2>3, <2>4, <2>5, <2>6, <2>7, <2>8, <2>9, <2>10, <2>11
<1>19. ASSUME NEW k \in Records, NEW p \in People, NEW ok \in BOOLEAN,
              ReviewRecord(k, p, ok)
       PROVE  ProfileInv'
  <2>1. PICK status \in {"VERIFIED", "REJECTED"} :
          /\ record' = [record EXCEPT ![k] = [record[k] EXCEPT !.status = status]]
          /\ status = "VERIFIED" => reviewed' = [reviewed EXCEPT ![k] = record[k].content]
          /\ status = "REJECTED" => reviewed' = reviewed
    <3>1. CASE ok
      BY <1>19, <3>1 DEF ReviewRecord
    <3>2. CASE ~ ok
      BY <1>19, <3>2 DEF ReviewRecord
    <3>3. QED
      BY <3>1, <3>2
  <2>2. /\ [record[k] EXCEPT !.status = status] \in RecordRow /\ record[k].content \in 0..MaxValues
        /\ [record[k] EXCEPT !.status = status].status = status
        /\ [record[k] EXCEPT !.status = status].content = record[k].content
    BY DEF RecordRow
  <2>3. (change \in [ChangeRequests -> ChangeRow])'
    BY <1>19, <2>1, <2>2 DEF ReviewRecord, changeVars
  <2>4. (detail \in [DetailRows -> DetailRow])'
    BY <1>19, <2>1, <2>2 DEF ReviewRecord, changeVars
  <2>5. (record \in [Records -> RecordRow])'
    BY <2>1, <2>2
  <2>6. (evidence \in [Records -> SUBSET Documents])'
    BY <1>19, <2>1, <2>2 DEF ReviewRecord, recordVars
  <2>7. (document \in [Documents -> DocumentStatus])'
    BY <1>19, DocumentsStamped DEF ReviewRecord
  <2>8. (clerk \in [Clerks -> ClerkRow])'
    BY <1>19, <2>1, <2>2, AtRestRow DEF ReviewRecord
  <2>9. CountsTyped'
    BY <1>19, <2>1, <2>2 DEF ReviewRecord, CountsTyped, changeVars
  <2>10. (\A x \in DetailRows : DetailInv(x))'
    BY <1>19, <2>1, <2>2 DEF ReviewRecord, DetailInv, changeVars
  <2>11. (\A x \in Records : RecordInv(x))'
    BY <2>1, <2>2 DEF RecordInv, CountsTyped
  <2>12. (\A x \in ChangeRequests : ChangeInv(x))'
    BY <1>19, <2>1, <2>2 DEF ReviewRecord, ChangeInv, changeVars
  <2>13. (\A x \in Clerks : ClerkInv(x))'
    BY <1>19, <2>1, <2>2, AtRestRow DEF ReviewRecord, ClerkInv, changeVars
  <2>14. QED
    BY <2>3, <2>4, <2>5, <2>6, <2>7, <2>8, <2>9, <2>10, <2>11, <2>12, <2>13
<1>20. CASE UNCHANGED profVars
  BY <1>20 DEF profVars, ChangeInv, ClerkInv, CountsTyped, DetailInv, RecordInv, changeVars,
     recordVars
<1>21. QED
  BY <1>1, <1>2, <1>3, <1>4, <1>5, <1>6, <1>7, <1>8, <1>9, <1>10, <1>11, <1>12, <1>13, <1>14, <1>15,
     <1>16, <1>17, <1>18, <1>19, <1>20 DEF ProfNext

LEMMA ProfileInvInit == ProfInit => ProfileInv
<1> SUFFICES ASSUME ProfInit PROVE ProfileInv
  OBVIOUS
<1> USE DEF ProfInit
<1>1. change \in [ChangeRequests -> ChangeRow] /\ \A r \in ChangeRequests : ChangeInv(r)
  <2>1. NoChange \in ChangeRow /\ NoChange.status = "NONE" /\ NoChange.sealed = FALSE
    BY ProfileAssumption DEF NoChange, ChangeRow
  <2>2. QED
    BY <2>1 DEF ChangeInv, Final
<1>2. detail \in [DetailRows -> DetailRow] /\ \A i \in DetailRows : DetailInv(i)
  <2>1. NoDetail \in DetailRow /\ NoDetail.verified = FALSE
    BY ProfileAssumption DEF NoDetail, DetailRow
  <2>2. QED
    BY <2>1 DEF DetailInv
<1>3. record \in [Records -> RecordRow] /\ \A k \in Records : RecordInv(k)
  BY ProfileAssumption DEF RecordRow, RecordInv
<1>4. clerk \in [Clerks -> ClerkRow] /\ \A c \in Clerks : ClerkInv(c)
  BY AtRestRow DEF ClerkInv
<1>5. CountsTyped /\ evidence \in [Records -> SUBSET Documents]
      /\ document \in [Documents -> DocumentStatus]
  BY ProfileAssumption DEF CountsTyped, DocumentStatus
<1>6. QED
  BY <1>1, <1>2, <1>3, <1>4, <1>5 DEF ProfileInv

\* Whatever HR, the employee and the reviewers do at once: a row of a detail that shows
\* as verified carries an approved value, a verified record the content that was reviewed,
\* and a change request is decided once (profile_change_service.rs,
\* profile_extras_service.rs, profile_record_service.rs).
THEOREM ProfilesAreReviewed == ProfSpec => []ReviewsHold
<1>1. ProfInit => ProfileInv
  BY ProfileInvInit
<1>2. ProfileInv /\ [ProfNext]_profVars => ProfileInv'
  BY StepKeepsProfileInv
<1>3. ProfileInv => ReviewsHold
  BY DEF ProfileInv, ReviewsHold, ProfTypeOK, VerifiedWasReviewed, DecidedOnce, ChangeRow, DetailRow,
     RecordRow, ClerkRow, DocumentStatus, CountsTyped, DetailInv, RecordInv, ChangeInv
<1>4. QED
  BY <1>1, <1>2, <1>3, PTL DEF ProfSpec



-----------------------------------------------------------------------------
(* Performance cycles *)

ProgramRow == [status : {"DRAFT", "ACTIVE", "ARCHIVED"}, required : GoalWeights \cup {FullWeight},
               calibrates : BOOLEAN, acknowledges : BOOLEAN]
StageRow == [stage : ReviewStages \cup {"NONE"}, status : {"NONE", "ACTIVE", "COMPLETED"}]
ParticipantRow == [in : BOOLEAN, excluded : BOOLEAN, revision : 1..MaxRevisions, self : BOOLEAN,
                   manager : BOOLEAN, acknowledged : BOOLEAN, rating : {"none", "manager", "hr"}]
GoalRow == [status : {"NONE", "PROPOSED", "APPROVED"}, weight : GoalWeights \cup {0}]
SnapshotRow == [self : BOOLEAN, manager : BOOLEAN, acknowledged : BOOLEAN,
                rating : {"none", "manager", "hr"}, exists : BOOLEAN, calibrated : BOOLEAN]

GoalRows == [GoalIds -> GoalRow]
SnapshotRows == [1..MaxRevisions -> SnapshotRow]

PerfTypes ==
  /\ program \in ProgramRow /\ activating \in BOOLEAN
  /\ reviewCycle \in [CycleIds -> StageRow]
  /\ review \in [CycleIds -> [Reviewees -> ParticipantRow]]
  /\ goals \in [CycleIds -> [Reviewees -> GoalRows]]
  /\ snapshot \in [CycleIds -> [Reviewees -> SnapshotRows]]
  /\ businessDay \in 0..LastDeadline /\ early = FALSE
  /\ listed \in [on : 0..LastDeadline, cycles : SUBSET CycleIds] /\ listed.on <= businessDay

\* The data of a participant, excluded or not, and the snapshot of its revision agree; HR's
\* decision is about a revision that the manager has assessed.
DataInv(c, e) ==
  LET p == review[c][e]
      row == snapshot[c][e][review[c][e].revision] IN
  /\ p.manager => p.self
  /\ p.manager /\ ~program.calibrates => p.rating = "manager"
  /\ row.exists => row = TakenSnapshot(row, p)
  /\ row.calibrated => p.rating = "hr" /\ p.manager

\* Nothing is submitted before goal setting is over, and nothing is there before the launch.
FreshInv(c, e) ==
  /\ reviewCycle[c].stage \in {"NONE", "GOAL_SETTING"} => ~review[c][e].self /\ ~review[c][e].manager
  /\ reviewCycle[c].stage = "NONE" =>
       ~review[c][e].in /\ \A r \in 1..MaxRevisions : snapshot[c][e][r] = NoSnapshot

\* What the stages that the cycle has passed asked for is done.
PassedInv(c, e) ==
  LET p == review[c][e]
      stage == reviewCycle[c].stage IN
  Included(c, e) =>
    /\ stage \notin {"NONE", "GOAL_SETTING"} => Done(c, e, "GOAL_SETTING")
    /\ stage \in {"HR_CALIBRATION", "EMPLOYEE_ACKNOWLEDGEMENT", "CLOSED"} => p.manager
    /\ stage \in {"EMPLOYEE_ACKNOWLEDGEMENT", "CLOSED"} =>
         p.rating = (IF program.calibrates THEN "hr" ELSE "manager")
    /\ stage = "CLOSED" /\ program.acknowledges => p.acknowledged

\* The program is no longer edited when its cycle exists, and there is one.
CycleInv(c) ==
  /\ Launched(c) =>
       /\ program.status # "DRAFT"
       /\ \A d \in CycleIds : Launched(d) => d = c
       /\ reviewCycle[c].stage = "CLOSED" <=> reviewCycle[c].status = "COMPLETED"
       /\ reviewCycle[c].stage = "GOAL_SETTING" \/ \E e \in Reviewees : review[c][e].in
  /\ reviewCycle[c].stage = "HR_CALIBRATION" => program.calibrates

PerfInv ==
  /\ PerfTypes
  /\ \A c \in CycleIds : CycleInv(c)
  /\ \A c \in CycleIds, e \in Reviewees : DataInv(c, e) /\ FreshInv(c, e) /\ PassedInv(c, e)

SameSettings ==
  /\ program'.calibrates = program.calibrates /\ program'.acknowledges = program.acknowledges
  /\ program'.required = program.required

\* What is read of a participant, their goals and their cycle decides what they have done.
LEMMA SameGoals ==
  ASSUME NEW c \in CycleIds, NEW e \in Reviewees, goals'[c][e] = goals[c][e], SameSettings
  PROVE  Done(c, e, "GOAL_SETTING")' = Done(c, e, "GOAL_SETTING")
<1>1. GoalsOf(c, e)' = GoalsOf(c, e) BY DEF GoalsOf
<1>2. [g \in GoalIds |-> goals'[c][e][g].weight] = [g \in GoalIds |-> goals[c][e][g].weight]
  OBVIOUS
<1>3. WeightOf(c, e)' = WeightOf(c, e) BY <1>1, <1>2 DEF WeightOf
<1> QED BY <1>1, <1>3 DEF Done, SameSettings

LEMMA SameParticipant ==
  ASSUME NEW c \in CycleIds, NEW e \in Reviewees,
         DataInv(c, e), FreshInv(c, e), PassedInv(c, e), SameSettings,
         reviewCycle'[c] = reviewCycle[c], review'[c][e] = review[c][e],
         snapshot'[c][e] = snapshot[c][e], goals'[c][e] = goals[c][e]
  PROVE  DataInv(c, e)' /\ FreshInv(c, e)' /\ PassedInv(c, e)'
<1>1. DataInv(c, e)' BY DEF DataInv, SameSettings, TakenSnapshot
<1>2. FreshInv(c, e)' BY DEF FreshInv
<1>3. PassedInv(c, e)' BY SameGoals DEF PassedInv, Included, SameSettings
<1> QED BY <1>1, <1>2, <1>3

\* Steps that touch the program, the day or the sweep's list.
LEMMA ProgramStepKeeps ==
  ASSUME PerfInv, PerfTypes', UNCHANGED <<reviewCycle, review, goals, snapshot>>,
         \/ program.status = "DRAFT" /\ program'.status = "DRAFT"
         \/ SameSettings /\ (program.status # "DRAFT" => program'.status # "DRAFT")
  PROVE  PerfInv'
<1>1. ASSUME NEW c \in CycleIds, Launched(c)
      PROVE  SameSettings /\ program'.status # "DRAFT"
  BY <1>1 DEF PerfInv, CycleInv
<1>2. ASSUME NEW c \in CycleIds PROVE CycleInv(c)'
  <2>1. CycleInv(c) BY DEF PerfInv
  <2>2. reviewCycle' = reviewCycle /\ review' = review OBVIOUS
  <2>3. Launched(c) => SameSettings /\ program'.status # "DRAFT" BY <1>1
  <2> QED BY <2>1, <2>2, <2>3 DEF CycleInv, Launched, SameSettings
<1>3. ASSUME NEW c \in CycleIds, NEW e \in Reviewees
      PROVE  DataInv(c, e)' /\ FreshInv(c, e)' /\ PassedInv(c, e)'
  <2>1. DataInv(c, e) /\ FreshInv(c, e) /\ PassedInv(c, e) BY DEF PerfInv
  <2>2. CASE Launched(c)
    <3>1. SameSettings BY <1>1, <2>2
    <3> QED BY <2>1, <3>1, SameParticipant
  <2>3. CASE ~Launched(c)
    <3>1. reviewCycle[c].stage = "NONE" BY <2>3 DEF Launched
    <3>2. ~review[c][e].in /\ ~review[c][e].self /\ ~review[c][e].manager BY <2>1, <3>1 DEF FreshInv
    <3>3. review[c][e].revision \in 1..MaxRevisions BY DEF PerfInv, PerfTypes, ParticipantRow
    <3>4. ~snapshot[c][e][review[c][e].revision].exists /\ ~snapshot[c][e][review[c][e].revision].calibrated
      BY <2>1, <3>1, <3>3 DEF FreshInv, NoSnapshot
    <3> QED BY <2>1, <3>2, <3>4 DEF DataInv, FreshInv, PassedInv, Included
  <2> QED BY <2>2, <2>3
<1> QED BY <1>2, <1>3 DEF PerfInv


LEMMA LaunchKeeps ==
  ASSUME PerfInv, NEW c \in CycleIds, NEW people \in SUBSET Reviewees, LaunchCycle(c, people)
  PROVE  PerfInv'
<1> DEFINE row == [stage |-> "GOAL_SETTING", status |-> "ACTIVE"]
           all == [e \in Reviewees |-> [NoReview EXCEPT !.in = e \in people]]
<1>1. /\ program.status = "ACTIVE" /\ \A d \in CycleIds : reviewCycle[d].stage = "NONE"
      /\ reviewCycle' = [reviewCycle EXCEPT ![c] = row] /\ review' = [review EXCEPT ![c] = all]
      /\ UNCHANGED <<program, activating, goals, snapshot, businessDay, listed, early>>
  BY DEF LaunchCycle, PeriodIsFree, Launched
<1>2. PerfTypes BY DEF PerfInv
<1>3. row \in StageRow BY DEF StageRow, ReviewStages
<1>4. all \in [Reviewees -> ParticipantRow]
  <2>1. 1 \in 1..MaxRevisions BY PerformanceAssumption
  <2>2. \A b \in BOOLEAN : [NoReview EXCEPT !.in = b] \in ParticipantRow
    BY <2>1 DEF NoReview, ParticipantRow
  <2>3. \A e \in Reviewees : (e \in people) \in BOOLEAN OBVIOUS
  <2> QED BY <2>2, <2>3
<1>5. \A e \in Reviewees : all[e].revision = 1 /\ ~all[e].self /\ ~all[e].manager /\ ~all[e].excluded
  BY DEF NoReview
<1>6. row.stage = "GOAL_SETTING" /\ row.status = "ACTIVE" OBVIOUS
<1> HIDE DEF row, all
<1>7. /\ reviewCycle' \in [CycleIds -> StageRow] /\ reviewCycle'[c] = row
      /\ \A d \in CycleIds \ {c} : reviewCycle'[d] = reviewCycle[d]
      /\ review' \in [CycleIds -> [Reviewees -> ParticipantRow]] /\ review'[c] = all
      /\ \A d \in CycleIds \ {c} : review'[d] = review[d]
  BY <1>1, <1>2, <1>3, <1>4 DEF PerfTypes
<1>8. PerfTypes' BY <1>1, <1>2, <1>7 DEF PerfTypes
<1>9. ASSUME NEW d \in CycleIds PROVE CycleInv(d)'
  <2>1. \A k \in CycleIds : reviewCycle'[k].stage # "NONE" => k = c BY <1>1, <1>7
  <2>2. CASE d = c BY <1>1, <1>6, <1>7, <2>1, <2>2 DEF CycleInv, Launched
  <2>3. CASE d # c BY <1>1, <1>7, <2>3 DEF CycleInv, Launched
  <2> QED BY <2>2, <2>3
<1>10. ASSUME NEW d \in CycleIds, NEW e \in Reviewees
       PROVE  DataInv(d, e)' /\ FreshInv(d, e)' /\ PassedInv(d, e)'
  <2>1. DataInv(d, e) /\ FreshInv(d, e) /\ PassedInv(d, e) BY DEF PerfInv
  <2>2. CASE d = c
    <3>1. snapshot'[c][e][1] = NoSnapshot BY <1>1, <2>1, <2>2, PerformanceAssumption DEF FreshInv
    <3>2. DataInv(d, e)' BY <1>5, <1>7, <2>2, <3>1 DEF DataInv, NoSnapshot
    <3>3. FreshInv(d, e)' BY <1>5, <1>6, <1>7, <2>2 DEF FreshInv
    <3>4. PassedInv(d, e)' BY <1>5, <1>6, <1>7, <2>2 DEF PassedInv
    <3> QED BY <3>2, <3>3, <3>4
  <2>3. CASE d # c
    <3>1. SameSettings BY <1>1 DEF SameSettings
    <3>2. /\ reviewCycle'[d] = reviewCycle[d] /\ review'[d][e] = review[d][e]
          /\ snapshot'[d][e] = snapshot[d][e] /\ goals'[d][e] = goals[d][e]
      BY <1>1, <1>7, <2>3
    <3> QED BY <2>1, <3>1, <3>2, SameParticipant
  <2> QED BY <2>2, <2>3
<1> QED BY <1>8, <1>9, <1>10 DEF PerfInv

\* Goals change in goal setting only, where nobody has to have shown anything.
LEMMA GoalStepKeeps ==
  ASSUME PerfInv, NEW c \in CycleIds, NEW e \in Reviewees, NEW rows \in GoalRows,
         reviewCycle[c].stage = "GOAL_SETTING", goals' = [goals EXCEPT ![c][e] = rows],
         UNCHANGED <<program, activating, reviewCycle, review, snapshot, businessDay, listed, early>>
  PROVE  PerfInv'
<1>1. PerfTypes BY DEF PerfInv
<1>2. goals' \in [CycleIds -> [Reviewees -> GoalRows]] BY <1>1 DEF PerfTypes
<1>3. PerfTypes' BY <1>1, <1>2 DEF PerfTypes
<1>4. ASSUME NEW d \in CycleIds PROVE CycleInv(d)'
  BY DEF PerfInv, CycleInv, Launched
<1>5. ASSUME NEW d \in CycleIds, NEW f \in Reviewees
      PROVE  DataInv(d, f)' /\ FreshInv(d, f)' /\ PassedInv(d, f)'
  <2>1. DataInv(d, f) /\ FreshInv(d, f) /\ PassedInv(d, f) BY DEF PerfInv
  <2>2. SameSettings BY DEF SameSettings
  <2>3. CASE d = c /\ f = e
    <3>1. DataInv(d, f)' BY <2>1 DEF DataInv, TakenSnapshot
    <3>2. FreshInv(d, f)' BY <2>1 DEF FreshInv
    <3>3. PassedInv(d, f)' BY <2>3 DEF PassedInv
    <3> QED BY <3>1, <3>2, <3>3
  <2>4. CASE ~(d = c /\ f = e)
    <3>1. goals'[d][f] = goals[d][f] BY <1>1, <2>4 DEF PerfTypes
    <3> QED BY <2>1, <2>2, <3>1, SameParticipant
  <2> QED BY <2>3, <2>4
<1> QED BY <1>3, <1>4, <1>5 DEF PerfInv

LEMMA GoalsKeep ==
  ASSUME PerfInv, NEW c \in CycleIds, NEW e \in Reviewees,
         \/ \E g \in GoalIds : \/ DeleteGoal(c, e, g) \/ ChangeKpiTarget(c, e, g)
                               \/ \E w \in GoalWeights : SaveGoal(c, e, g, w)
         \/ ApproveGoals(c, e)
  PROVE  PerfInv'
<1>1. goals \in [CycleIds -> [Reviewees -> GoalRows]] BY DEF PerfInv, PerfTypes
<1>6. goals[c][e] \in [GoalIds -> GoalRow] BY <1>1 DEF GoalRows
<1>7. \A h \in GoalIds, s \in {"PROPOSED", "APPROVED"} :
        goals[c][e][h] \in GoalRow /\ [goals[c][e][h] EXCEPT !.status = s] \in GoalRow
  <2> SUFFICES ASSUME NEW h \in GoalIds, NEW s \in {"PROPOSED", "APPROVED"}
               PROVE  goals[c][e][h] \in GoalRow /\ [goals[c][e][h] EXCEPT !.status = s] \in GoalRow
    OBVIOUS
  <2>1. goals[c][e][h] \in GoalRow BY <1>6
  <2> QED BY <2>1 DEF GoalRow
<1>2. ASSUME NEW g \in GoalIds, NEW w \in GoalWeights, SaveGoal(c, e, g, w) PROVE PerfInv'
  <2> DEFINE rows == [goals[c][e] EXCEPT ![g] = [status |-> "PROPOSED", weight |-> w]]
  <2>1. rows \in GoalRows BY <1>1 DEF GoalRows, GoalRow
  <2>2. goals' = [goals EXCEPT ![c][e] = rows] BY <1>1, <1>2 DEF SaveGoal
  <2> HIDE DEF rows
  <2> QED BY <1>2, <2>1, <2>2, GoalStepKeeps DEF SaveGoal, GoalsOpen, AtStage
<1>3. ASSUME NEW g \in GoalIds, DeleteGoal(c, e, g) PROVE PerfInv'
  <2> DEFINE rows == [h \in GoalIds |-> IF h \in GoalsOf(c, e) \ {g}
                        THEN [goals[c][e][h] EXCEPT !.status = "PROPOSED"] ELSE NoGoal]
  <2>1. rows \in GoalRows
    <3>1. NoGoal \in GoalRow BY DEF NoGoal, GoalRow
    <3> QED BY <1>7, <3>1 DEF GoalRows
  <2>2. goals' = [goals EXCEPT ![c][e] = rows] BY <1>1, <1>3 DEF DeleteGoal
  <2> HIDE DEF rows
  <2> QED BY <1>3, <2>1, <2>2, GoalStepKeeps DEF DeleteGoal, GoalsOpen, AtStage
<1>4. ASSUME NEW g \in GoalIds, ChangeKpiTarget(c, e, g) PROVE PerfInv'
  <2> DEFINE rows == [goals[c][e] EXCEPT ![g] = [goals[c][e][g] EXCEPT !.status = "PROPOSED"]]
  <2>1. rows \in GoalRows BY <1>6, <1>7 DEF GoalRows
  <2>2. goals' = [goals EXCEPT ![c][e] = rows] BY <1>1, <1>4 DEF ChangeKpiTarget
  <2> HIDE DEF rows
  <2> QED BY <1>4, <2>1, <2>2, GoalStepKeeps DEF ChangeKpiTarget, AtStage
<1>5. ASSUME ApproveGoals(c, e) PROVE PerfInv'
  <2> DEFINE rows == [g \in GoalIds |-> IF g \in GoalsOf(c, e)
                        THEN [goals[c][e][g] EXCEPT !.status = "APPROVED"] ELSE goals[c][e][g]]
  <2>1. rows \in GoalRows BY <1>7 DEF GoalRows
  <2>2. goals' = [goals EXCEPT ![c][e] = rows] BY <1>1, <1>5 DEF ApproveGoals
  <2> HIDE DEF rows
  <2> QED BY <1>5, <2>1, <2>2, GoalStepKeeps DEF ApproveGoals, GoalsOpen, AtStage
<1> QED BY <1>2, <1>3, <1>4, <1>5

\* A step about one participant that leaves the stages alone.
LEMMA ParticipantStepKeeps ==
  ASSUME PerfInv, NEW c \in CycleIds, NEW e \in Reviewees,
         NEW data \in ParticipantRow, NEW rows \in SnapshotRows,
         review' = [review EXCEPT ![c][e] = data], snapshot' = [snapshot EXCEPT ![c][e] = rows],
         UNCHANGED <<program, activating, reviewCycle, goals, businessDay, listed, early>>,
         data.in = review[c][e].in, reviewCycle[c].stage # "NONE",
         DataInv(c, e)', FreshInv(c, e)', PassedInv(c, e)'
  PROVE  PerfInv'
<1>1. PerfTypes BY DEF PerfInv
<1>2. /\ review' \in [CycleIds -> [Reviewees -> ParticipantRow]]
      /\ snapshot' \in [CycleIds -> [Reviewees -> SnapshotRows]]
      /\ review'[c][e] = data /\ snapshot'[c][e] = rows
  BY <1>1 DEF PerfTypes
<1>3. PerfTypes' BY <1>1, <1>2 DEF PerfTypes
<1>4. ASSUME NEW d \in CycleIds PROVE CycleInv(d)'
  <2>1. \A f \in Reviewees : review'[d][f].in = review[d][f].in BY <1>1 DEF PerfTypes
  <2>2. CycleInv(d) BY DEF PerfInv
  <2> QED BY <2>1, <2>2 DEF CycleInv, Launched
<1>5. ASSUME NEW d \in CycleIds, NEW f \in Reviewees
      PROVE  DataInv(d, f)' /\ FreshInv(d, f)' /\ PassedInv(d, f)'
  <2>1. CASE d = c /\ f = e BY <2>1
  <2>2. CASE ~(d = c /\ f = e)
    <3>1. review'[d][f] = review[d][f] /\ snapshot'[d][f] = snapshot[d][f]
      BY <1>1, <2>2 DEF PerfTypes
    <3>2. DataInv(d, f) /\ FreshInv(d, f) /\ PassedInv(d, f) BY DEF PerfInv
    <3>3. SameSettings BY DEF SameSettings
    <3> QED BY <3>1, <3>2, <3>3, SameParticipant
  <2> QED BY <2>1, <2>2
<1> QED BY <1>3, <1>4, <1>5 DEF PerfInv


LEMMA RowsOf ==
  ASSUME PerfTypes, NEW c \in CycleIds, NEW e \in Reviewees
  PROVE  /\ review[c][e] \in ParticipantRow /\ review[c][e].revision \in 1..MaxRevisions
         /\ snapshot[c][e] \in SnapshotRows
         /\ snapshot[c][e][review[c][e].revision] \in SnapshotRow
<1>1. review[c][e] \in ParticipantRow /\ snapshot[c][e] \in SnapshotRows BY DEF PerfTypes
<1>2. review[c][e].revision \in 1..MaxRevisions BY <1>1 DEF ParticipantRow
<1> QED BY <1>1, <1>2 DEF SnapshotRows

\* A submission adds to what there is.
LEMMA SaveReviewKeeps ==
  ASSUME PerfInv, NEW c \in CycleIds, NEW e \in Reviewees, NEW data \in ParticipantRow,
         SaveReview(c, e, data), reviewCycle[c].stage \notin {"NONE", "GOAL_SETTING"},
         /\ data.in = review[c][e].in /\ data.excluded = review[c][e].excluded
         /\ data.revision = review[c][e].revision,
         data.manager => data.self,
         data.manager /\ ~program.calibrates => data.rating = "manager",
         snapshot[c][e][review[c][e].revision].calibrated => data.rating = "hr" /\ data.manager,
         /\ review[c][e].manager => data.manager
         /\ review[c][e].acknowledged => data.acknowledged,
         reviewCycle[c].stage \in {"EMPLOYEE_ACKNOWLEDGEMENT", "CLOSED"} =>
           data.rating = review[c][e].rating
  PROVE  PerfInv'
<1> DEFINE r == review[c][e].revision
           row == TakenSnapshot(snapshot[c][e][r], data)
           rows == [snapshot[c][e] EXCEPT ![r] = row]
<1>1. PerfTypes BY DEF PerfInv
<1>2. r \in 1..MaxRevisions /\ snapshot[c][e] \in SnapshotRows /\ snapshot[c][e][r] \in SnapshotRow
  BY <1>1, RowsOf
<1>3. row \in SnapshotRow BY <1>2 DEF TakenSnapshot, SnapshotRow, ParticipantRow
<1>4. row = TakenSnapshot(row, data) /\ row.calibrated = snapshot[c][e][r].calibrated
  BY DEF TakenSnapshot
<1>5. review' = [review EXCEPT ![c][e] = data] /\ snapshot' = [snapshot EXCEPT ![c][e] = rows]
  BY <1>1 DEF SaveReview, PerfTypes
<1>6. UNCHANGED <<program, activating, reviewCycle, goals, businessDay, listed, early>>
  BY DEF SaveReview
<1> HIDE DEF row
<1>7. rows \in SnapshotRows /\ rows[r] = row BY <1>2, <1>3 DEF SnapshotRows
<1> HIDE DEF rows
<1>8. review'[c][e] = data /\ snapshot'[c][e] = rows BY <1>1, <1>5 DEF PerfTypes
<1>9. DataInv(c, e) /\ FreshInv(c, e) /\ PassedInv(c, e) BY DEF PerfInv
<1>10. DataInv(c, e)'
  <2>1. snapshot'[c][e][review'[c][e].revision] = row BY <1>7, <1>8
  <2> QED BY <1>4, <1>6, <1>8, <2>1 DEF DataInv, TakenSnapshot
<1>11. FreshInv(c, e)' BY <1>6 DEF FreshInv
<1>12. PassedInv(c, e)'
  <2>1. Done(c, e, "GOAL_SETTING")' = Done(c, e, "GOAL_SETTING") BY <1>6, SameGoals DEF SameSettings
  <2>2. Included(c, e)' = Included(c, e) BY <1>8 DEF Included
  <2> QED BY <1>6, <1>8, <1>9, <2>1, <2>2 DEF PassedInv
<1> QED BY <1>5, <1>6, <1>7, <1>10, <1>11, <1>12, ParticipantStepKeeps

LEMMA SubmissionsKeep ==
  ASSUME PerfInv, NEW c \in CycleIds, NEW e \in Reviewees,
         \/ SubmitSelfAppraisal(c, e) \/ SubmitManagerAppraisal(c, e) \/ AcknowledgeReview(c, e)
         \/ SubmitKpiActual(c, e)
  PROVE  PerfInv'
<1>1. PerfTypes /\ DataInv(c, e) BY DEF PerfInv
<1>2. review[c][e] \in ParticipantRow BY <1>1 DEF PerfTypes
<1>3. CASE SubmitSelfAppraisal(c, e)
  <2> DEFINE data == [review[c][e] EXCEPT !.self = TRUE]
  <2>1. data \in ParticipantRow BY <1>2 DEF ParticipantRow
  <2>2. /\ data.in = review[c][e].in /\ data.excluded = review[c][e].excluded /\ data.self
        /\ data.revision = review[c][e].revision /\ data.rating = review[c][e].rating
        /\ data.manager = review[c][e].manager /\ data.acknowledged = review[c][e].acknowledged
    BY <1>2 DEF ParticipantRow
  <2>3. SaveReview(c, e, data) /\ reviewCycle[c].stage = "SELF_REVIEW"
    BY <1>3 DEF SubmitSelfAppraisal, AtStage
  <2> HIDE DEF data
  <2> QED BY <1>1, <2>1, <2>2, <2>3, SaveReviewKeeps DEF DataInv
<1>4. CASE SubmitManagerAppraisal(c, e)
  <2> DEFINE rate == IF program.calibrates THEN "none" ELSE "manager"
             data == [review[c][e] EXCEPT !.manager = TRUE, !.rating = rate]
  <2>1. rate \in {"none", "manager"} /\ (~program.calibrates => rate = "manager") OBVIOUS
  <2>2. SaveReview(c, e, data) /\ reviewCycle[c].stage = "MANAGER_REVIEW"
        /\ review[c][e].self /\ ~review[c][e].manager
    BY <1>4 DEF SubmitManagerAppraisal, AtStage
  <2> HIDE DEF rate
  <2>3. data \in ParticipantRow BY ZenonT(60), <1>2, <2>1 DEF ParticipantRow
  <2>4. /\ data.in = review[c][e].in /\ data.excluded = review[c][e].excluded
        /\ data.self = review[c][e].self
        /\ data.revision = review[c][e].revision /\ data.rating = rate
        /\ data.manager /\ data.acknowledged = review[c][e].acknowledged
    BY <1>2 DEF ParticipantRow
  <2> HIDE DEF data
  <2> QED BY <1>1, <2>1, <2>2, <2>3, <2>4, SaveReviewKeeps DEF DataInv
<1>5. CASE AcknowledgeReview(c, e)
  <2> DEFINE data == [review[c][e] EXCEPT !.acknowledged = TRUE]
  <2>1. data \in ParticipantRow BY <1>2 DEF ParticipantRow
  <2>2. /\ data.in = review[c][e].in /\ data.excluded = review[c][e].excluded
        /\ data.self = review[c][e].self
        /\ data.revision = review[c][e].revision /\ data.rating = review[c][e].rating
        /\ data.manager = review[c][e].manager /\ data.acknowledged
    BY <1>2 DEF ParticipantRow
  <2>3. SaveReview(c, e, data) /\ reviewCycle[c].stage = "EMPLOYEE_ACKNOWLEDGEMENT"
    BY <1>5 DEF AcknowledgeReview, AtStage
  <2> HIDE DEF data
  <2> QED BY <1>1, <2>1, <2>2, <2>3, SaveReviewKeeps DEF DataInv
<1>6. CASE SubmitKpiActual(c, e)
  <2>1. SaveReview(c, e, review[c][e]) /\ reviewCycle[c].stage \in {"SELF_REVIEW", "MANAGER_REVIEW"}
    BY <1>6 DEF SubmitKpiActual, AtStage
  <2> QED BY <1>1, <1>2, <2>1, SaveReviewKeeps DEF DataInv
<1> QED BY <1>3, <1>4, <1>5, <1>6

LEMMA SnapshotFields ==
  ASSUME NEW row \in SnapshotRow
  PROVE  row = [self |-> row.self, manager |-> row.manager, acknowledged |-> row.acknowledged,
                rating |-> row.rating, exists |-> row.exists, calibrated |-> row.calibrated]
BY DEF SnapshotRow

\* The snapshots of a decision and of a revision that begins are those of the participant.
LEMMA DecidedRow ==
  ASSUME NEW before \in SnapshotRow, NEW data \in ParticipantRow
  PROVE  LET row == [TakenSnapshot(before, data) EXCEPT !.calibrated = TRUE]
         IN row \in SnapshotRow /\ row = TakenSnapshot(row, data) /\ row.calibrated
<1> DEFINE taken == TakenSnapshot(before, data)
           row == [taken EXCEPT !.calibrated = TRUE]
<1>1. /\ taken \in SnapshotRow /\ taken.exists /\ taken.self = data.self
      /\ taken.manager = data.manager /\ taken.acknowledged = data.acknowledged
      /\ taken.rating = data.rating
  BY DEF TakenSnapshot, SnapshotRow, ParticipantRow
<1> HIDE DEF taken
<1>2. /\ row \in SnapshotRow /\ row.exists /\ row.calibrated /\ row.self = data.self
      /\ row.manager = data.manager /\ row.acknowledged = data.acknowledged
      /\ row.rating = data.rating
  BY <1>1 DEF SnapshotRow
<1> HIDE DEF row
<1>3. row = TakenSnapshot(row, data) BY <1>2, SnapshotFields DEF TakenSnapshot
<1> QED BY <1>2, <1>3 DEF row, taken

LEMMA ReopenedRow ==
  ASSUME NEW data \in ParticipantRow, ~data.manager, ~data.acknowledged, data.rating = "none"
  PROVE  LET row == [NoSnapshot EXCEPT !.exists = TRUE, !.self = data.self]
         IN row \in SnapshotRow /\ row = TakenSnapshot(row, data) /\ ~row.calibrated
<1> DEFINE row == [NoSnapshot EXCEPT !.exists = TRUE, !.self = data.self]
<1>1. NoSnapshot \in SnapshotRow BY DEF NoSnapshot, SnapshotRow
<1>2. data.self \in BOOLEAN BY DEF ParticipantRow
<1>3. /\ row \in SnapshotRow /\ row.exists /\ ~row.calibrated /\ row.self = data.self
      /\ ~row.manager /\ ~row.acknowledged /\ row.rating = "none"
  BY <1>1, <1>2 DEF SnapshotRow, NoSnapshot
<1> HIDE DEF row
<1>4. /\ row.manager = data.manager /\ row.acknowledged = data.acknowledged
      /\ row.exists = TRUE
  BY <1>3 DEF SnapshotRow, ParticipantRow
<1>5. row = TakenSnapshot(row, data) BY <1>3, <1>4, SnapshotFields DEF TakenSnapshot
<1> QED BY <1>3, <1>5 DEF row

LEMMA CalibrateKeeps ==
  ASSUME PerfInv, NEW c \in CycleIds, NEW e \in Reviewees, Calibrate(c, e)
  PROVE  PerfInv'
<1> DEFINE r == review[c][e].revision
           data == [review[c][e] EXCEPT !.rating = "hr"]
           row == [TakenSnapshot(snapshot[c][e][r], data) EXCEPT !.calibrated = TRUE]
           rows == [snapshot[c][e] EXCEPT ![r] = row]
<1>1. PerfTypes /\ CycleInv(c) /\ DataInv(c, e) /\ FreshInv(c, e) /\ PassedInv(c, e) BY DEF PerfInv
<1>2. /\ r \in 1..MaxRevisions /\ snapshot[c][e] \in SnapshotRows /\ snapshot[c][e][r] \in SnapshotRow
      /\ review[c][e] \in ParticipantRow
  BY <1>1, RowsOf
<1>3. reviewCycle[c].stage = "HR_CALIBRATION" /\ review[c][e].manager /\ program.calibrates
  BY <1>1 DEF Calibrate, AtStage, CycleInv
<1>4. data \in ParticipantRow BY <1>2 DEF ParticipantRow
<1>5. /\ data.in = review[c][e].in /\ data.excluded = review[c][e].excluded
      /\ data.self = review[c][e].self
      /\ data.revision = r /\ data.rating = "hr"
      /\ data.manager = review[c][e].manager /\ data.acknowledged = review[c][e].acknowledged
  BY <1>2 DEF ParticipantRow
<1>6. review' = [review EXCEPT ![c][e] = data] BY <1>1 DEF Calibrate, PerfTypes
<1>7. review'[c][e] = data BY <1>1, <1>6 DEF PerfTypes
<1>8. snapshot' = [snapshot EXCEPT ![c][e] = rows] BY <1>1, <1>7 DEF Calibrate, PerfTypes
<1>9. UNCHANGED <<program, activating, reviewCycle, goals, businessDay, listed, early>>
  BY DEF Calibrate
<1> HIDE DEF data
<1>10. row \in SnapshotRow /\ row = TakenSnapshot(row, data) /\ row.calibrated
  BY <1>2, <1>4, DecidedRow
<1> HIDE DEF row
<1>11. rows \in SnapshotRows /\ rows[r] = row BY ZenonT(60), <1>2, <1>10 DEF SnapshotRows
<1> HIDE DEF rows
<1>12. snapshot'[c][e] = rows BY <1>1, <1>8 DEF PerfTypes
<1>13. DataInv(c, e)'
  <2>1. snapshot'[c][e][review'[c][e].revision] = row BY <1>5, <1>7, <1>11, <1>12
  <2> QED BY <1>1, <1>3, <1>5, <1>7, <1>9, <1>10, <2>1 DEF DataInv, TakenSnapshot
<1>14. FreshInv(c, e)' BY <1>3, <1>9 DEF FreshInv
<1>15. PassedInv(c, e)'
  <2>1. Done(c, e, "GOAL_SETTING")' = Done(c, e, "GOAL_SETTING") BY <1>9, SameGoals DEF SameSettings
  <2>2. Included(c, e)' = Included(c, e) BY <1>5, <1>7 DEF Included
  <2> QED BY <1>1, <1>3, <1>5, <1>7, <1>9, <2>1, <2>2 DEF PassedInv
<1> QED BY <1>3, <1>4, <1>5, <1>6, <1>8, <1>9, <1>11, <1>13, <1>14, <1>15, ParticipantStepKeeps

LEMMA ExclusionKeeps ==
  ASSUME PerfInv, NEW c \in CycleIds, NEW e \in Reviewees, NEW x \in BOOLEAN, SetExcluded(c, e, x)
  PROVE  PerfInv'
<1> DEFINE data == [review[c][e] EXCEPT !.excluded = x]
<1>1. PerfTypes /\ DataInv(c, e) /\ FreshInv(c, e) BY DEF PerfInv
<1>2. review[c][e] \in ParticipantRow /\ snapshot[c][e] \in SnapshotRows BY <1>1 DEF PerfTypes
<1>3. data \in ParticipantRow BY <1>2 DEF ParticipantRow
<1>4. /\ data.in = review[c][e].in /\ data.self = review[c][e].self
      /\ data.revision = review[c][e].revision /\ data.rating = review[c][e].rating
      /\ data.manager = review[c][e].manager /\ data.acknowledged = review[c][e].acknowledged
  BY <1>2 DEF ParticipantRow
<1>5. /\ reviewCycle[c].stage = "GOAL_SETTING" /\ review' = [review EXCEPT ![c][e] = data]
      /\ snapshot' = [snapshot EXCEPT ![c][e] = snapshot[c][e]]
      /\ UNCHANGED <<program, activating, reviewCycle, goals, snapshot, businessDay, listed, early>>
  BY <1>1 DEF SetExcluded, AtStage, PerfTypes
<1> HIDE DEF data
<1>6. review'[c][e] = data /\ snapshot'[c][e] = snapshot[c][e] BY <1>1, <1>5 DEF PerfTypes
<1>7. DataInv(c, e)' BY ZenonT(60), <1>1, <1>4, <1>5, <1>6 DEF DataInv, TakenSnapshot
<1>8. FreshInv(c, e)' BY <1>1, <1>4, <1>5, <1>6 DEF FreshInv
<1>9. PassedInv(c, e)' BY <1>5 DEF PassedInv
<1> QED BY <1>2, <1>3, <1>4, <1>5, <1>7, <1>8, <1>9, ParticipantStepKeeps


\* A cycle that goes back to an earlier stage keeps what that stage asks for: less.
LEMMA ReopenKeeps ==
  ASSUME PerfInv, NEW c \in CycleIds, NEW e \in Reviewees, NEW stage, ReopenReview(c, e, stage)
  PROVE  PerfInv'
<1> DEFINE old == review[c][e]
           new == ReopenedReview(old, stage)
           before == TakenSnapshot(snapshot[c][e][old.revision], old)
           after == [NoSnapshot EXCEPT !.exists = TRUE, !.self = new.self]
           rows == [snapshot[c][e] EXCEPT ![old.revision] = before, ![new.revision] = after]
           row == [stage |-> stage, status |-> "ACTIVE"]
<1>1. PerfTypes /\ CycleInv(c) BY DEF PerfInv
<1>2. /\ old \in ParticipantRow /\ old.revision \in 1..MaxRevisions /\ snapshot[c][e] \in SnapshotRows
      /\ snapshot[c][e][old.revision] \in SnapshotRow
  BY <1>1, RowsOf
<1>3. /\ stage \in {"SELF_REVIEW", "MANAGER_REVIEW"} /\ old.in /\ ~old.excluded
      /\ old.revision < MaxRevisions /\ old.self
      /\ UNCHANGED <<program, activating, goals, businessDay, listed, early>>
  BY DEF ReopenReview, Included
<1>4. reviewCycle[c].stage \notin {"NONE", "GOAL_SETTING"}
  BY <1>3 DEF PerfInv, FreshInv
<1>5. /\ new \in ParticipantRow /\ new.revision = old.revision + 1 /\ new.in = old.in
      /\ new.excluded = old.excluded /\ ~new.manager /\ ~new.acknowledged /\ new.rating = "none"
  <2>1. old.revision + 1 \in 1..MaxRevisions BY <1>2, <1>3, PerformanceAssumption
  <2>2. (old.self /\ stage = "MANAGER_REVIEW") \in BOOLEAN OBVIOUS
  <2>3. new = [old EXCEPT !.revision = old.revision + 1, !.self = old.self /\ stage = "MANAGER_REVIEW",
                          !.manager = FALSE, !.acknowledged = FALSE, !.rating = "none"]
    BY <1>2 DEF ReopenedReview, ParticipantRow
  <2> HIDE DEF new
  <2> QED BY ZenonT(60), <1>2, <2>1, <2>2, <2>3 DEF ParticipantRow
<1>6. /\ review' = [review EXCEPT ![c][e] = new] /\ reviewCycle' = [reviewCycle EXCEPT ![c] = row]
  BY DEF ReopenReview
<1>7. snapshot' = [snapshot EXCEPT ![c][e] = rows]
  <2>1. old.revision # new.revision BY <1>2, <1>5
  <2>2. snapshot' = [snapshot EXCEPT ![c][e][old.revision] = TakenSnapshot(@, old),
                                     ![c][e][new.revision] = after]
    BY DEF ReopenReview
  <2> HIDE DEF new, after
  <2> QED BY <1>1, <2>1, <2>2 DEF PerfTypes
<1>8. before \in SnapshotRow BY <1>2 DEF TakenSnapshot, SnapshotRow, ParticipantRow
<1>9. after \in SnapshotRow /\ after = TakenSnapshot(after, new) /\ ~after.calibrated
  <2> HIDE DEF new
  <2> QED BY <1>5, ReopenedRow
<1> HIDE DEF new, before, after
<1>10. rows \in SnapshotRows /\ rows[new.revision] = after
  <2>1. new.revision \in 1..MaxRevisions BY <1>5 DEF ParticipantRow
  <2> QED BY <1>2, <1>8, <1>9, <2>1 DEF SnapshotRows
<1>11. row \in StageRow /\ row.stage = stage /\ row.status = "ACTIVE"
  BY <1>3 DEF StageRow, ReviewStages
<1> HIDE DEF rows, row
<1>12. /\ review' \in [CycleIds -> [Reviewees -> ParticipantRow]] /\ review'[c][e] = new
       /\ snapshot' \in [CycleIds -> [Reviewees -> SnapshotRows]] /\ snapshot'[c][e] = rows
       /\ reviewCycle' \in [CycleIds -> StageRow] /\ reviewCycle'[c] = row
       /\ \A d \in CycleIds \ {c} : reviewCycle'[d] = reviewCycle[d]
  BY <1>1, <1>5, <1>6, <1>7, <1>10, <1>11 DEF PerfTypes
<1>13. \A d \in CycleIds, f \in Reviewees : ~(d = c /\ f = e) =>
         review'[d][f] = review[d][f] /\ snapshot'[d][f] = snapshot[d][f]
  BY <1>1, <1>6, <1>7 DEF PerfTypes
<1>14. PerfTypes' BY <1>1, <1>3, <1>12 DEF PerfTypes
<1>15. ASSUME NEW d \in CycleIds PROVE CycleInv(d)'
  <2>1. CycleInv(d) BY DEF PerfInv
  <2>2. \A k \in CycleIds : reviewCycle'[k].stage # "NONE" <=> reviewCycle[k].stage # "NONE"
    BY <1>3, <1>4, <1>11, <1>12
  <2>3. \A f \in Reviewees : review'[d][f].in = review[d][f].in BY <1>5, <1>12, <1>13
  <2>4. CASE d = c
    <3>1. \E f \in Reviewees : review'[c][f].in BY <1>3, <1>5, <1>12
    <3> QED BY <1>3, <1>4, <1>11, <1>12, <2>1, <2>2, <2>4, <3>1 DEF CycleInv, Launched
  <2>5. CASE d # c BY <1>3, <1>12, <2>1, <2>2, <2>3, <2>5 DEF CycleInv, Launched
  <2> QED BY <2>4, <2>5
<1>16. ASSUME NEW d \in CycleIds, NEW f \in Reviewees
       PROVE  DataInv(d, f)' /\ FreshInv(d, f)' /\ PassedInv(d, f)'
  <2>1. DataInv(d, f) /\ FreshInv(d, f) /\ PassedInv(d, f) BY DEF PerfInv
  <2>2. SameSettings /\ goals'[d][f] = goals[d][f] BY <1>3 DEF SameSettings
  <2>3. Done(d, f, "GOAL_SETTING")' = Done(d, f, "GOAL_SETTING") BY <2>2, SameGoals
  <2>4. CASE d = c /\ f = e
    <3>1. snapshot'[c][e][review'[c][e].revision] = after BY <1>10, <1>12
    <3>2. DataInv(d, f)' BY <1>5, <1>9, <1>12, <2>4, <3>1 DEF DataInv, TakenSnapshot
    <3>3. FreshInv(d, f)' BY <1>3, <1>11, <1>12, <2>4 DEF FreshInv
    <3>4. PassedInv(d, f)' BY <1>3, <1>4, <1>11, <1>12, <2>1, <2>3, <2>4 DEF PassedInv, Included
    <3> QED BY <3>2, <3>3, <3>4
  <2>5. CASE d = c /\ f # e
    <3>1. review'[d][f] = review[d][f] /\ snapshot'[d][f] = snapshot[d][f] BY <1>13, <2>5
    <3>2. DataInv(d, f)' BY <2>1, <2>2, <3>1 DEF DataInv, SameSettings, TakenSnapshot
    <3>3. FreshInv(d, f)' BY <1>3, <1>11, <1>12, <2>5 DEF FreshInv
    <3>4. PassedInv(d, f)' BY <1>3, <1>4, <1>11, <1>12, <2>1, <2>3, <2>5, <3>1 DEF PassedInv, Included
    <3> QED BY <3>2, <3>3, <3>4
  <2>6. CASE d # c BY <1>12, <1>13, <2>1, <2>2, <2>6, SameParticipant
  <2> QED BY <2>4, <2>5, <2>6
<1> QED BY <1>14, <1>15, <1>16 DEF PerfInv

\* Whoever is not excluded has done what the stage asks for when the cycle leaves it.
LEMMA AdvanceKeeps ==
  ASSUME PerfInv, NEW c \in CycleIds, MayAdvance(c), AdvanceStage(c),
         UNCHANGED <<program, activating, review, goals, snapshot, businessDay>>,
         early' = FALSE, listed' \in [on : 0..LastDeadline, cycles : SUBSET CycleIds],
         listed'.on = listed.on
  PROVE  PerfInv'
<1> DEFINE now == reviewCycle[c].stage
           next == NextStage(now)
           row == [stage |-> next, status |-> IF next = "CLOSED" THEN "COMPLETED" ELSE reviewCycle[c].status]
<1>1. PerfTypes /\ CycleInv(c) BY DEF PerfInv
<1>2. reviewCycle[c] \in StageRow /\ now \in ReviewStages \cup {"NONE"} BY <1>1 DEF PerfTypes, StageRow
<1>3. now \notin {"NONE", "CLOSED"} /\ \E f \in Reviewees : review[c][f].in BY DEF MayAdvance
<1>4. now \in {"GOAL_SETTING", "SELF_REVIEW", "MANAGER_REVIEW", "HR_CALIBRATION", "EMPLOYEE_ACKNOWLEDGEMENT"}
  BY <1>2, <1>3 DEF ReviewStages
<1> HIDE DEF now
<1>5. /\ now = "GOAL_SETTING" => next = "SELF_REVIEW"
      /\ now = "SELF_REVIEW" => next = "MANAGER_REVIEW"
      /\ now = "MANAGER_REVIEW" /\ program.calibrates => next = "HR_CALIBRATION"
      /\ now = "MANAGER_REVIEW" /\ ~program.calibrates =>
           next = IF program.acknowledges THEN "EMPLOYEE_ACKNOWLEDGEMENT" ELSE "CLOSED"
      /\ now = "HR_CALIBRATION" =>
           next = IF program.acknowledges THEN "EMPLOYEE_ACKNOWLEDGEMENT" ELSE "CLOSED"
      /\ now = "EMPLOYEE_ACKNOWLEDGEMENT" => next = "CLOSED"
  BY DEF NextStage
<1> HIDE DEF next
<1>6. next \in {"SELF_REVIEW", "MANAGER_REVIEW", "HR_CALIBRATION", "EMPLOYEE_ACKNOWLEDGEMENT", "CLOSED"}
  BY <1>4, <1>5
<1>7. reviewCycle' = [reviewCycle EXCEPT ![c] = row] BY <1>1 DEF AdvanceStage, PerfTypes, now, next
<1>8. reviewCycle[c].status # "COMPLETED" BY <1>1, <1>3 DEF CycleInv, Launched, now
<1>9. row \in StageRow /\ row.stage = next /\ (row.stage = "CLOSED" <=> row.status = "COMPLETED")
  BY <1>2, <1>6, <1>8 DEF StageRow, ReviewStages
<1> HIDE DEF row
<1>10. /\ reviewCycle' \in [CycleIds -> StageRow] /\ reviewCycle'[c] = row
       /\ \A d \in CycleIds \ {c} : reviewCycle'[d] = reviewCycle[d]
  BY <1>1, <1>7, <1>9 DEF PerfTypes
<1>11. PerfTypes' BY <1>1, <1>10 DEF PerfTypes
<1>12. ASSUME NEW d \in CycleIds PROVE CycleInv(d)'
  <2>1. CycleInv(d) BY DEF PerfInv
  <2>2. \A k \in CycleIds : reviewCycle'[k].stage # "NONE" <=> reviewCycle[k].stage # "NONE"
    BY <1>3, <1>6, <1>9, <1>10 DEF now
  <2>3. CASE d = c
    <3>1. next = "HR_CALIBRATION" => program.calibrates BY <1>4, <1>5
    <3> QED BY <1>3, <1>9, <1>10, <2>1, <2>2, <2>3, <3>1 DEF CycleInv, Launched, now
  <2>4. CASE d # c BY <1>10, <2>1, <2>2, <2>4 DEF CycleInv, Launched
  <2> QED BY <2>3, <2>4
<1>13. ASSUME NEW d \in CycleIds, NEW f \in Reviewees
       PROVE  DataInv(d, f)' /\ FreshInv(d, f)' /\ PassedInv(d, f)'
  <2>1. DataInv(d, f) /\ FreshInv(d, f) /\ PassedInv(d, f) BY DEF PerfInv
  <2>2. SameSettings /\ goals'[d][f] = goals[d][f] BY DEF SameSettings
  <2>3. Done(d, f, "GOAL_SETTING")' = Done(d, f, "GOAL_SETTING") BY <2>2, SameGoals
  <2>4. CASE d = c
    <3>1. DataInv(d, f)' BY <2>1, <2>2 DEF DataInv, SameSettings, TakenSnapshot
    <3>2. FreshInv(d, f)' BY <1>6, <1>9, <1>10, <2>4 DEF FreshInv
    <3>3. ASSUME Included(c, f), Done(c, f, now) PROVE PassedInv(c, f)'
      <4>1. now = "MANAGER_REVIEW" => review[c][f].manager BY <3>3 DEF Done
      <4>2. now = "HR_CALIBRATION" => review[c][f].rating = "hr"
        BY <2>1, <2>4, <3>3 DEF Done, DataInv
      <4>3. now = "EMPLOYEE_ACKNOWLEDGEMENT" => review[c][f].acknowledged BY <3>3 DEF Done
      <4>4. now = "GOAL_SETTING" => Done(c, f, "GOAL_SETTING") BY <3>3
      <4>5. now = "HR_CALIBRATION" => program.calibrates BY <1>1 DEF CycleInv, now
      <4>6. Done(c, f, "GOAL_SETTING") BY <1>3, <2>1, <2>4, <3>3, <4>4 DEF PassedInv, now
      <4>7. now \in {"HR_CALIBRATION", "EMPLOYEE_ACKNOWLEDGEMENT"} => review[c][f].manager
        BY <2>1, <2>4, <3>3 DEF PassedInv, now
      <4>8. next \in {"HR_CALIBRATION", "EMPLOYEE_ACKNOWLEDGEMENT", "CLOSED"} => review[c][f].manager
        BY <1>4, <1>5, <4>1, <4>7
      <4>9. now = "EMPLOYEE_ACKNOWLEDGEMENT" =>
              review[c][f].rating = IF program.calibrates THEN "hr" ELSE "manager"
        BY <2>1, <2>4, <3>3 DEF PassedInv, now
      <4>10. review[c][f].manager /\ ~program.calibrates => review[c][f].rating = "manager"
        BY <2>1, <2>4 DEF DataInv
      <4>11. next \in {"EMPLOYEE_ACKNOWLEDGEMENT", "CLOSED"} =>
               review[c][f].rating = IF program.calibrates THEN "hr" ELSE "manager"
        BY <1>4, <1>5, <4>2, <4>5, <4>8, <4>9, <4>10
      <4>12. next = "CLOSED" /\ program.acknowledges => review[c][f].acknowledged
        BY <1>4, <1>5, <4>3
      <4> QED BY <1>9, <1>10, <2>3, <2>4, <4>6, <4>8, <4>11, <4>12 DEF PassedInv
    <3>4. Included(c, f) => Done(c, f, now) BY DEF MayAdvance, now
    <3>5. ~Included(c, f) => PassedInv(c, f)' BY DEF PassedInv, Included
    <3> QED BY <2>4, <3>1, <3>2, <3>3, <3>4, <3>5
  <2>5. CASE d # c BY <1>10, <2>1, <2>2, <2>5, SameParticipant
  <2> QED BY <2>4, <2>5
<1> QED BY <1>11, <1>12, <1>13 DEF PerfInv

LEMMA PerfBegins ==
  PerfInit => PerfInv
<1> SUFFICES ASSUME PerfInit PROVE PerfInv OBVIOUS
<1>1. [stage |-> "NONE", status |-> "NONE"] \in StageRow BY DEF StageRow
<1>2. NoReview \in ParticipantRow BY PerformanceAssumption DEF NoReview, ParticipantRow
<1>3. NoGoal \in GoalRow BY DEF NoGoal, GoalRow
<1>4. NoSnapshot \in SnapshotRow BY DEF NoSnapshot, SnapshotRow
<1>5. PerfTypes
  <2>1. program \in ProgramRow BY DEF PerfInit, DraftPrograms, ProgramRow
  <2>2. 0 \in 0..LastDeadline BY PerformanceAssumption
  <2>3. /\ reviewCycle \in [CycleIds -> StageRow] /\ review \in [CycleIds -> [Reviewees -> ParticipantRow]]
        /\ goals \in [CycleIds -> [Reviewees -> GoalRows]]
        /\ snapshot \in [CycleIds -> [Reviewees -> SnapshotRows]]
    BY <1>1, <1>2, <1>3, <1>4 DEF PerfInit, GoalRows, SnapshotRows
  <2>4. /\ businessDay = 0 /\ early = FALSE /\ activating = FALSE /\ listed = [on |-> 0, cycles |-> {}]
    BY DEF PerfInit
  <2>5. listed \in [on : 0..LastDeadline, cycles : SUBSET CycleIds] /\ listed.on <= businessDay
    BY <2>2, <2>4
  <2> QED BY <2>1, <2>2, <2>3, <2>4, <2>5 DEF PerfTypes
<1>6. ASSUME NEW c \in CycleIds PROVE CycleInv(c) BY DEF PerfInit, CycleInv, Launched
<1>7. ASSUME NEW c \in CycleIds, NEW e \in Reviewees
      PROVE  DataInv(c, e) /\ FreshInv(c, e) /\ PassedInv(c, e)
  <2>1. review[c][e] = NoReview /\ reviewCycle[c].stage = "NONE" BY DEF PerfInit
  <2>2. \A r \in 1..MaxRevisions : snapshot[c][e][r] = NoSnapshot BY DEF PerfInit
  <2>3. NoReview.revision \in 1..MaxRevisions /\ ~NoReview.in /\ ~NoReview.self /\ ~NoReview.manager
    BY PerformanceAssumption DEF NoReview
  <2>4. ~snapshot[c][e][review[c][e].revision].exists /\ ~snapshot[c][e][review[c][e].revision].calibrated
    BY <2>1, <2>2, <2>3 DEF NoSnapshot
  <2> QED BY <2>1, <2>2, <2>3, <2>4 DEF DataInv, FreshInv, PassedInv, Included
<1> QED BY <1>5, <1>6, <1>7 DEF PerfInv

LEMMA PerfKeeps ==
  PerfInv /\ [PerfNext]_perfVars => PerfInv'
<1> SUFFICES ASSUME PerfInv, [PerfNext]_perfVars PROVE PerfInv' OBVIOUS
<1>1. PerfTypes BY DEF PerfInv
<1>2. ASSUME NEW w \in GoalWeights \cup {FullWeight}, NEW x \in BOOLEAN, NEW y \in BOOLEAN, SaveProgram(w, x, y)
      PROVE  PerfInv'
  <2>1. program' \in ProgramRow /\ program.status = "DRAFT" /\ program'.status = "DRAFT"
    BY <1>1, <1>2 DEF SaveProgram, PerfTypes, ProgramRow
  <2>2. PerfTypes' BY <1>1, <1>2, <2>1 DEF SaveProgram, PerfTypes
  <2> QED BY <1>2, <2>1, <2>2, ProgramStepKeeps DEF SaveProgram
<1>3. CASE ReadForActivation
  <2>1. PerfTypes' BY <1>1, <1>3 DEF ReadForActivation, PerfTypes
  <2> QED BY <1>3, <2>1, ProgramStepKeeps DEF ReadForActivation, SameSettings
<1>4. CASE ActivateProgram \/ ArchiveProgram
  <2>1. program' \in ProgramRow /\ SameSettings /\ program'.status # "DRAFT"
    BY <1>1, <1>4 DEF ActivateProgram, ArchiveProgram, PerfTypes, ProgramRow, SameSettings
  <2>2. PerfTypes' BY <1>1, <1>4, <2>1 DEF ActivateProgram, ArchiveProgram, PerfTypes
  <2> QED BY <1>4, <2>1, <2>2, ProgramStepKeeps DEF ActivateProgram, ArchiveProgram
<1>5. CASE ListDueCycles
  <2>1. businessDay \in Nat BY <1>1 DEF PerfTypes
  <2>2. PerfTypes' BY <1>1, <1>5, <2>1 DEF ListDueCycles, PerfTypes
  <2> QED BY <1>5, <2>2, ProgramStepKeeps DEF ListDueCycles, SameSettings
<1>6. CASE DayEnds
  <2>1. businessDay \in 0..LastDeadline /\ listed.on \in Nat /\ listed.on <= businessDay BY <1>1 DEF PerfTypes
  <2>2. businessDay' \in 0..LastDeadline /\ listed.on <= businessDay'
    BY <1>6, <2>1, PerformanceAssumption DEF DayEnds
  <2>3. PerfTypes' BY <1>1, <1>6, <2>2 DEF DayEnds, PerfTypes
  <2> QED BY <1>6, <2>3, ProgramStepKeeps DEF DayEnds, SameSettings
<1>7. ASSUME NEW c \in CycleIds, NEW people \in SUBSET Reviewees,
             LaunchByHand(c, people) \/ LaunchBySweep(c, people)
      PROVE  PerfInv'
  BY <1>7, LaunchKeeps DEF LaunchByHand, LaunchBySweep
<1>8. ASSUME NEW c \in CycleIds, AdvanceByHand(c) PROVE PerfInv'
  BY <1>1, <1>8, AdvanceKeeps DEF AdvanceByHand, PerfTypes
<1>9. ASSUME NEW c \in CycleIds, AdvanceDueCycle(c) PROVE PerfInv'
  <2>1. /\ listed' \in [on : 0..LastDeadline, cycles : SUBSET CycleIds] /\ listed'.on = listed.on
        /\ listed.on \in Nat /\ businessDay \in Nat /\ listed.on <= businessDay /\ early = FALSE
    BY SMTT(60), <1>1, <1>9 DEF AdvanceDueCycle, PerfTypes
  <2>2. CASE StillDue(c) /\ MayAdvance(c)
    <3>1. DueOn(c, businessDay) BY <2>1, <2>2, PerformanceAssumption DEF StillDue, DueOn
    <3>2. early' = FALSE /\ AdvanceStage(c) BY <1>9, <2>1, <2>2, <3>1 DEF AdvanceDueCycle
    <3> QED BY <1>9, <2>1, <2>2, <3>2, AdvanceKeeps DEF AdvanceDueCycle
  <2>3. CASE ~(StillDue(c) /\ MayAdvance(c))
    <3>1. UNCHANGED <<program, activating, reviewCycle, review, goals, snapshot, businessDay, early>>
      BY <1>9, <2>3 DEF AdvanceDueCycle
    <3>2. PerfTypes' BY <1>1, <2>1, <3>1 DEF PerfTypes
    <3> QED BY <3>1, <3>2, ProgramStepKeeps DEF SameSettings
  <2> QED BY <2>2, <2>3
<1>10. ASSUME NEW c \in CycleIds, NEW e \in Reviewees, GoalStep(c, e) PROVE PerfInv'
  BY <1>10, GoalsKeep, ExclusionKeeps DEF GoalStep
<1>11. ASSUME NEW c \in CycleIds, NEW e \in Reviewees, ReviewStep(c, e) PROVE PerfInv'
  BY <1>11, SubmissionsKeep, CalibrateKeeps, ReopenKeeps DEF ReviewStep
<1>12. CASE UNCHANGED perfVars
  <2>1. PerfTypes' BY <1>1, <1>12 DEF perfVars, PerfTypes
  <2> QED BY <1>12, <2>1, ProgramStepKeeps DEF perfVars, SameSettings
<1> QED BY <1>2, <1>3, <1>4, <1>5, <1>6, <1>7, <1>8, <1>9, <1>10, <1>11, <1>12 DEF PerfNext

\* A period gets one cycle, no deadline moves a stage before it is due, and whoever is in a
\* cycle has done, in the current revision, what the stages it has passed asked for.
THEOREM ReviewsAreEarned == PerfSpec => []CyclesHold
<1>1. PerfInv => CyclesHold
  <2> SUFFICES ASSUME PerfInv PROVE CyclesHold OBVIOUS
  <2>1. PerfTypeOK
    BY DEF PerfInv, PerfTypes, PerfTypeOK, ProgramRow, StageRow, ParticipantRow, GoalRows, GoalRow,
           SnapshotRows, SnapshotRow
  <2>2. Cardinality({c \in CycleIds : Launched(c)}) <= 1
    <3>1. \A c, d \in {k \in CycleIds : Launched(k)} : c = d BY DEF PerfInv, CycleInv
    <3>2. CASE {c \in CycleIds : Launched(c)} = {} BY <3>2, FS_EmptySet
    <3>3. CASE {c \in CycleIds : Launched(c)} # {}
      <4>1. PICK c : {k \in CycleIds : Launched(k)} = {c} BY <3>1, <3>3
      <4> QED BY <4>1, FS_Singleton
    <3> QED BY <3>2, <3>3
  <2>3. ASSUME NEW c \in CycleIds, Launched(c)
        PROVE  /\ (reviewCycle[c].stage = "CLOSED") = (reviewCycle[c].status = "COMPLETED")
               /\ (\A e \in Reviewees : ~review[c][e].in) => reviewCycle[c].stage = "GOAL_SETTING"
    BY <2>3 DEF PerfInv, CycleInv
  <2>4. ASSUME NEW c \in CycleIds, Launched(c), NEW e \in Reviewees, Included(c, e)
        PROVE  Earned(c, e)
    <3>1. DataInv(c, e) /\ PassedInv(c, e) BY DEF PerfInv
    <3> QED BY <2>4, <3>1 DEF Earned, DataInv, PassedInv, Launched
  <2> QED BY <2>1, <2>2, <2>3, <2>4 DEF CyclesHold, PerfInv, PerfTypes
<1> QED BY <1>1, PerfBegins, PerfKeeps, PTL DEF PerfSpec

-----------------------------------------------------------------------------
(* Attendance days *)

WellFormed(vs) ==
  /\ DOMAIN vs \subseteq Nat /\ Baseline \in DOMAIN vs /\ \A d \in DOMAIN vs : vs[d] \in Int
  /\ \A d \in Dates : Increasing(ResolvedWindow(vs, d))

PunchInv(r) ==
  LET p == punches[r] IN
  /\ p.status = "OPEN" => p.to = Still /\ ~p.manual /\ p.from <= instant
  /\ p.to # Still => p.from <= p.to /\ p.day \in DOMAIN frozen /\ p.to <= frozen[p.day].to
  /\ p.day \in DOMAIN frozen => frozen[p.day].from <= p.from \/ Legacy(r)
  /\ p.day \notin DOMAIN frozen => Legacy(r)

\* Where a day begins without an offset.
Start(d) == d * DayLength

LEMMA Starts ==
  ASSUME NEW d \in Int
  PROVE  Start(d) \in Int /\ Start(d + 1) = Start(d) + DayLength /\ Start(0) = 0
BY AttendanceAssumption DEF Start

LEMMA Divides ==
  ASSUME NEW x \in Nat, NEW n \in Nat \ {0}
  PROVE  x \div n \in Nat /\ n * (x \div n) <= x /\ x < n * (x \div n) + n
BY SMT

LEMMA StartsGrow ==
  ASSUME NEW d \in Nat, NEW e \in Nat, d <= e
  PROVE  Start(d) <= Start(e)
BY AttendanceAssumption DEF Start

\* The versions of a boundary, each with its offset, whether or not their days increase.
Plain(vs) == DOMAIN vs \subseteq Nat /\ Baseline \in DOMAIN vs /\ \A d \in DOMAIN vs : vs[d] \in Int

LEMMA LatestVersion ==
  ASSUME NEW vs, Plain(vs), NEW d \in Nat
  PROVE  LET m == Max({e \in DOMAIN vs : e <= d}) IN
         m \in DOMAIN vs /\ m <= d /\ \A e \in DOMAIN vs : e <= d => e <= m
<1> DEFINE T == {e \in DOMAIN vs : e <= d}
<1>1. T \subseteq 0..d /\ Baseline \in T BY DEF Plain, Baseline
<1>2. IsFiniteSet(T)
  <2>1. 0 \in Int /\ d \in Int OBVIOUS
  <2>2. IsFiniteSet(0..d) BY <2>1, FS_Interval
  <2> HIDE DEF T
  <2> QED BY <1>1, <2>2, FS_Subset
<1>3. T \subseteq Nat /\ T # {} BY <1>1
<1> HIDE DEF T
<1>4. \E n \in T : \A m \in T : m <= n BY <1>2, <1>3, GreatestNatural
<1>5. \E n \in T : \A m \in T : n >= m
  <2>1. PICK n \in T : \A m \in T : m <= n BY <1>4
  <2>2. \A m \in T : n >= m BY <1>3, <2>1
  <2> QED BY <2>2
<1>6. Max(T) \in T /\ \A m \in T : Max(T) >= m BY <1>5 DEF Max
<1>7. T \subseteq DOMAIN vs BY DEF T
<1>8. \A m \in T : m <= Max(T) BY <1>3, <1>6
<1> QED BY <1>6, <1>8 DEF T

LEMMA GoverningSame ==
  ASSUME NEW vs, Plain(vs), NEW us, Plain(us), NEW d \in Nat, NEW c \in Nat,
         \A e \in Nat : (e \in DOMAIN vs /\ e <= d) <=> (e \in DOMAIN us /\ e <= c),
         \A e \in DOMAIN vs : e <= d => vs[e] = us[e]
  PROVE  Governing(vs, d) = Governing(us, c)
<1>1. {e \in DOMAIN vs : e <= d} = {e \in DOMAIN us : e <= c} BY DEF Plain
<1>2. PICK m : m = Max({e \in DOMAIN vs : e <= d}) OBVIOUS
<1>3. m \in DOMAIN vs /\ m <= d BY <1>2, LatestVersion
<1>4. Governing(vs, d) = vs[m] /\ Governing(us, c) = us[m] BY <1>1, <1>2 DEF Governing
<1> QED BY <1>3, <1>4

LEMMA WindowFields ==
  ASSUME NEW vs, Plain(vs), NEW d \in Nat \ {0}
  PROVE  /\ Governing(vs, d - 1) \in Int /\ Governing(vs, d) \in Int
         /\ ResolvedWindow(vs, d).from = Start(d) + Governing(vs, d - 1)
         /\ ResolvedWindow(vs, d).to = Start(d) + DayLength + Governing(vs, d)
         /\ ResolvedWindow(vs, d) \in Windows
<1>1. d - 1 \in Nat OBVIOUS
<1>2. Governing(vs, d - 1) \in Int /\ Governing(vs, d) \in Int
  BY <1>1, LatestVersion DEF Governing, Plain
<1>3. d \notin DOMAIN vs => Governing(vs, d) = Governing(vs, d - 1)
  <2> SUFFICES ASSUME d \notin DOMAIN vs PROVE Governing(vs, d) = Governing(vs, d - 1) OBVIOUS
  <2>1. \A e \in Nat : (e \in DOMAIN vs /\ e <= d) <=> (e \in DOMAIN vs /\ e <= d - 1) OBVIOUS
  <2> QED BY <1>1, <2>1, GoverningSame
<1>4. Start(d) \in Int /\ (d + 1) * DayLength = Start(d) + DayLength BY Starts DEF Start
<1>5. /\ ResolvedWindow(vs, d).from =
           d * DayLength + Governing(vs, IF d \in DOMAIN vs THEN d - 1 ELSE d)
      /\ ResolvedWindow(vs, d).to = (d + 1) * DayLength + Governing(vs, d)
      /\ ResolvedWindow(vs, d) = [from |-> ResolvedWindow(vs, d).from, to |-> ResolvedWindow(vs, d).to]
  BY DEF ResolvedWindow
<1>6. ResolvedWindow(vs, d).from = Start(d) + Governing(vs, d - 1) BY <1>3, <1>5 DEF Start
<1>7. ResolvedWindow(vs, d).to = Start(d) + DayLength + Governing(vs, d) BY <1>4, <1>5
<1>8. ResolvedWindow(vs, d).from \in Int /\ ResolvedWindow(vs, d).to \in Int
  BY <1>2, <1>4, <1>6, <1>7, AttendanceAssumption
<1> QED BY <1>2, <1>5, <1>6, <1>7, <1>8 DEF Windows

\* A window depends on the versions that are in force by its day.
LEMMA WindowSame ==
  ASSUME NEW vs, Plain(vs), NEW us, Plain(us), NEW d \in Nat \ {0},
         \A e \in Nat : e <= d => (e \in DOMAIN vs <=> e \in DOMAIN us) /\ (e \in DOMAIN vs => vs[e] = us[e])
  PROVE  ResolvedWindow(vs, d) = ResolvedWindow(us, d)
<1>1. d - 1 \in Nat /\ \A e \in Nat : e <= d - 1 => e <= d OBVIOUS
<1>2. DOMAIN vs \subseteq Nat BY DEF Plain
<1>3. Governing(vs, d) = Governing(us, d) BY <1>2, GoverningSame
<1>4. Governing(vs, d - 1) = Governing(us, d - 1) BY <1>1, <1>2, GoverningSame
<1>5. d \in DOMAIN vs <=> d \in DOMAIN us OBVIOUS
<1> QED BY <1>3, <1>4, <1>5 DEF ResolvedWindow

\* Windows follow one another.
LEMMA WindowsMeet ==
  ASSUME NEW vs, Plain(vs), NEW d \in Nat \ {0}
  PROVE  ResolvedWindow(vs, d + 1).from = ResolvedWindow(vs, d).to
<1>1. ResolvedWindow(vs, d).to = Start(d) + DayLength + Governing(vs, d) BY WindowFields
<1>2. d + 1 \in Nat \ {0} /\ (d + 1) - 1 = d OBVIOUS
<1>3. ResolvedWindow(vs, d + 1).from = Start(d + 1) + Governing(vs, (d + 1) - 1) BY <1>2, WindowFields
<1>4. Start(d + 1) = Start(d) + DayLength BY Starts
<1> QED BY <1>1, <1>2, <1>3, <1>4

LEMMA WindowInts ==
  ASSUME NEW vs, WellFormed(vs), NEW d \in Dates
  PROVE  ResolvedWindow(vs, d).from \in Int /\ ResolvedWindow(vs, d).to \in Int
<1>1. Plain(vs) BY DEF WellFormed, Plain
<1>2. d \in Nat \ {0} BY DEF Dates
<1>3. ResolvedWindow(vs, d) \in Windows BY <1>1, <1>2, WindowFields
<1> QED BY <1>3 DEF Windows

LEMMA WindowsApart ==
  ASSUME NEW vs, WellFormed(vs), NEW d \in Dates, NEW e \in Dates, d < e
  PROVE  ResolvedWindow(vs, d).to <= ResolvedWindow(vs, e).from
<1> DEFINE B == {n \in Dates : d < n /\ ~(ResolvedWindow(vs, d).to <= ResolvedWindow(vs, n).from)}
<1>1. Plain(vs) BY DEF WellFormed, Plain
<1>2. LastDay \in Nat /\ Dates \subseteq Nat \ {0} BY AttendanceAssumption DEF Dates
<1>3. \A n \in Dates : ResolvedWindow(vs, n).from \in Int /\ ResolvedWindow(vs, n).to \in Int
  BY WindowInts
<1>4. ASSUME B # {} PROVE FALSE
  <2>1. PICK n \in B : \A m \in B : n <= m BY <1>2, <1>4, LeastNatural
  <2>2. n \in Dates /\ d < n /\ ~(ResolvedWindow(vs, d).to <= ResolvedWindow(vs, n).from) OBVIOUS
  <2>3. PICK k : k = n - 1 OBVIOUS
  <2>4. k \in Dates /\ n = k + 1 /\ d <= k /\ k \in Nat \ {0} BY <1>2, <2>2, <2>3 DEF Dates
  <2>5. ResolvedWindow(vs, n).from = ResolvedWindow(vs, k).to BY <1>1, <2>4, WindowsMeet
  <2>6. CASE d = k BY <1>3, <2>2, <2>5, <2>6
  <2>7. CASE d < k
    <3>1. k \notin B BY <1>2, <2>1, <2>2, <2>4
    <3>2. ResolvedWindow(vs, d).to <= ResolvedWindow(vs, k).from BY <2>4, <2>7, <3>1
    <3>3. ResolvedWindow(vs, k).from < ResolvedWindow(vs, k).to
      BY <2>4 DEF WellFormed, Increasing
    <3> QED BY <1>3, <2>2, <2>4, <2>5, <3>2, <3>3
  <2> QED BY <1>2, <2>4, <2>6, <2>7
<1> QED BY <1>4

OneOpen ==
  \A r, q \in OpenPunches :
    punches[r].who = punches[q].who /\ ~Missed(r) /\ ~Missed(q) => r = q

\* Corrections of a day keep apart, and no day adds up to its length.
RowsInv ==
  /\ \A e \in Staff, d \in Dates : Worked(DayRows(e, d)) < DayLength
  /\ \A r, q \in DOMAIN punches :
       r # q /\ punches[r].manual /\ punches[q].manual /\ punches[r].who = punches[q].who
         /\ punches[r].day = punches[q].day => ~Overlaps(punches[r], punches[q])

\* Windows are frozen as the versions had them, and versions written afterwards leave them
\* alone; before there is a profile there is one punch at most.
WindowInv ==
  /\ AttTypeOK /\ instant >= FirstInstant
  /\ profiled => WellFormed(versions)
  /\ ~profiled => DOMAIN frozen = {} /\ Len(punches) <= 1
  /\ \A f \in DOMAIN frozen : frozen[f] = ResolvedWindow(versions, f)

DayInv == WindowInv /\ (\A r \in DOMAIN punches : PunchInv(r)) /\ OneOpen /\ RowsInv

LEMMA Today ==
  ASSUME WindowInv
  PROVE  /\ instant - zone \in Nat /\ LocalDate \in Nat
         /\ Start(LocalDate) <= instant - zone /\ instant - zone < Start(LocalDate) + DayLength
<1>1. instant \in Nat /\ zone \in Int /\ zone < DayLength /\ instant >= FirstInstant
  BY AttendanceAssumption DEF WindowInv, AttTypeOK
<1>2. FirstInstant = DayLength + DefaultBoundary /\ DefaultBoundary \in Nat /\ DayLength \in Nat \ {0}
  BY AttendanceAssumption DEF FirstInstant, FirstDay
<1>3. PICK x : x = instant - zone OBVIOUS
<1>4. x \in Nat BY <1>1, <1>2, <1>3
<1>5. x \div DayLength \in Nat /\ DayLength * (x \div DayLength) <= x
      /\ x < DayLength * (x \div DayLength) + DayLength
  BY <1>2, <1>4, Divides
<1>6. LocalDate = x \div DayLength BY <1>3 DEF LocalDate
<1>7. Start(LocalDate) = DayLength * (x \div DayLength) BY <1>2, <1>5, <1>6 DEF Start
<1> QED BY <1>3, <1>4, <1>5, <1>6, <1>7

\* One version, from the beginning.
LEMMA Baselines ==
  ASSUME NEW z \in Int, NEW vs, vs = [d \in {Baseline} |-> z]
  PROVE  WellFormed(vs)
<1>1. DOMAIN vs = {Baseline} /\ vs[Baseline] = z BY DEF Baseline
<1>2. Plain(vs) BY <1>1 DEF Plain, Baseline
<1> HIDE DEF Baseline
<1>3. ASSUME NEW d \in Dates PROVE Increasing(ResolvedWindow(vs, d))
  <2>1. d \in Nat \ {0} /\ d - 1 \in Nat BY DEF Dates
  <2>2. \A n \in Nat : Governing(vs, n) = z
    <3> SUFFICES ASSUME NEW n \in Nat PROVE Governing(vs, n) = z OBVIOUS
    <3>1. PICK m : m = Max({e \in DOMAIN vs : e <= n}) OBVIOUS
    <3>2. m \in DOMAIN vs BY <1>2, <3>1, LatestVersion
    <3> QED BY <1>1, <3>1, <3>2 DEF Governing
  <2>3. /\ ResolvedWindow(vs, d).from = Start(d) + Governing(vs, d - 1)
        /\ ResolvedWindow(vs, d).to = Start(d) + DayLength + Governing(vs, d)
    BY <1>2, <2>1, WindowFields
  <2>4. Governing(vs, d - 1) = z /\ Governing(vs, d) = z BY <2>1, <2>2
  <2>5. Start(d) \in Int /\ DayLength \in Nat \ {0} BY <2>1, Starts, AttendanceAssumption
  <2> QED BY <2>3, <2>4, <2>5 DEF Increasing
<1> QED BY <1>2, <1>3 DEF WellFormed, Plain

\* The versions a tenant goes by, and those it will have once it has a profile.
LEMMA LiveAndPrepared ==
  ASSUME WindowInv
  PROVE  /\ WellFormed(LiveVersions) /\ WellFormed(PreparedVersions)
         /\ \A d \in Dates : d <= LocalDate =>
              ResolvedWindow(PreparedVersions, d) = ResolvedWindow(LiveVersions, d)
         /\ profiled => LiveVersions = versions /\ PreparedVersions = versions
<1>1. CASE profiled
  <2>1. LiveVersions = versions /\ PreparedVersions = versions
    BY <1>1 DEF LiveVersions, PreparedVersions
  <2> QED BY <1>1, <2>1 DEF WindowInv
<1>2. CASE ~profiled
  <2>1. zone \in Int /\ DefaultBoundary \in Nat /\ DayLength \in Nat \ {0}
    BY AttendanceAssumption DEF WindowInv, AttTypeOK
  <2> DEFINE z == zone + (IF historic THEN 0 ELSE DefaultBoundary)
             live == LiveVersions
  <2>2. z \in Int BY <2>1
  <2>3. live = [d \in {Baseline} |-> z] BY <1>2 DEF LiveVersions
  <2>4. WellFormed(live) BY <2>2, <2>3, Baselines
  <2>5. CASE ~historic
    <3>1. PreparedVersions = live BY <2>5 DEF PreparedVersions
    <3> QED BY <1>2, <2>4, <3>1
  <2>6. CASE historic
    <3> DEFINE vs == PreparedVersions  t == LocalDate + 1
    <3>1. vs = Put(live, t, zone + DefaultBoundary) BY <1>2, <2>6 DEF PreparedVersions
    <3>2. t \in Nat \ {0} /\ LocalDate \in Nat BY Today
    <3>3. z = zone BY <2>1, <2>6
    <3> HIDE DEF live, vs, t, z
    <3>4. /\ DOMAIN vs = {Baseline, t} /\ vs[t] = zone + DefaultBoundary
          /\ t # Baseline /\ vs[Baseline] = z
      BY <2>3, <3>1, <3>2 DEF Put, Baseline
    <3>5. Plain(vs) /\ Plain(live) BY <2>1, <2>2, <2>4, <3>2, <3>4 DEF Plain, Baseline, WellFormed
    <3>6. DOMAIN live = {Baseline} /\ live[Baseline] = z BY <2>3
    <3>7. ASSUME NEW d \in Dates, d < t PROVE ResolvedWindow(vs, d) = ResolvedWindow(live, d)
      <4>1. d \in Nat \ {0} BY DEF Dates
      <4>2. ASSUME NEW e \in Nat, e <= d
            PROVE  (e \in DOMAIN vs <=> e \in DOMAIN live) /\ (e \in DOMAIN vs => vs[e] = live[e])
        <5>1. e # t BY <3>2, <3>7, <4>1, <4>2
        <5> QED BY <3>4, <3>6, <5>1
      <4> QED BY <3>5, <4>1, <4>2, WindowSame
    <3>8. ASSUME NEW d \in Dates PROVE Increasing(ResolvedWindow(vs, d))
      <4>1. d \in Nat \ {0} /\ d - 1 \in Nat BY DEF Dates
      <4>2. \A n \in Nat : Governing(vs, n) = IF n < t THEN z ELSE zone + DefaultBoundary
        <5> SUFFICES ASSUME NEW n \in Nat
                     PROVE  Governing(vs, n) = IF n < t THEN z ELSE zone + DefaultBoundary
          OBVIOUS
        <5>1. PICK m : m = Max({e \in DOMAIN vs : e <= n}) OBVIOUS
        <5>2. m \in DOMAIN vs /\ m <= n /\ \A e \in DOMAIN vs : e <= n => e <= m
          BY <3>5, <5>1, LatestVersion
        <5>3. Governing(vs, n) = vs[m] BY <5>1 DEF Governing
        <5>4. n < t => m = Baseline BY <3>2, <3>4, <5>2
        <5>5. n >= t => m = t
          <6>1. n >= t => t <= m BY <3>2, <3>4, <5>2
          <6> QED BY <3>2, <3>4, <5>2, <6>1 DEF Baseline
        <5> QED BY <3>2, <3>4, <5>3, <5>4, <5>5
      <4>3. /\ ResolvedWindow(vs, d).from = Start(d) + Governing(vs, d - 1)
            /\ ResolvedWindow(vs, d).to = Start(d) + DayLength + Governing(vs, d)
        BY <3>5, <4>1, WindowFields
      <4>4. Start(d) \in Int BY <4>1, Starts
      <4>5. Governing(vs, d - 1) <= Governing(vs, d) /\ Governing(vs, d) \in Int /\ Governing(vs, d - 1) \in Int
        BY <2>1, <3>2, <3>3, <4>1, <4>2
      <4> QED BY <2>1, <4>3, <4>4, <4>5 DEF Increasing
    <3>9. WellFormed(vs) BY <3>5, <3>8 DEF WellFormed, Plain
    <3>10. \A d \in Dates : d <= LocalDate => d < t BY <3>2 DEF t, Dates
    <3> QED BY <1>2, <2>4, <3>7, <3>9, <3>10 DEF live, vs
  <2> QED BY <2>5, <2>6
<1> QED BY <1>1, <1>2

\* Frozen or not, a day is where the versions put it.
LEMMA WindowsAgree ==
  ASSUME WindowInv, NEW d
  PROVE  /\ WindowOf(PreparedVersions, d) = ResolvedWindow(PreparedVersions, d)
         /\ WindowOf(LiveVersions, d) = ResolvedWindow(LiveVersions, d)
BY LiveAndPrepared DEF WindowInv, WindowOf

\* The current day holds the instant, whichever versions are asked.
LEMMA CurrentHolds ==
  ASSUME WindowInv, NEW d \in Dates, CurrentDay(d) \/ ResolvedDay(LiveVersions, d)
  PROVE  Holds(ResolvedWindow(PreparedVersions, d), instant)
<1>1. Holds(ResolvedWindow(LiveVersions, d), instant)
  <2>1. CASE d \in DOMAIN frozen /\ Holds(frozen[d], instant)
    <3>1. profiled /\ frozen[d] = ResolvedWindow(versions, d) BY <2>1 DEF WindowInv
    <3> QED BY <2>1, <3>1, LiveAndPrepared
  <2>2. CASE ResolvedDay(LiveVersions, d) BY <2>2 DEF ResolvedDay
  <2> QED BY <2>1, <2>2 DEF CurrentDay
<1>2. CASE profiled BY <1>1, <1>2, LiveAndPrepared
<1>3. CASE ~profiled /\ ~historic
  <2>1. PreparedVersions = LiveVersions BY <1>3 DEF PreparedVersions
  <2> QED BY <1>1, <2>1
<1>4. CASE ~profiled /\ historic
  <2> DEFINE live == LiveVersions
  <2>1. live = [e \in {Baseline} |-> zone] /\ zone \in Int
    <3>1. zone \in Int BY AttendanceAssumption DEF WindowInv, AttTypeOK
    <3> QED BY <1>4, <3>1 DEF LiveVersions
  <2>2. Plain(live) BY LiveAndPrepared DEF WellFormed, Plain
  <2>3. d \in Nat \ {0} /\ d - 1 \in Nat BY DEF Dates
  <2> HIDE DEF live
  <2>4. Governing(live, d - 1) = zone
    <3>1. PICK m : m = Max({e \in DOMAIN live : e <= d - 1}) OBVIOUS
    <3>2. m \in DOMAIN live BY <2>2, <2>3, <3>1, LatestVersion
    <3> QED BY <2>1, <3>1, <3>2 DEF Governing
  <2>5. ResolvedWindow(live, d).from = Start(d) + zone BY <2>2, <2>3, <2>4, WindowFields
  <2>6. Start(d) + zone <= instant BY <1>1, <2>5 DEF Holds, live
  <2>7. /\ LocalDate \in Nat /\ instant - zone < Start(LocalDate) + DayLength
        /\ Start(LocalDate + 1) = Start(LocalDate) + DayLength /\ Start(LocalDate) \in Int
    BY Today, Starts
  <2>8. d <= LocalDate
    <3> SUFFICES ASSUME ~(d <= LocalDate) PROVE FALSE OBVIOUS
    <3>1. LocalDate + 1 <= d /\ LocalDate + 1 \in Nat BY <2>3, <2>7
    <3>2. Start(LocalDate + 1) <= Start(d) BY <2>3, <3>1, StartsGrow
    <3>3. Start(d) \in Int /\ DayLength \in Nat /\ instant \in Nat
      BY <2>3, Starts, AttendanceAssumption DEF WindowInv, AttTypeOK
    <3> QED BY <2>1, <2>6, <2>7, <3>2, <3>3
  <2> QED BY <1>1, <2>8, LiveAndPrepared
<1> QED BY <1>2, <1>3, <1>4

\* ensure_window freezes days where the versions put them, and moves none.
LEMMA FreezesKeeps ==
  ASSUME WindowInv, NEW days \in SUBSET Dates, Freezes(days), UNCHANGED <<instant, zone, historic>>
  PROVE  /\ DOMAIN frozen' = DOMAIN frozen \cup days
         /\ \A f \in DOMAIN frozen : frozen'[f] = frozen[f]
         /\ \A f \in DOMAIN frozen' : /\ frozen'[f] = ResolvedWindow(PreparedVersions, f)
                                     /\ frozen'[f] = ResolvedWindow(versions, f)' /\ frozen'[f] \in Windows
         /\ DOMAIN frozen' \subseteq Dates /\ profiled' \in BOOLEAN
         /\ DOMAIN versions' \subseteq Nat /\ \A d \in DOMAIN versions' : versions'[d] \in Int
         /\ profiled' => WellFormed(versions)'
         /\ ~profiled' => ~profiled /\ days = {} /\ DOMAIN frozen' = {}
         /\ \A d : WindowOf(PreparedVersions, d)' = WindowOf(PreparedVersions, d)
<1>1. PICK vs : vs = PreparedVersions OBVIOUS
<1> DEFINE fresh == days \ DOMAIN frozen
<1>2. WellFormed(vs) /\ Plain(vs) BY <1>1, LiveAndPrepared DEF WellFormed, Plain
<1>3. \A d : WindowOf(PreparedVersions, d) = ResolvedWindow(vs, d) BY <1>1, WindowsAgree
<1>4. frozen' = [d \in DOMAIN frozen \cup fresh |-> ResolvedWindow(vs, d)]
  BY <1>3 DEF Freezes
<1>5. DOMAIN frozen \cup fresh = DOMAIN frozen \cup days OBVIOUS
<1>6. IF fresh = {} THEN profiled' = profiled /\ versions' = versions
      ELSE profiled' = TRUE /\ versions' = vs
  BY <1>1 DEF Freezes
<1> HIDE DEF fresh
<1>7. /\ DOMAIN frozen' = DOMAIN frozen \cup days
      /\ \A f \in DOMAIN frozen' : frozen'[f] = ResolvedWindow(vs, f)
  BY <1>4, <1>5
<1>8. \A f \in DOMAIN frozen : profiled /\ versions = vs /\ frozen[f] = ResolvedWindow(versions, f)
  BY <1>1, LiveAndPrepared DEF WindowInv
<1>9. DOMAIN frozen \subseteq Dates /\ days \subseteq Dates /\ Dates \subseteq Nat \ {0}
  BY DEF WindowInv, AttTypeOK, Dates
<1>10. fresh = {} => days \subseteq DOMAIN frozen BY DEF fresh
<1>11. \A f \in DOMAIN frozen' : versions' = vs
  <2> SUFFICES ASSUME NEW f \in DOMAIN frozen' PROVE versions' = vs OBVIOUS
  <2>1. CASE fresh = {} BY <1>6, <1>7, <1>8, <1>10, <2>1
  <2>2. CASE fresh # {} BY <1>6, <2>2
  <2> QED BY <2>1, <2>2
<1>12. PreparedVersions' = vs
  <2>1. CASE fresh = {}
    <3>1. UNCHANGED <<instant, zone, historic, profiled, versions>> BY <1>6, <2>1
    <3> QED BY <1>1, <3>1 DEF PreparedVersions, LiveVersions, LocalDate
  <2>2. CASE fresh # {} BY <1>6, <2>2 DEF PreparedVersions, LiveVersions
  <2> QED BY <2>1, <2>2
<1>13. \A d : WindowOf(PreparedVersions, d)' = ResolvedWindow(vs, d)
  BY <1>7, <1>12 DEF WindowOf, ResolvedWindow, Governing
<1>14. \A f \in DOMAIN frozen' : ResolvedWindow(versions, f)' = ResolvedWindow(vs, f)
  BY <1>11 DEF ResolvedWindow, Governing
<1>15. \A f \in DOMAIN frozen' : frozen'[f] \in Windows BY ZenonT(60), <1>2, <1>7, <1>9, WindowFields
<1>16. /\ profiled' \in BOOLEAN /\ DOMAIN versions' \subseteq Nat
       /\ \A d \in DOMAIN versions' : versions'[d] \in Int
  BY <1>2, <1>6 DEF WindowInv, AttTypeOK, Plain
<1>17. profiled' => WellFormed(versions)'
  <2> SUFFICES ASSUME profiled' PROVE WellFormed(versions)' OBVIOUS
  <2>1. versions' = vs
    <3>1. profiled => versions = vs BY <1>1, LiveAndPrepared
    <3> QED BY <1>6, <3>1
  <2> QED BY <1>2, <2>1 DEF WellFormed, ResolvedWindow, Governing, Increasing
<1>18. ~profiled' => ~profiled /\ days = {} /\ DOMAIN frozen' = {}
  <2> SUFFICES ASSUME ~profiled' PROVE ~profiled /\ days = {} /\ DOMAIN frozen' = {} OBVIOUS
  <2>1. fresh = {} /\ ~profiled BY <1>6
  <2>2. DOMAIN frozen = {} BY <2>1 DEF WindowInv
  <2> QED BY <1>7, <1>10, <2>1, <2>2
<1>19. \A f \in DOMAIN frozen : frozen'[f] = frozen[f] BY <1>7, <1>8
<1> QED BY <1>1, <1>3, <1>7, <1>9, <1>13, <1>14, <1>15, <1>16, <1>17, <1>18, <1>19

\* A row that is left alone, or given up without an end, stays in its day.
LEMMA RowStays ==
  ASSUME NEW r \in DOMAIN punches, PunchInv(r), instant \in Int, instant' \in Int, instant <= instant',
         punches[r].from \in Int,
         historic' = historic, \A f \in DOMAIN frozen : f \in DOMAIN frozen' /\ frozen'[f] = frozen[f],
         punches'[r] = punches[r] \/ punches'[r] = [punches[r] EXCEPT !.status = "INCOMPLETE"],
         punches[r] \in Punches
  PROVE  PunchInv(r)'
<1>1. PICK p \in Punches : p = punches[r] OBVIOUS
<1>2. PICK q : q = punches'[r] OBVIOUS
<1>3. /\ q.day = p.day /\ q.from = p.from /\ q.to = p.to /\ q.manual = p.manual
      /\ q.status = "OPEN" => p.status = "OPEN"
  BY <1>1, <1>2 DEF Punches
<1>4. Legacy(r)' <=> Legacy(r) BY <1>1, <1>2, <1>3 DEF Legacy
<1> QED BY <1>1, <1>2, <1>3, <1>4 DEF PunchInv

LEMMA RowTypes ==
  ASSUME AttTypeOK
  PROVE  /\ DOMAIN punches = 1..Len(punches) /\ Len(punches) \in Nat
         /\ \A r \in DOMAIN punches : punches[r] \in Punches /\ punches[r].from \in Int /\ punches[r].to \in Int
                                      /\ punches[r].who \in Staff /\ punches[r].day \in Dates
<1>1. punches \in Seq(Punches) BY DEF AttTypeOK
<1>2. \A r \in DOMAIN punches : punches[r] \in Punches BY <1>1
<1> QED BY <1>1, <1>2 DEF Punches

LEMMA RowInts ==
  ASSUME AttTypeOK
  PROVE  \A r \in DOMAIN punches : punches[r].from \in Int /\ punches[r].to \in Int
BY RowTypes

LEMMA SpanIsNat ==
  ASSUME AttTypeOK, NEW r \in DOMAIN punches, PunchInv(r)
  PROVE  Span(punches[r]) \in Nat
BY RowTypes DEF Span, PunchInv

LEMMA WorkedSame ==
  ASSUME NEW S, IsFiniteSet(S), S \subseteq DOMAIN punches, S \subseteq DOMAIN punches',
         \A r \in S : punches'[r].from = punches[r].from /\ punches'[r].to = punches[r].to
  PROVE  Worked(S)' = Worked(S)
<1> DEFINE f == [r \in DOMAIN punches |-> Span(punches[r])]
           g == [r \in DOMAIN punches' |-> Span(punches'[r])]
<1>1. \A r \in S : f[r] = g[r] BY DEF Span
<1> HIDE DEF f, g
<1>2. SumFunctionOnSet(f, S) = SumFunctionOnSet(g, S) BY <1>1, SumSame
<1> QED BY <1>2 DEF Worked, Span, f, g

LEMMA WorkedLess ==
  ASSUME AttTypeOK, \A r \in DOMAIN punches : PunchInv(r), NEW S \in SUBSET DOMAIN punches,
         NEW T \in SUBSET S
  PROVE  IsFiniteSet(S) /\ Worked(T) <= Worked(S) /\ Worked(T) \in Nat /\ Worked(S) \in Nat
<1> DEFINE f == [r \in DOMAIN punches |-> Span(punches[r])]
<1>1. IsFiniteSet(S) /\ IsFiniteSet(T)
  <2>1. DOMAIN punches = 1..Len(punches) /\ 1 \in Int /\ Len(punches) \in Int BY RowTypes
  <2>2. IsFiniteSet(DOMAIN punches) BY <2>1, FS_Interval
  <2> QED BY <2>2, FS_Subset
<1>2. \A r \in S : f[r] \in Nat BY SpanIsNat
<1> HIDE DEF f
<1>3. SumFunctionOnSet(f, T) <= SumFunctionOnSet(f, S) BY <1>1, <1>2, SumMonotone
<1>4. SumFunctionOnSet(f, T) \in Nat /\ SumFunctionOnSet(f, S) \in Nat BY <1>1, <1>2, SumNat
<1> QED BY <1>1, <1>3, <1>4 DEF Worked, f

LEMMA WorkedAdd ==
  ASSUME AttTypeOK', NEW S, IsFiniteSet(S), S \subseteq DOMAIN punches', NEW x \in DOMAIN punches', x \notin S
  PROVE  Worked(S \cup {x})' = Span(punches'[x]) + Worked(S)'
<1> DEFINE g == [r \in DOMAIN punches' |-> Span(punches'[r])]
<1>1. \A r \in DOMAIN punches' : punches'[r].from \in Int /\ punches'[r].to \in Int
  <2>1. (AttTypeOK => \A r \in DOMAIN punches : punches[r].from \in Int /\ punches[r].to \in Int)'
    BY RowInts, PTL
  <2> QED BY <2>1
<1>2. \A r \in S \cup {x} : g[r] \in Int BY <1>1 DEF Span
<1>3. g[x] = Span(punches'[x]) OBVIOUS
<1> HIDE DEF g
<1>4. SumFunctionOnSet(g, S \cup {x}) = g[x] + SumFunctionOnSet(g, S) BY <1>2, SumAdd
<1> QED BY <1>3, <1>4 DEF Worked, Span, g

\* The rows of the day of one row, when that row alone is written.
LEMMA OneRowChanges ==
  ASSUME AttTypeOK, \A r \in DOMAIN punches : PunchInv(r), RowsInv, AttTypeOK', NEW x \in DOMAIN punches',
         \A y \in DOMAIN punches' \ {x} :
           /\ y \in DOMAIN punches /\ punches'[y].who = punches[y].who /\ punches'[y].day = punches[y].day
           /\ punches'[y].from = punches[y].from /\ punches'[y].to = punches[y].to
           /\ punches'[y].manual = punches[y].manual,
         NEW p, p = punches'[x],
         Worked(DayRows(p.who, p.day) \ {x}) + Span(p) < DayLength,
         p.manual => \A y \in DayRows(p.who, p.day) \ {x} : ~Overlaps(p, punches[y])
  PROVE  RowsInv'
<1>1. ASSUME NEW e \in Staff, NEW d \in Dates PROVE (Worked(DayRows(e, d)) < DayLength)'
  <2>1. PICK R : R = DayRows(e, d)' OBVIOUS
  <2>2. PICK S : S = DayRows(e, d) OBVIOUS
  <2>3. R \subseteq DOMAIN punches' /\ S \subseteq DOMAIN punches /\ R \ {x} \subseteq S \ {x}
    BY <2>1, <2>2 DEF DayRows
  <2>4. Worked(DayRows(e, d))' = Worked(R)' BY <2>1 DEF Worked
  <2>5. /\ IsFiniteSet(S) /\ Worked(R \ {x}) <= Worked(S \ {x}) /\ Worked(S \ {x}) <= Worked(S)
        /\ Worked(R \ {x}) \in Nat /\ Worked(S \ {x}) \in Nat /\ Worked(S) \in Nat
    BY <2>3, WorkedLess
  <2>6. IsFiniteSet(R \ {x}) BY <2>3, <2>5, FS_Subset
  <2>7. \A T : T = R \ {x} => Worked(T)' = Worked(R \ {x})
    <3> SUFFICES ASSUME NEW T, T = R \ {x} PROVE Worked(T)' = Worked(T) OBVIOUS
    <3> QED BY <2>3, <2>6, WorkedSame
  <2>8. Worked(S) < DayLength /\ DayLength \in Nat BY <2>2, AttendanceAssumption DEF RowsInv
  <2>9. CASE x \notin R
    <3>1. PICK T : T = R \ {x} OBVIOUS
    <3>2. T = R BY <2>9, <3>1
    <3>3. Worked(R)' = Worked(T)' /\ Worked(T) = Worked(R \ {x}) BY <3>1, <3>2
    <3>4. Worked(T)' = Worked(R \ {x}) BY <2>7, <3>1
    <3>5. Worked(R)' < DayLength BY <2>5, <2>8, <3>3, <3>4
    <3> QED BY <2>4, <3>5
  <2>10. CASE x \in R
    <3>1. p.who = e /\ p.day = d BY <2>1, <2>10 DEF DayRows
    <3>2. Worked(S \ {x}) + Span(p) < DayLength BY <2>2, <3>1
    <3>3. PICK T : T = R \ {x} OBVIOUS
    <3>4. T \cup {x} = R /\ x \notin T /\ T \subseteq DOMAIN punches' BY <2>3, <2>10, <3>3
    <3>5. Worked(T \cup {x})' = Span(punches'[x]) + Worked(T)' BY <2>6, <3>3, <3>4, WorkedAdd
    <3>6. Span(p) \in Int
      <4>1. (AttTypeOK => \A r \in DOMAIN punches : punches[r].from \in Int /\ punches[r].to \in Int)'
        BY RowInts, PTL
      <4> QED BY <4>1 DEF Span
    <3>7. Worked(T)' = Worked(R \ {x}) BY <2>7, <3>3
    <3>8. Worked(R)' = Worked(T \cup {x})' BY <3>4
    <3>9. Worked(R)' < DayLength BY <2>5, <2>8, <3>2, <3>5, <3>6, <3>7, <3>8
    <3> QED BY <2>4, <3>9
  <2> QED BY <2>9, <2>10
<1>2. ASSUME NEW r \in DOMAIN punches', NEW q \in DOMAIN punches', r # q,
             punches'[r].manual, punches'[q].manual, punches'[r].who = punches'[q].who,
             punches'[r].day = punches'[q].day
      PROVE  ~Overlaps(punches'[r], punches'[q])
  <2>1. CASE r # x /\ q # x
    <3>1. ~Overlaps(punches[r], punches[q]) BY <1>2, <2>1 DEF RowsInv
    <3> QED BY <2>1, <3>1 DEF Overlaps
  <2>2. CASE r = x
    <3>1. q \in DayRows(p.who, p.day) \ {x} BY <1>2, <2>2 DEF DayRows
    <3>2. ~Overlaps(p, punches[q]) BY <1>2, <2>2, <3>1
    <3> QED BY <1>2, <2>2, <3>2 DEF Overlaps
  <2>3. CASE q = x
    <3>1. r \in DayRows(p.who, p.day) \ {x} BY <1>2, <2>3 DEF DayRows
    <3>2. ~Overlaps(p, punches[r]) BY <1>2, <2>3, <3>1
    <3> QED BY <1>2, <2>3, <3>2 DEF Overlaps
  <2> QED BY <2>1, <2>2, <2>3
<1> QED BY <1>1, <1>2 DEF RowsInv

LEMMA WindowsAfterFreeze ==
  ASSUME WindowInv, NEW days \in SUBSET Dates, Freezes(days), UNCHANGED <<instant, zone, historic>>,
         sweepList' \in Seq(Staff), failures' \in 0..MaxFailures,
         punches' \in Seq(Punches), Len(punches') <= MaxPunches,
         days # {} \/ Len(punches') = Len(punches)
  PROVE  WindowInv'
<1>1. /\ DOMAIN frozen' = DOMAIN frozen \cup days
      /\ \A f \in DOMAIN frozen' : /\ frozen'[f] = ResolvedWindow(versions, f)' /\ frozen'[f] \in Windows
      /\ DOMAIN frozen' \subseteq Dates /\ profiled' \in BOOLEAN
      /\ DOMAIN versions' \subseteq Nat /\ \A d \in DOMAIN versions' : versions'[d] \in Int
      /\ profiled' => WellFormed(versions)'
      /\ ~profiled' => ~profiled /\ days = {} /\ DOMAIN frozen' = {}
  BY FreezesKeeps
<1>2. AttTypeOK' BY <1>1 DEF WindowInv, AttTypeOK
<1>3. ~profiled' => Len(punches') <= 1 BY <1>1 DEF WindowInv
<1> QED BY <1>1, <1>2, <1>3 DEF WindowInv

LEMMA ExpiredRows ==
  ASSUME AttTypeOK, NEW e
  PROVE  /\ Expired(e) \in Seq(Punches) /\ Len(Expired(e)) = Len(punches)
         /\ DOMAIN Expired(e) = DOMAIN punches
         /\ \A r \in DOMAIN punches :
              /\ Expired(e)[r] = IF r \in MissedBy(e) THEN [punches[r] EXCEPT !.status = "INCOMPLETE"]
                                 ELSE punches[r]
              /\ r \in MissedBy(e) => Expired(e)[r].status = "INCOMPLETE"
         /\ DaysMissedBy(e) \in SUBSET Dates
<1>1. /\ DOMAIN punches = 1..Len(punches) /\ Len(punches) \in Nat
      /\ \A r \in DOMAIN punches : punches[r] \in Punches /\ punches[r].day \in Dates
  BY RowTypes
<1>2. \A p \in Punches : /\ [p EXCEPT !.status = "INCOMPLETE"] \in Punches
                         /\ [p EXCEPT !.status = "INCOMPLETE"].status = "INCOMPLETE"
  BY DEF Punches
<1>3. \A r \in DOMAIN punches :
        Expired(e)[r] = IF r \in MissedBy(e) THEN [punches[r] EXCEPT !.status = "INCOMPLETE"]
                        ELSE punches[r]
  BY DEF Expired
<1>4. \A r \in DOMAIN punches : Expired(e)[r] \in Punches
                               /\ (r \in MissedBy(e) => Expired(e)[r].status = "INCOMPLETE")
  BY <1>1, <1>2, <1>3
<1>5. Expired(e) = [r \in 1..Len(punches) |-> Expired(e)[r]] BY <1>1 DEF Expired
<1>6. Expired(e) \in Seq(Punches) /\ Len(Expired(e)) = Len(punches) /\ DOMAIN Expired(e) = DOMAIN punches
  BY <1>1, <1>4, <1>5
<1>7. DaysMissedBy(e) \in SUBSET Dates BY <1>1 DEF DaysMissedBy, MissedBy
<1> QED BY <1>3, <1>4, <1>6, <1>7

\* A punch is not opened ahead of its day.
LEMMA OpenNotLater ==
  ASSUME DayInv, NEW d \in Dates, CurrentDay(d) \/ ResolvedDay(LiveVersions, d),
         NEW r \in OpenPunches
  PROVE  punches[r].day \in Dates /\ punches[r].day <= d
<1>1. WindowInv /\ AttTypeOK /\ PunchInv(r) /\ r \in DOMAIN punches /\ punches[r].status = "OPEN"
  BY DEF DayInv, WindowInv, OpenPunches
<1>2. PICK D \in Dates : D = punches[r].day BY <1>1, RowTypes
<1>3. PICK vs : vs = PreparedVersions OBVIOUS
<1>4. WellFormed(vs) /\ (profiled => vs = versions) BY <1>1, <1>3, LiveAndPrepared
<1>5. Holds(ResolvedWindow(vs, d), instant) BY <1>1, <1>3, CurrentHolds
<1>6. \A n \in Dates : ResolvedWindow(vs, n).from \in Int /\ ResolvedWindow(vs, n).to \in Int
  BY <1>4, WindowInts
<1>7. instant \in Nat /\ punches[r].from \in Int BY <1>1, RowTypes DEF AttTypeOK
<1>8. d \in Int /\ D \in Int /\ d >= 1 BY DEF Dates
<1>9. CASE d < D
  <2>1. ~Legacy(r) BY <1>2, <1>8, <1>9 DEF Legacy, FirstDay
  <2>2. D \in DOMAIN frozen /\ frozen[D].from <= punches[r].from /\ punches[r].from <= instant
    BY <1>1, <1>2, <2>1 DEF PunchInv
  <2>3. frozen[D] = ResolvedWindow(vs, D) BY <1>1, <1>4, <2>2 DEF WindowInv
  <2>4. ResolvedWindow(vs, d).to <= ResolvedWindow(vs, D).from BY <1>4, <1>9, WindowsApart
  <2> QED BY <1>5, <1>6, <1>7, <2>2, <2>3, <2>4 DEF Holds
<1> QED BY <1>2, <1>8, <1>9

\* Who is at work is at work today.
LEMMA OpenToday ==
  ASSUME DayInv, NEW d \in Dates, CurrentDay(d) \/ ResolvedDay(LiveVersions, d),
         NEW r \in OpenPunches, ~Missed(r)
  PROVE  punches[r].day = d
<1>1. WindowInv BY DEF DayInv
<1>2. PICK D \in Dates : D = punches[r].day /\ D <= d BY OpenNotLater
<1>3. PICK vs : vs = PreparedVersions OBVIOUS
<1>4. WellFormed(vs) BY <1>1, <1>3, LiveAndPrepared
<1>5. Holds(ResolvedWindow(vs, d), instant) BY <1>1, <1>3, CurrentHolds
<1>6. \A n \in Dates : ResolvedWindow(vs, n).from \in Int /\ ResolvedWindow(vs, n).to \in Int
  BY <1>4, WindowInts
<1>7. instant \in Nat BY <1>1 DEF WindowInv, AttTypeOK
<1>8. CASE D < d
  <2>1. ResolvedWindow(vs, D).to <= ResolvedWindow(vs, d).from BY <1>4, <1>8, WindowsApart
  <2>2. instant >= ResolvedWindow(vs, D).to BY <1>5, <1>6, <1>7, <2>1 DEF Holds
  <2>3. WindowOf(PreparedVersions, punches[r].day) = ResolvedWindow(vs, D)
    BY <1>1, <1>2, <1>3, WindowsAgree
  <2> QED BY <2>2, <2>3 DEF Missed
<1> QED BY <1>2, <1>8 DEF Dates

LEMMA StillMissed ==
  ASSUME \A d : WindowOf(PreparedVersions, d)' = WindowOf(PreparedVersions, d), instant' = instant,
         NEW r \in DOMAIN punches, r \in OpenPunches', ~Missed(r)', punches'[r].day = punches[r].day,
         punches'[r].status = "OPEN" => punches[r].status = "OPEN"
  PROVE  r \in OpenPunches /\ ~Missed(r)
<1>1. r \in OpenPunches BY DEF OpenPunches
<1>2. PICK d : d = punches[r].day OBVIOUS
<1>3. WindowOf(PreparedVersions, punches[r].day)' = WindowOf(PreparedVersions, d)'
  BY <1>2 DEF WindowOf, ResolvedWindow, Governing
<1>4. WindowOf(PreparedVersions, d)' = WindowOf(PreparedVersions, d) OBVIOUS
<1> QED BY <1>1, <1>2, <1>3, <1>4 DEF Missed

\* No punch is opened: who is at work was before.
LEMMA OneOpenStays ==
  ASSUME OneOpen, \A d : WindowOf(PreparedVersions, d)' = WindowOf(PreparedVersions, d),
         instant' = instant,
         \A r \in OpenPunches' : /\ r \in DOMAIN punches /\ punches[r].status = "OPEN"
                                 /\ punches'[r].day = punches[r].day /\ punches'[r].who = punches[r].who
  PROVE  OneOpen'
<1> SUFFICES ASSUME NEW r \in OpenPunches', NEW q \in OpenPunches', punches'[r].who = punches'[q].who,
                    ~Missed(r)', ~Missed(q)'
             PROVE  r = q
  BY DEF OneOpen
<1>1. r \in OpenPunches /\ ~Missed(r) BY StillMissed
<1>2. q \in OpenPunches /\ ~Missed(q) BY StillMissed
<1> QED BY <1>1, <1>2 DEF OneOpen

LEMMA PunchInKeeps ==
  ASSUME DayInv, NEW e \in Staff, PunchIn(e)
  PROVE  DayInv'
<1>1. WindowInv /\ AttTypeOK /\ OneOpen /\ RowsInv /\ \A r \in DOMAIN punches : PunchInv(r)
  BY DEF DayInv, WindowInv
<1> DEFINE new(d) == [who |-> e, day |-> d, from |-> instant, to |-> Still, status |-> "OPEN",
                      manual |-> FALSE]
<1>2. PICK d \in Dates :
        /\ CurrentDay(d) /\ Freezes({d} \cup DaysMissedBy(e))
        /\ \A r \in OpenPunches : punches[r].who = e /\ punches[r].day = d => Missed(r)
        /\ Len(punches) < MaxPunches /\ punches' = Append(Expired(e), new(d))
        /\ UNCHANGED <<instant, zone, historic, sweepList, failures>>
  BY DEF PunchIn
<1>3. PICK p : p = new(d) OBVIOUS
<1>4. instant \in Nat BY <1>1 DEF AttTypeOK
<1>5. /\ p \in Punches /\ p.who = e /\ p.day = d /\ p.from = instant /\ p.to = Still
      /\ p.status = "OPEN" /\ p.manual = FALSE
  BY <1>3, <1>4 DEF Punches, Still
<1> HIDE DEF new
<1>6. PICK n \in Nat : n = Len(punches) BY <1>1, RowTypes
<1>7. DOMAIN punches = 1..n BY <1>1, <1>6, RowTypes
<1>8. /\ punches' \in Seq(Punches) /\ Len(punches') = n + 1 /\ DOMAIN punches' = 1..(n + 1)
      /\ punches'[n + 1] = p /\ \A r \in 1..n : punches'[r] = Expired(e)[r]
  BY <1>1, <1>2, <1>3, <1>5, <1>6, <1>7, ExpiredRows
<1>9. \A r \in 1..n :
        /\ punches'[r] = punches[r] \/ punches'[r] = [punches[r] EXCEPT !.status = "INCOMPLETE"]
        /\ punches'[r].status = "OPEN" => r \notin MissedBy(e) /\ punches'[r] = punches[r]
  BY <1>1, <1>7, <1>8, ExpiredRows
<1>10. \A r \in 1..n : punches[r] \in Punches /\ punches[r].from \in Int BY <1>1, <1>7, RowTypes
<1>11. \A r \in 1..n : /\ punches'[r].who = punches[r].who /\ punches'[r].day = punches[r].day
                       /\ punches'[r].from = punches[r].from /\ punches'[r].to = punches[r].to
                       /\ punches'[r].manual = punches[r].manual
  BY ZenonT(60), <1>9, <1>10 DEF Punches
<1>12. PICK days \in SUBSET Dates : days = {d} \cup DaysMissedBy(e) BY <1>1, ExpiredRows
<1>13. /\ DOMAIN frozen' = DOMAIN frozen \cup days /\ \A f \in DOMAIN frozen : frozen'[f] = frozen[f]
       /\ \A f \in DOMAIN frozen' : frozen'[f] = ResolvedWindow(PreparedVersions, f)
       /\ \A x : WindowOf(PreparedVersions, x)' = WindowOf(PreparedVersions, x)
  BY <1>1, <1>2, <1>12, FreezesKeeps
<1>14. WindowInv'
  <2>1. /\ sweepList' \in Seq(Staff) /\ failures' \in 0..MaxFailures /\ Len(punches') <= MaxPunches
    BY <1>1, <1>2, <1>6, <1>8, AttendanceAssumption DEF AttTypeOK
  <2> QED BY <1>1, <1>2, <1>8, <1>12, <2>1, WindowsAfterFreeze
<1>15. ASSUME NEW r \in DOMAIN punches' PROVE PunchInv(r)'
  <2>1. CASE r \in 1..n
    <3>1. instant \in Int /\ instant' \in Int /\ instant <= instant' /\ historic' = historic
      BY <1>2, <1>4
    <3>2. \A f \in DOMAIN frozen : f \in DOMAIN frozen' /\ frozen'[f] = frozen[f] BY <1>13
    <3>3. r \in DOMAIN punches /\ PunchInv(r) BY <1>1, <1>7, <2>1
    <3> QED BY <1>9, <1>10, <2>1, <3>1, <3>2, <3>3, RowStays
  <2>2. CASE r = n + 1
    <3>1. d \in DOMAIN frozen' /\ frozen'[d] = ResolvedWindow(PreparedVersions, d) BY <1>12, <1>13
    <3>2. frozen'[d].from <= instant BY <1>1, <1>2, <3>1, CurrentHolds DEF Holds
    <3> QED BY <1>2, <1>4, <1>5, <1>8, <2>2, <3>1, <3>2 DEF PunchInv
  <2> QED BY <1>8, <2>1, <2>2
<1>16. OneOpen'
  <2>1. ASSUME NEW r \in 1..n, punches'[r].who = e, r \in OpenPunches', ~Missed(r)' PROVE FALSE
    <3>1. r \in OpenPunches /\ ~Missed(r)
      BY <1>2, <1>7, <1>9, <1>11, <1>13, <2>1, StillMissed DEF OpenPunches
    <3>2. punches[r].day = d BY <1>2, <3>1, OpenToday
    <3> QED BY <1>2, <1>11, <2>1, <3>1, <3>2
  <2> SUFFICES ASSUME NEW r \in OpenPunches', NEW q \in OpenPunches', punches'[r].who = punches'[q].who,
                      ~Missed(r)', ~Missed(q)'
               PROVE  r = q
    BY DEF OneOpen
  <2>2. r \in 1..(n + 1) /\ q \in 1..(n + 1) BY <1>8 DEF OpenPunches
  <2>3. CASE r \in 1..n /\ q \in 1..n
    <3>1. r \in OpenPunches /\ ~Missed(r) /\ q \in OpenPunches /\ ~Missed(q)
      BY <1>2, <1>7, <1>9, <1>11, <1>13, <2>3, StillMissed DEF OpenPunches
    <3> QED BY <1>1, <1>11, <2>3, <3>1 DEF OneOpen
  <2>4. CASE r = n + 1 /\ q \in 1..n BY <1>5, <1>8, <2>1, <2>4
  <2>5. CASE r \in 1..n /\ q = n + 1 BY <1>5, <1>8, <2>1, <2>5
  <2> QED BY <2>2, <2>3, <2>4, <2>5
<1>17. RowsInv'
  <2>1. DayRows(e, d) \ {n + 1} = DayRows(e, d) BY <1>7 DEF DayRows
  <2>2. Worked(DayRows(e, d)) \in Nat
    <3>1. DayRows(e, d) \in SUBSET DOMAIN punches BY DEF DayRows
    <3> QED BY <1>1, <3>1, WorkedLess
  <2>3. Worked(DayRows(e, d)) < DayLength BY <1>1 DEF RowsInv
  <2>4. Span(p) = 0 BY <1>5 DEF Span
  <2>5. Worked(DayRows(p.who, p.day) \ {n + 1}) + Span(p) < DayLength
    BY <1>5, <2>1, <2>2, <2>3, <2>4
  <2>6. n + 1 \in DOMAIN punches' /\ DOMAIN punches' \ {n + 1} = 1..n BY <1>8
  <2>7. AttTypeOK' BY <1>14 DEF WindowInv
  <2> QED BY <1>1, <1>5, <1>7, <1>8, <1>11, <2>5, <2>6, <2>7, OneRowChanges
<1> QED BY <1>14, <1>15, <1>16, <1>17 DEF DayInv

LEMMA PunchOutKeeps ==
  ASSUME DayInv, NEW e \in Staff, NEW r \in DOMAIN punches, PunchOut(e, r)
  PROVE  DayInv'
<1>1. WindowInv /\ AttTypeOK /\ OneOpen /\ RowsInv /\ \A q \in DOMAIN punches : PunchInv(q)
  BY DEF DayInv, WindowInv
<1>2. PICK d \in Dates : d = punches[r].day BY <1>1, RowTypes
<1>3. /\ r \in OpenPunches /\ punches[r].who = e /\ ~Missed(r) /\ CurrentDay(d)
      /\ Freezes({d} \cup DaysMissedBy(e))
      /\ Worked(DayRows(e, d) \ {r}) + (instant - punches[r].from) < DayLength
      /\ punches' = [Expired(e) EXCEPT ![r].to = instant, ![r].status = "COMPLETE"]
      /\ UNCHANGED <<instant, zone, historic, sweepList, failures>>
  BY <1>2 DEF PunchOut
<1>4. instant \in Nat /\ instant # Still
  <2>1. FirstInstant = DayLength + DefaultBoundary /\ DefaultBoundary \in Nat /\ DayLength \in Nat \ {0}
    BY AttendanceAssumption DEF FirstInstant, FirstDay
  <2> QED BY <1>1, <2>1 DEF WindowInv, AttTypeOK, Still
<1>5. PICK n \in Nat : n = Len(punches) BY <1>1, RowTypes
<1>6. DOMAIN punches = 1..n /\ r \in 1..n BY <1>1, <1>5, RowTypes
<1>7. \A q \in 1..n : punches[q] \in Punches /\ punches[q].from \in Int BY <1>1, <1>6, RowTypes
<1>8. r \notin MissedBy(e) BY <1>3 DEF MissedBy
<1>9. Expired(e) \in Seq(Punches) /\ DOMAIN Expired(e) = 1..n /\ Expired(e)[r] = punches[r] /\ Len(Expired(e)) = n
  BY <1>1, <1>5, <1>6, <1>8, ExpiredRows
<1>10. PICK o \in Punches : o = punches[r] BY <1>6, <1>7
<1>11. PICK p : p = [o EXCEPT !.to = instant, !.status = "COMPLETE"] OBVIOUS
<1>12. /\ p \in Punches /\ p.who = e /\ p.day = d /\ p.from = punches[r].from /\ p.to = instant
       /\ p.status = "COMPLETE" /\ p.manual = punches[r].manual
  <2>1. instant \in Int BY <1>4
  <2>2. /\ p \in Punches /\ p.who = o.who /\ p.day = o.day /\ p.from = o.from /\ p.to = instant
        /\ p.status = "COMPLETE" /\ p.manual = o.manual
    BY <1>10, <1>11, <2>1 DEF Punches
  <2> QED BY <1>2, <1>3, <1>10, <2>2
<1>13. punches' = [Expired(e) EXCEPT ![r] = p] BY <1>3, <1>9, <1>10, <1>11
<1>14. /\ punches' \in Seq(Punches) /\ Len(punches') = n /\ DOMAIN punches' = 1..n
       /\ punches'[r] = p /\ \A q \in 1..n : q # r => punches'[q] = Expired(e)[q]
  BY <1>6, <1>9, <1>12, <1>13
<1>15. \A q \in 1..n : q # r =>
         /\ punches'[q] = punches[q] \/ punches'[q] = [punches[q] EXCEPT !.status = "INCOMPLETE"]
         /\ punches'[q].status = "OPEN" => punches'[q] = punches[q]
  BY ZenonT(60), <1>1, <1>6, <1>14, ExpiredRows
<1>16. \A q \in 1..n : q # r => /\ punches'[q].who = punches[q].who /\ punches'[q].day = punches[q].day
                               /\ punches'[q].from = punches[q].from /\ punches'[q].to = punches[q].to
                               /\ punches'[q].manual = punches[q].manual
  BY ZenonT(60), <1>7, <1>15 DEF Punches
<1>17. PICK days \in SUBSET Dates : days = {d} \cup DaysMissedBy(e) BY <1>1, ExpiredRows
<1>18. /\ DOMAIN frozen' = DOMAIN frozen \cup days /\ \A f \in DOMAIN frozen : frozen'[f] = frozen[f]
       /\ \A f \in DOMAIN frozen' : frozen'[f] = ResolvedWindow(PreparedVersions, f)
       /\ \A x : WindowOf(PreparedVersions, x)' = WindowOf(PreparedVersions, x)
  BY <1>1, <1>3, <1>17, FreezesKeeps
<1>19. WindowInv'
  <2>1. sweepList' \in Seq(Staff) /\ failures' \in 0..MaxFailures /\ Len(punches') <= MaxPunches
    BY <1>1, <1>3, <1>5, <1>14 DEF AttTypeOK
  <2> QED BY <1>1, <1>3, <1>14, <1>17, <2>1, WindowsAfterFreeze
<1>20. punches[r].status = "OPEN" /\ punches[r].from <= instant /\ ~punches[r].manual
  BY <1>1, <1>3, <1>6 DEF OpenPunches, PunchInv
<1>21. ASSUME NEW q \in DOMAIN punches' PROVE PunchInv(q)'
  <2>1. CASE q # r
    <3>1. instant \in Int /\ instant' \in Int /\ instant <= instant' /\ historic' = historic
      BY <1>3, <1>4
    <3>2. \A f \in DOMAIN frozen : f \in DOMAIN frozen' /\ frozen'[f] = frozen[f] BY <1>18
    <3>3. q \in DOMAIN punches /\ q \in 1..n /\ PunchInv(q) BY <1>1, <1>6, <1>14
    <3> QED BY <1>7, <1>15, <2>1, <3>1, <3>2, <3>3, RowStays
  <2>2. CASE q = r
    <3>1. d \in DOMAIN frozen' /\ frozen'[d] = ResolvedWindow(PreparedVersions, d) BY <1>17, <1>18
    <3>2. instant <= frozen'[d].to
      <4>1. Holds(ResolvedWindow(PreparedVersions, d), instant) BY <1>1, <1>3, CurrentHolds
      <4>2. frozen'[d] \in Windows BY <1>1, <1>3, <1>17, <3>1, FreezesKeeps
      <4> QED BY <1>4, <3>1, <4>1, <4>2 DEF Holds, Windows
    <3>3. frozen'[d].from <= p.from \/ Legacy(r)
      BY <1>1, <1>2, <1>6, <1>12, <1>18 DEF PunchInv
    <3>4. Legacy(r) => Legacy(r)' BY <1>2, <1>3, <1>12, <1>14 DEF Legacy
    <3> QED BY <1>3, <1>12, <1>14, <1>20, <2>2, <3>1, <3>2, <3>3, <3>4 DEF PunchInv
  <2> QED BY <2>1, <2>2
<1>22. OneOpen'
  <2>1. ASSUME NEW q \in OpenPunches'
        PROVE  /\ q \in DOMAIN punches /\ punches[q].status = "OPEN"
               /\ punches'[q].day = punches[q].day /\ punches'[q].who = punches[q].who
    <3>1. q \in 1..n /\ punches'[q].status = "OPEN" BY <1>14 DEF OpenPunches
    <3>2. q # r BY <1>12, <1>14, <3>1
    <3> QED BY <1>6, <1>15, <1>16, <3>1, <3>2
  <2> QED BY <1>1, <1>3, <1>18, <2>1, OneOpenStays
<1>23. RowsInv'
  <2>1. Span(p) = instant - punches[r].from BY <1>4, <1>12 DEF Span
  <2>2. Worked(DayRows(p.who, p.day) \ {r}) + Span(p) < DayLength BY <1>3, <1>12, <2>1
  <2>3. AttTypeOK' BY <1>19 DEF WindowInv
  <2>4. ~p.manual BY <1>12, <1>20
  <2> QED BY <1>1, <1>6, <1>14, <1>16, <2>2, <2>3, <2>4, OneRowChanges
<1> QED BY <1>19, <1>21, <1>22, <1>23 DEF DayInv

\* The segments that may be asked for lie in their day.
LEMMA SegmentsFit ==
  ASSUME WindowInv, NEW e \in Staff, NEW d \in Dates, NEW p \in Segments(e, d)
  PROVE  /\ p \in Punches /\ p.who = e /\ p.day = d /\ p.status = "COMPLETE" /\ p.manual
         /\ p.from < p.to /\ p.from \in Int /\ p.to \in Int
         /\ ResolvedWindow(PreparedVersions, d).from <= p.from
         /\ p.to <= ResolvedWindow(PreparedVersions, d).to
<1>1. PICK w : w = WindowOf(PreparedVersions, d) OBVIOUS
<1>2. w = ResolvedWindow(PreparedVersions, d) BY <1>1, WindowsAgree
<1>3. w.from \in Int /\ w.to \in Int
  <2>1. Plain(PreparedVersions) BY LiveAndPrepared DEF WellFormed, Plain
  <2>2. d \in Nat \ {0} BY DEF Dates
  <2>3. w \in Windows BY <1>2, <2>1, <2>2, WindowFields
  <2> QED BY <2>3 DEF Windows
<1>4. PICK a \in w.from..w.to, b \in w.from..w.to :
        a < b /\ p = [who |-> e, day |-> d, from |-> a, to |-> b, status |-> "COMPLETE", manual |-> TRUE]
  BY <1>1 DEF Segments
<1>5. a \in Int /\ b \in Int BY <1>3
<1>6. /\ p \in Punches /\ p.who = e /\ p.day = d /\ p.status = "COMPLETE" /\ p.manual
      /\ p.from = a /\ p.to = b
  BY <1>4, <1>5 DEF Punches
<1> QED BY <1>2, <1>3, <1>4, <1>5, <1>6

\* A corrected row is where its day is.
LEMMA CorrectedRow ==
  ASSUME NEW x \in DOMAIN punches', NEW p, punches'[x] = p, p.status = "COMPLETE", p.day \in DOMAIN frozen',
         p.from < p.to, p.from \in Int, p.to \in Int,
         frozen'[p.day].from <= p.from, p.to <= frozen'[p.day].to
  PROVE  PunchInv(x)'
BY DEF PunchInv

LEMMA AddSegmentKeeps ==
  ASSUME DayInv, NEW e \in Staff, NEW d \in Dates, NEW p \in Segments(e, d), AddSegment(p)
  PROVE  DayInv'
<1>1. WindowInv /\ AttTypeOK /\ OneOpen /\ RowsInv /\ \A q \in DOMAIN punches : PunchInv(q)
  BY DEF DayInv, WindowInv
<1>2. /\ p \in Punches /\ p.who = e /\ p.day = d /\ p.status = "COMPLETE" /\ p.manual
      /\ p.from < p.to /\ p.from \in Int /\ p.to \in Int
      /\ ResolvedWindow(PreparedVersions, d).from <= p.from
      /\ p.to <= ResolvedWindow(PreparedVersions, d).to
  BY <1>1, SegmentsFit
<1>3. PICK days \in SUBSET Dates : days = {d} BY ZenonT(60)
<1>4. /\ Len(punches) < MaxPunches /\ FitsAmong(p, DayRows(e, d)) /\ Freezes(days)
      /\ punches' = Append(punches, p)
      /\ UNCHANGED <<instant, zone, historic, sweepList, failures>>
  BY <1>2, <1>3 DEF AddSegment
<1>5. PICK n \in Nat : n = Len(punches) BY <1>1, RowTypes
<1>6. DOMAIN punches = 1..n BY <1>1, <1>5, RowTypes
<1>7. /\ punches' \in Seq(Punches) /\ Len(punches') = n + 1 /\ DOMAIN punches' = 1..(n + 1)
      /\ punches'[n + 1] = p /\ \A q \in 1..n : punches'[q] = punches[q]
  BY <1>1, <1>2, <1>4, <1>5, <1>6 DEF AttTypeOK
<1>8. /\ DOMAIN frozen' = DOMAIN frozen \cup days /\ \A f \in DOMAIN frozen : frozen'[f] = frozen[f]
      /\ \A f \in DOMAIN frozen' : frozen'[f] = ResolvedWindow(PreparedVersions, f)
      /\ \A x : WindowOf(PreparedVersions, x)' = WindowOf(PreparedVersions, x)
  BY <1>1, <1>4, FreezesKeeps
<1>9. WindowInv'
  <2>1. sweepList' \in Seq(Staff) /\ failures' \in 0..MaxFailures /\ Len(punches') <= MaxPunches
    BY <1>1, <1>4, <1>5, <1>7, AttendanceAssumption DEF AttTypeOK
  <2> QED BY <1>1, <1>3, <1>4, <1>7, <2>1, WindowsAfterFreeze
<1>10. ASSUME NEW q \in DOMAIN punches' PROVE PunchInv(q)'
  <2>1. CASE q \in 1..n
    <3>1. instant \in Int /\ instant' \in Int /\ instant <= instant' /\ historic' = historic
      BY <1>1, <1>4 DEF AttTypeOK
    <3>2. \A f \in DOMAIN frozen : f \in DOMAIN frozen' /\ frozen'[f] = frozen[f] BY <1>8
    <3>3. q \in DOMAIN punches /\ PunchInv(q) /\ punches[q] \in Punches /\ punches[q].from \in Int
      BY <1>1, <1>6, <2>1, RowTypes
    <3> QED BY <1>7, <2>1, <3>1, <3>2, <3>3, RowStays
  <2>2. CASE q = n + 1
    <3>1. d \in DOMAIN frozen' /\ frozen'[d] = ResolvedWindow(PreparedVersions, d) BY <1>3, <1>8
    <3> QED BY <1>2, <1>7, <2>2, <3>1, CorrectedRow
  <2> QED BY <1>7, <2>1, <2>2
<1>11. OneOpen'
  <2>1. ASSUME NEW q \in OpenPunches'
        PROVE  /\ q \in DOMAIN punches /\ punches[q].status = "OPEN"
               /\ punches'[q].day = punches[q].day /\ punches'[q].who = punches[q].who
    <3>1. q \in 1..(n + 1) /\ punches'[q].status = "OPEN" BY <1>7 DEF OpenPunches
    <3>2. q # n + 1 BY <1>2, <1>7, <3>1
    <3>3. q \in 1..n BY <3>1, <3>2
    <3> QED BY <1>6, <1>7, <3>1, <3>3
  <2> QED BY <1>1, <1>4, <1>8, <2>1, OneOpenStays
<1>12. RowsInv'
  <2>1. DayRows(e, d) \ {n + 1} = DayRows(e, d) BY <1>6 DEF DayRows
  <2>2. /\ Worked(DayRows(p.who, p.day) \ {n + 1}) + Span(p) < DayLength
        /\ \A y \in DayRows(p.who, p.day) \ {n + 1} : ~Overlaps(p, punches[y])
    BY <1>2, <1>4, <2>1 DEF FitsAmong
  <2>3. AttTypeOK' BY <1>9 DEF WindowInv
  <2>4. n + 1 \in DOMAIN punches' /\ DOMAIN punches' \ {n + 1} = 1..n BY <1>7
  <2> QED BY <1>1, <1>6, <1>7, <2>2, <2>3, <2>4, OneRowChanges
<1> QED BY <1>9, <1>10, <1>11, <1>12 DEF DayInv

LEMMA AmendSegmentKeeps ==
  ASSUME DayInv, NEW e \in Staff, NEW d \in Dates, NEW p \in Segments(e, d), NEW r \in DOMAIN punches,
         AmendSegment(r, p)
  PROVE  DayInv'
<1>1. WindowInv /\ AttTypeOK /\ OneOpen /\ RowsInv /\ \A q \in DOMAIN punches : PunchInv(q)
  BY DEF DayInv, WindowInv
<1>2. /\ p \in Punches /\ p.who = e /\ p.day = d /\ p.status = "COMPLETE" /\ p.manual
      /\ p.from < p.to /\ p.from \in Int /\ p.to \in Int
      /\ ResolvedWindow(PreparedVersions, d).from <= p.from
      /\ p.to <= ResolvedWindow(PreparedVersions, d).to
  BY <1>1, SegmentsFit
<1>3. PICK days \in SUBSET Dates : days = {d} OBVIOUS
<1>4. /\ FitsAmong(p, DayRows(e, d) \ {r}) /\ Freezes(days)
      /\ punches' = [punches EXCEPT ![r] = p]
      /\ UNCHANGED <<instant, zone, historic, sweepList, failures>>
  BY <1>2, <1>3 DEF AmendSegment
<1>5. PICK n \in Nat : n = Len(punches) BY <1>1, RowTypes
<1>6. DOMAIN punches = 1..n /\ r \in 1..n BY <1>1, <1>5, RowTypes
<1>7. /\ punches' \in Seq(Punches) /\ Len(punches') = n /\ DOMAIN punches' = 1..n
      /\ punches'[r] = p /\ \A q \in 1..n : q # r => punches'[q] = punches[q]
  BY <1>1, <1>2, <1>4, <1>5, <1>6 DEF AttTypeOK
<1>8. /\ DOMAIN frozen' = DOMAIN frozen \cup days /\ \A f \in DOMAIN frozen : frozen'[f] = frozen[f]
      /\ \A f \in DOMAIN frozen' : frozen'[f] = ResolvedWindow(PreparedVersions, f)
      /\ \A x : WindowOf(PreparedVersions, x)' = WindowOf(PreparedVersions, x)
  BY <1>1, <1>4, FreezesKeeps
<1>9. WindowInv'
  <2>1. sweepList' \in Seq(Staff) /\ failures' \in 0..MaxFailures /\ Len(punches') <= MaxPunches
    BY <1>1, <1>4, <1>5, <1>7 DEF AttTypeOK
  <2> QED BY <1>1, <1>3, <1>4, <1>7, <2>1, WindowsAfterFreeze
<1>10. ASSUME NEW q \in DOMAIN punches' PROVE PunchInv(q)'
  <2>1. CASE q # r
    <3>1. instant \in Int /\ instant' \in Int /\ instant <= instant' /\ historic' = historic
      BY <1>1, <1>4 DEF AttTypeOK
    <3>2. \A f \in DOMAIN frozen : f \in DOMAIN frozen' /\ frozen'[f] = frozen[f] BY <1>8
    <3>3. q \in DOMAIN punches /\ PunchInv(q) /\ punches[q] \in Punches /\ punches[q].from \in Int
      BY <1>1, <1>6, <1>7, RowTypes
    <3>4. punches'[q] = punches[q] BY <1>7, <2>1
    <3> QED BY <3>1, <3>2, <3>3, <3>4, RowStays
  <2>2. CASE q = r
    <3>1. d \in DOMAIN frozen' /\ frozen'[d] = ResolvedWindow(PreparedVersions, d) BY <1>3, <1>8
    <3> QED BY <1>2, <1>7, <2>2, <3>1, CorrectedRow
  <2> QED BY <2>1, <2>2
<1>11. OneOpen'
  <2>1. ASSUME NEW q \in OpenPunches'
        PROVE  /\ q \in DOMAIN punches /\ punches[q].status = "OPEN"
               /\ punches'[q].day = punches[q].day /\ punches'[q].who = punches[q].who
    <3>1. q \in 1..n /\ punches'[q].status = "OPEN" BY <1>7 DEF OpenPunches
    <3>2. q # r BY <1>2, <1>7, <3>1
    <3> QED BY <1>6, <1>7, <3>1, <3>2
  <2> QED BY <1>1, <1>4, <1>8, <2>1, OneOpenStays
<1>12. RowsInv'
  <2>1. /\ Worked(DayRows(p.who, p.day) \ {r}) + Span(p) < DayLength
        /\ \A y \in DayRows(p.who, p.day) \ {r} : ~Overlaps(p, punches[y])
    BY <1>2, <1>4 DEF FitsAmong
  <2>2. AttTypeOK' BY <1>9 DEF WindowInv
  <2>3. r \in DOMAIN punches' BY <1>6, <1>7
  <2> QED BY <1>1, <1>6, <1>7, <2>1, <2>2, <2>3, OneRowChanges
<1> QED BY <1>9, <1>10, <1>11, <1>12 DEF DayInv

\* Rows that keep their place in time keep the sums.
LEMMA RowsSame ==
  ASSUME AttTypeOK, \A r \in DOMAIN punches : PunchInv(r), RowsInv, DOMAIN punches' = DOMAIN punches,
         \A y \in DOMAIN punches :
           /\ punches'[y].who = punches[y].who /\ punches'[y].day = punches[y].day
           /\ punches'[y].from = punches[y].from /\ punches'[y].to = punches[y].to
           /\ punches'[y].manual = punches[y].manual
  PROVE  RowsInv'
<1>1. ASSUME NEW e \in Staff, NEW d \in Dates PROVE (Worked(DayRows(e, d)) < DayLength)'
  <2>1. PICK R : R = DayRows(e, d)' OBVIOUS
  <2>2. R = DayRows(e, d) BY <2>1 DEF DayRows
  <2>3. R \in SUBSET DOMAIN punches BY <2>2 DEF DayRows
  <2>4. IsFiniteSet(R) BY <2>3, WorkedLess
  <2>5. Worked(R)' = Worked(R) BY <2>3, <2>4, WorkedSame
  <2>6. Worked(DayRows(e, d))' = Worked(R)' BY <2>1 DEF Worked
  <2>7. Worked(R) < DayLength BY <2>2 DEF RowsInv
  <2> QED BY <2>5, <2>6, <2>7
<1>2. ASSUME NEW r \in DOMAIN punches', NEW q \in DOMAIN punches', r # q,
             punches'[r].manual, punches'[q].manual, punches'[r].who = punches'[q].who,
             punches'[r].day = punches'[q].day
      PROVE  ~Overlaps(punches'[r], punches'[q])
  <2>1. ~Overlaps(punches[r], punches[q]) BY <1>2 DEF RowsInv
  <2> QED BY <2>1 DEF Overlaps
<1> QED BY <1>1, <1>2 DEF RowsInv

\* What leaves the days and the rows alone.
LEMMA QuietKeeps ==
  ASSUME DayInv, UNCHANGED <<instant, zone, historic, profiled, versions, frozen, punches>>,
         sweepList' \in Seq(Staff), failures' \in 0..MaxFailures
  PROVE  DayInv'
<1>1. WindowInv /\ AttTypeOK /\ OneOpen /\ RowsInv /\ \A q \in DOMAIN punches : PunchInv(q)
  BY DEF DayInv, WindowInv
<1>2. AttTypeOK' BY <1>1 DEF AttTypeOK
<1>3. \A f : ResolvedWindow(versions, f)' = ResolvedWindow(versions, f)
  BY DEF ResolvedWindow, Governing
<1>4. profiled => WellFormed(versions)'
  BY <1>1, <1>3 DEF WindowInv, WellFormed, Increasing
<1>5. WindowInv' BY <1>1, <1>2, <1>3, <1>4 DEF WindowInv
<1>6. \A q \in DOMAIN punches : PunchInv(q)' BY <1>1 DEF PunchInv, Legacy
<1>7. OneOpen'
  <2>1. \A d : WindowOf(PreparedVersions, d)' = WindowOf(PreparedVersions, d)
    BY DEF WindowOf, PreparedVersions, LiveVersions, LocalDate, ResolvedWindow, Governing
  <2>2. ASSUME NEW q \in OpenPunches' PROVE q \in DOMAIN punches /\ punches[q].status = "OPEN"
    BY DEF OpenPunches
  <2> QED BY <1>1, <2>1, <2>2, OneOpenStays
<1>8. RowsInv' BY <1>1, RowsSame
<1> QED BY <1>5, <1>6, <1>7, <1>8 DEF DayInv

LEMMA SweepScanKeeps ==
  ASSUME DayInv, SweepScan
  PROVE  DayInv'
<1>1. AttTypeOK BY DEF DayInv, WindowInv
<1>2. PICK s \in OldestFirst(OpenPunches) : sweepList' = [i \in DOMAIN s |-> punches[s[i]].who]
  BY DEF SweepScan
<1>3. PICK n : n = Min({SweepLimit, Cardinality(OpenPunches)}) OBVIOUS
<1>4. n \in Nat
  <2>1. DOMAIN punches = 1..Len(punches) /\ 1 \in Int /\ Len(punches) \in Int BY <1>1, RowTypes
  <2>2. IsFiniteSet(DOMAIN punches) BY <2>1, FS_Interval
  <2>3. IsFiniteSet(OpenPunches) BY <2>2, FS_Subset DEF OpenPunches
  <2>4. Cardinality(OpenPunches) \in Nat /\ SweepLimit \in Nat
    BY <2>3, FS_CardinalityType, AttendanceAssumption
  <2>5. PICK a \in Nat, b \in Nat : a = SweepLimit /\ b = Cardinality(OpenPunches) BY <2>4
  <2>6. n = Min({a, b}) BY <1>3, <2>5
  <2>7. \E x \in {a, b} : \A y \in {a, b} : x <= y OBVIOUS
  <2>8. n \in {a, b} BY <2>6, <2>7 DEF Min
  <2> QED BY <2>8
<1>5. s \in [1..n -> OpenPunches] BY <1>2, <1>3 DEF OldestFirst
<1>6. \A i \in 1..n : punches[s[i]].who \in Staff BY <1>1, <1>5, RowTypes DEF OpenPunches
<1>7. sweepList' \in [1..n -> Staff] BY <1>2, <1>5, <1>6
<1>8. sweepList' \in Seq(Staff) BY <1>4, <1>7
<1>9. /\ failures' \in 0..MaxFailures
      /\ UNCHANGED <<instant, zone, historic, profiled, versions, frozen, punches>>
  BY <1>1 DEF SweepScan, AttTypeOK
<1> QED BY <1>8, <1>9, QuietKeeps

LEMMA SweepNextKeeps ==
  ASSUME DayInv, SweepNext
  PROVE  DayInv'
<1>1. WindowInv /\ AttTypeOK /\ OneOpen /\ RowsInv /\ \A q \in DOMAIN punches : PunchInv(q)
  BY DEF DayInv, WindowInv
<1>2. sweepList' \in Seq(Staff) /\ Head(sweepList) \in Staff
  BY <1>1 DEF SweepNext, AttTypeOK
<1>3. CASE failures < MaxFailures /\ failures' = failures + 1
           /\ UNCHANGED <<profiled, versions, frozen, punches>>
  <2>1. failures' \in 0..MaxFailures BY <1>1, <1>3, AttendanceAssumption DEF AttTypeOK
  <2>2. UNCHANGED <<instant, zone, historic, profiled, versions, frozen, punches>>
    BY <1>3 DEF SweepNext
  <2> QED BY <1>2, <2>1, <2>2, QuietKeeps
<1>4. CASE Freezes(DaysMissedBy(Head(sweepList))) /\ punches' = Expired(Head(sweepList))
           /\ failures' = failures
  <2>1. PICK e \in Staff : e = Head(sweepList) BY <1>2
  <2>2. PICK days \in SUBSET Dates : days = DaysMissedBy(e) BY <1>1, ExpiredRows
  <2>3. Freezes(days) /\ punches' = Expired(e) /\ UNCHANGED <<instant, zone, historic>>
    BY <1>4, <2>1, <2>2 DEF SweepNext
  <2>4. failures' \in 0..MaxFailures BY <1>1, <1>4 DEF AttTypeOK
  <2>5. /\ punches' \in Seq(Punches) /\ Len(punches') = Len(punches) /\ DOMAIN punches' = DOMAIN punches
        /\ \A q \in DOMAIN punches :
             punches'[q] = punches[q] \/ punches'[q] = [punches[q] EXCEPT !.status = "INCOMPLETE"]
    BY <1>1, <2>3, ExpiredRows
  <2>6. /\ DOMAIN frozen' = DOMAIN frozen \cup days /\ \A f \in DOMAIN frozen : frozen'[f] = frozen[f]
        /\ \A x : WindowOf(PreparedVersions, x)' = WindowOf(PreparedVersions, x)
    BY <1>1, <2>3, FreezesKeeps
  <2>7. WindowInv'
    <3>1. Len(punches') <= MaxPunches BY <1>1, <2>5 DEF AttTypeOK
    <3> QED BY <1>1, <1>2, <2>3, <2>4, <2>5, <3>1, WindowsAfterFreeze
  <2>8. \A q \in DOMAIN punches :
          /\ punches'[q].who = punches[q].who /\ punches'[q].day = punches[q].day
          /\ punches'[q].from = punches[q].from /\ punches'[q].to = punches[q].to
          /\ punches'[q].manual = punches[q].manual
          /\ punches'[q].status = "OPEN" => punches[q].status = "OPEN"
    <3>1. \A q \in DOMAIN punches : punches[q] \in Punches BY <1>1, RowTypes
    <3> QED BY SMTT(60), <2>5, <3>1 DEF Punches
  <2>9. ASSUME NEW q \in DOMAIN punches' PROVE PunchInv(q)'
    <3>1. instant \in Int /\ instant' \in Int /\ instant <= instant' /\ historic' = historic
      BY <1>1, <2>3 DEF AttTypeOK
    <3>2. q \in DOMAIN punches /\ PunchInv(q) /\ punches[q] \in Punches /\ punches[q].from \in Int
      BY <1>1, <2>5, RowTypes
    <3>3. \A f \in DOMAIN frozen : f \in DOMAIN frozen' /\ frozen'[f] = frozen[f] BY <2>6
    <3> QED BY <2>5, <3>1, <3>2, <3>3, RowStays
  <2>10. OneOpen'
    <3>1. ASSUME NEW q \in OpenPunches'
          PROVE  /\ q \in DOMAIN punches /\ punches[q].status = "OPEN"
                 /\ punches'[q].day = punches[q].day /\ punches'[q].who = punches[q].who
      BY <2>5, <2>8 DEF OpenPunches
    <3> QED BY <1>1, <2>3, <2>6, <3>1, OneOpenStays
  <2>11. RowsInv' BY <1>1, <2>5, <2>8, RowsSame
  <2> QED BY <2>7, <2>9, <2>10, <2>11 DEF DayInv
<1> QED BY <1>3, <1>4 DEF SweepNext

LEMMA SweepAbortsKeeps ==
  ASSUME DayInv, SweepAborts
  PROVE  DayInv'
<1>1. AttTypeOK BY DEF DayInv, WindowInv
<1>2. sweepList' \in Seq(Staff) /\ failures' \in 0..MaxFailures
  BY <1>1, AttendanceAssumption DEF SweepAborts, AttTypeOK
<1>3. UNCHANGED <<instant, zone, historic, profiled, versions, frozen, punches>> BY DEF SweepAborts
<1> QED BY <1>2, <1>3, QuietKeeps

\* Time passes, or the clocks of the tenant are set: who is at work may go home late, nobody
\* comes back.
LEMMA ClockKeeps ==
  ASSUME DayInv, instant' \in Nat, instant <= instant', zone' \in Zones,
         UNCHANGED <<historic, profiled, versions, frozen, punches, sweepList, failures>>
  PROVE  DayInv'
<1>1. WindowInv /\ AttTypeOK /\ OneOpen /\ RowsInv /\ \A q \in DOMAIN punches : PunchInv(q)
  BY DEF DayInv, WindowInv
<1>2. AttTypeOK' BY <1>1 DEF AttTypeOK
<1>3. \A f : ResolvedWindow(versions, f)' = ResolvedWindow(versions, f)
  BY DEF ResolvedWindow, Governing
<1>4. profiled => WellFormed(versions)'
  BY <1>1, <1>3 DEF WindowInv, WellFormed, Increasing
<1>5. instant' >= FirstInstant
  <2>1. FirstInstant = DayLength + DefaultBoundary /\ DefaultBoundary \in Nat /\ DayLength \in Nat
    BY AttendanceAssumption DEF FirstInstant, FirstDay
  <2> QED BY <1>1, <2>1 DEF WindowInv, AttTypeOK
<1>6. WindowInv' BY <1>1, <1>2, <1>3, <1>4, <1>5 DEF WindowInv
<1>7. instant \in Int /\ instant' \in Int BY <1>1 DEF AttTypeOK
<1>8. ASSUME NEW q \in DOMAIN punches PROVE PunchInv(q)'
  <2>1. punches[q] \in Punches /\ punches[q].from \in Int BY <1>1, RowTypes
  <2> QED BY <1>1, <1>7, <2>1, RowStays
<1>9. OneOpen'
  <2> SUFFICES ASSUME NEW r \in OpenPunches', NEW q \in OpenPunches', punches'[r].who = punches'[q].who,
                      ~Missed(r)', ~Missed(q)'
               PROVE  r = q
    BY DEF OneOpen
  <2>1. r \in OpenPunches /\ q \in OpenPunches BY DEF OpenPunches
  <2>2. CASE profiled
    <3>1. ASSUME NEW x \in OpenPunches, ~Missed(x)' PROVE ~Missed(x)
      <4>1. PICK d \in Dates : d = punches[x].day BY <1>1, RowTypes DEF OpenPunches
      <4>2. PICK w : w = WindowOf(versions, d) OBVIOUS
      <4>3. WindowOf(PreparedVersions, punches[x].day) = w
        BY <2>2, <4>1, <4>2 DEF PreparedVersions, LiveVersions
      <4>4. WindowOf(PreparedVersions, punches[x].day)' = w
        BY <2>2, <4>1, <4>2 DEF PreparedVersions, LiveVersions, WindowOf, ResolvedWindow, Governing
      <4>5. w.to \in Int
        <5>1. w = ResolvedWindow(versions, d) BY <1>1, <4>2 DEF WindowInv, WindowOf
        <5> QED BY <1>1, <2>2, <5>1, WindowInts DEF WindowInv
      <4>6. x \in OpenPunches' BY DEF OpenPunches
      <4> QED BY <1>7, <3>1, <4>3, <4>4, <4>5, <4>6 DEF Missed
    <3>2. ~Missed(r) /\ ~Missed(q) BY <2>1, <3>1
    <3> QED BY <1>1, <2>1, <3>2 DEF OneOpen
  <2>3. CASE ~profiled
    <3>1. Len(punches) <= 1 /\ DOMAIN punches = 1..Len(punches) /\ Len(punches) \in Nat
      BY <1>1, <2>3, RowTypes DEF WindowInv
    <3> QED BY <2>1, <3>1 DEF OpenPunches
  <2> QED BY <2>2, <2>3
<1>10. RowsInv' BY <1>1, RowsSame
<1> QED BY <1>6, <1>8, <1>9, <1>10 DEF DayInv

\* What has come into force by a day does not hear of what comes later.
LEMMA LeastNumber ==
  ASSUME NEW T, T \subseteq Nat, T # {}
  PROVE  Min(T) \in T /\ \A x \in T : Min(T) <= x
<1>1. \E n \in T : \A m \in T : n <= m BY LeastNatural
<1> QED BY <1>1 DEF Min

\* schedule_policy: the versions before the new one stay, its day and the next were looked at,
\* and all the days after them are alike.
LEMMA Scheduled ==
  ASSUME NEW us, WellFormed(us), NEW a \in Dates, NEW d \in Dates, a < d, NEW z \in Int, NEW vs,
         \A e \in Nat : e \in DOMAIN vs <=> (e \in DOMAIN us /\ e <= a) \/ e = d,
         DOMAIN vs \subseteq Nat, vs[d] = z, \A e \in DOMAIN us : e <= a => vs[e] = us[e],
         Increasing(ResolvedWindow(vs, d)), Increasing(ResolvedWindow(vs, d + 1))
  PROVE  WellFormed(vs)
<1>1. a \in Nat \ {0} /\ d \in Nat \ {0} BY DEF Dates
<1>2. Plain(us) BY DEF WellFormed, Plain
<1>3. Plain(vs)
  <2>1. Baseline \in DOMAIN vs BY <1>1, <1>2 DEF Plain, Baseline
  <2>2. ASSUME NEW e \in DOMAIN vs PROVE vs[e] \in Int
    <3>1. e \in Nat OBVIOUS
    <3>2. (e \in DOMAIN us /\ e <= a) \/ e = d BY <3>1
    <3> QED BY <1>2, <3>2 DEF Plain
  <2> QED BY <2>1, <2>2 DEF Plain
<1>4. ASSUME NEW x \in Dates PROVE Increasing(ResolvedWindow(vs, x))
  <2>1. x \in Nat \ {0} /\ x - 1 \in Nat BY DEF Dates
  <2>2. /\ ResolvedWindow(vs, x).from = Start(x) + Governing(vs, x - 1)
        /\ ResolvedWindow(vs, x).to = Start(x) + DayLength + Governing(vs, x)
        /\ Governing(vs, x - 1) \in Int /\ Governing(vs, x) \in Int
    BY <1>3, <2>1, WindowFields
  <2>3. Start(x) \in Int /\ DayLength \in Nat \ {0} BY <2>1, Starts, AttendanceAssumption
  <2>4. Governing(vs, x) = Governing(vs, x - 1) => Increasing(ResolvedWindow(vs, x))
    BY <2>2, <2>3 DEF Increasing
  <2>5. CASE x <= a
    <3>1. \A e \in Nat : e <= x => (e \in DOMAIN vs <=> e \in DOMAIN us) /\ (e \in DOMAIN vs => vs[e] = us[e])
      BY <1>1, <2>1, <2>5
    <3>2. ResolvedWindow(vs, x) = ResolvedWindow(us, x) BY <1>2, <1>3, <2>1, <3>1, WindowSame
    <3> QED BY <3>2 DEF WellFormed
  <2>6. CASE a < x /\ x < d
    <3>1. \A e \in Nat : (e \in DOMAIN vs /\ e <= x) <=> (e \in DOMAIN vs /\ e <= x - 1)
      BY <1>1, <2>1, <2>6
    <3>2. Governing(vs, x) = Governing(vs, x - 1) BY <1>3, <2>1, <3>1, GoverningSame
    <3> QED BY <2>4, <3>2
  <2>7. CASE x = d BY <2>7
  <2>8. CASE x = d + 1 BY <2>8
  <2>9. CASE d + 1 < x
    <3>1. \A e \in Nat : (e \in DOMAIN vs /\ e <= x) <=> (e \in DOMAIN vs /\ e <= x - 1)
      BY <1>1, <2>1, <2>9
    <3>2. Governing(vs, x) = Governing(vs, x - 1) BY <1>3, <2>1, <3>1, GoverningSame
    <3> QED BY <2>4, <3>2
  <2> QED BY <1>1, <2>1, <2>5, <2>6, <2>7, <2>8, <2>9
<1> QED BY <1>3, <1>4 DEF WellFormed, Plain

LEMMA ScheduleKeeps ==
  ASSUME DayInv, NEW d \in Dates, NEW minutes \in Boundaries, Schedule(d, minutes)
  PROVE  DayInv'
<1>1. WindowInv /\ AttTypeOK /\ OneOpen /\ RowsInv /\ \A q \in DOMAIN punches : PunchInv(q)
  BY DEF DayInv, WindowInv
<1> DEFINE Pending(us, a) == {e \in DOMAIN us : e > a}
           After(us, a) == Put([e \in DOMAIN us \ Pending(us, a) |-> us[e]], d, zone + minutes)
<1>2. PICK us : us = PreparedVersions OBVIOUS
<1>3. PICK a \in Dates :
        /\ ResolvedDay(LiveVersions, a) /\ d > a
        /\ \A f \in DOMAIN frozen : f < Min(Pending(us, a) \cup {d})
        /\ Increasing(ResolvedWindow(After(us, a), d)) /\ Increasing(ResolvedWindow(After(us, a), d + 1))
        /\ versions' = After(us, a) /\ profiled' = TRUE
        /\ UNCHANGED <<instant, zone, historic, frozen, punches, sweepList, failures>>
  BY <1>2 DEF Schedule
<1>4. PICK pending : pending = Pending(us, a) OBVIOUS
<1>5. PICK vs : vs = After(us, a) OBVIOUS
<1>6. vs = Put([e \in DOMAIN us \ pending |-> us[e]], d, zone + minutes) BY <1>4, <1>5
<1>7. \A e \in DOMAIN us : e \in pending <=> e > a BY <1>4
<1>8. pending \subseteq DOMAIN us BY <1>4
<1> HIDE DEF Pending, After
<1>9. WellFormed(us) /\ Plain(us) BY <1>1, <1>2, LiveAndPrepared DEF WellFormed, Plain
<1>10. a \in Nat \ {0} /\ d \in Nat \ {0} /\ a < d BY <1>3 DEF Dates
<1>11. DOMAIN us \subseteq Nat BY <1>9 DEF Plain
<1>12. /\ DOMAIN vs = (DOMAIN us \ pending) \cup {d} /\ vs[d] = zone + minutes
       /\ \A e \in DOMAIN us \ pending : e # d => vs[e] = us[e]
  BY <1>6 DEF Put
<1>13. \A e \in Nat : e \in DOMAIN vs <=> (e \in DOMAIN us /\ e <= a) \/ e = d
  BY <1>7, <1>10, <1>11, <1>12
<1>14. \A e \in DOMAIN us : e <= a => vs[e] = us[e] BY <1>7, <1>10, <1>11, <1>12
<1>15. zone + minutes \in Int BY <1>1, AttendanceAssumption DEF AttTypeOK
<1>16. WellFormed(vs)
  <2>1. DOMAIN vs \subseteq Nat BY <1>10, <1>11, <1>12
  <2> QED BY <1>3, <1>5, <1>9, <1>10, <1>12, <1>13, <1>14, <1>15, <2>1, Scheduled
<1>17. Plain(vs) BY <1>16 DEF WellFormed, Plain
<1>18. ASSUME NEW f \in Dates, f <= a PROVE ResolvedWindow(vs, f) = ResolvedWindow(us, f)
  <2>1. f \in Nat \ {0} BY DEF Dates
  <2>2. \A e \in Nat : e <= f => (e \in DOMAIN vs <=> e \in DOMAIN us) /\ (e \in DOMAIN vs => vs[e] = us[e])
    BY <1>10, <1>13, <1>14, <1>18, <2>1
  <2> QED BY <1>9, <1>17, <2>1, <2>2, WindowSame
<1>19. ASSUME NEW f \in DOMAIN frozen PROVE frozen[f] = ResolvedWindow(vs, f)
  <2>1. f \in Nat \ {0} BY <1>1 DEF AttTypeOK, Dates
  <2>2. \A e \in pending \cup {d} : f < e
    <3>1. PICK T : T = pending \cup {d} OBVIOUS
    <3>2. T \subseteq Nat /\ T # {} BY <1>8, <1>10, <1>11, <3>1
    <3>3. Min(T) \in T /\ \A x \in T : Min(T) <= x BY <3>2, LeastNumber
    <3>4. f < Min(T) BY <1>3, <1>4, <3>1
    <3> QED BY <2>1, <3>1, <3>2, <3>3, <3>4
  <2>3. ASSUME NEW e \in Nat, e <= f
        PROVE  (e \in DOMAIN vs <=> e \in DOMAIN us) /\ (e \in DOMAIN vs => vs[e] = us[e])
    <3>1. e \notin pending /\ e # d BY <1>8, <1>10, <1>11, <2>1, <2>2, <2>3
    <3> QED BY <1>12, <3>1
  <2>4. ResolvedWindow(vs, f) = ResolvedWindow(us, f) BY <1>9, <1>17, <2>1, <2>3, WindowSame
  <2>5. profiled /\ us = versions /\ frozen[f] = ResolvedWindow(versions, f)
    BY <1>1, <1>2, LiveAndPrepared DEF WindowInv
  <2> QED BY <2>4, <2>5
<1>20. versions' = vs /\ profiled' = TRUE /\ frozen' = frozen /\ PreparedVersions' = vs
  BY <1>3, <1>5 DEF PreparedVersions, LiveVersions
<1>21. WindowInv'
  <2>1. AttTypeOK' BY <1>1, <1>3, <1>17, <1>20 DEF AttTypeOK, Plain
  <2>2. WellFormed(versions)'
    BY <1>16, <1>20 DEF WellFormed, ResolvedWindow, Governing, Increasing
  <2>3. \A f : ResolvedWindow(versions, f)' = ResolvedWindow(vs, f)
    BY <1>20 DEF ResolvedWindow, Governing
  <2>4. \A f \in DOMAIN frozen' : frozen'[f] = ResolvedWindow(versions, f)' BY <1>19, <1>20, <2>3
  <2>5. instant' >= FirstInstant BY <1>1, <1>3 DEF WindowInv
  <2> QED BY <1>20, <2>1, <2>2, <2>4, <2>5 DEF WindowInv
<1>22. ASSUME NEW q \in DOMAIN punches PROVE PunchInv(q)'
  BY <1>1, <1>3 DEF PunchInv, Legacy
<1>23. OneOpen'
  <2> SUFFICES ASSUME NEW r \in OpenPunches', NEW q \in OpenPunches', punches'[r].who = punches'[q].who,
                      ~Missed(r)', ~Missed(q)'
               PROVE  r = q
    BY DEF OneOpen
  <2>1. ASSUME NEW x \in OpenPunches', ~Missed(x)' PROVE x \in OpenPunches /\ ~Missed(x)
    <3>1. x \in OpenPunches BY <1>3, <2>1 DEF OpenPunches
    <3>2. punches[x].day \in Dates /\ punches[x].day <= a BY <1>3, <3>1, OpenNotLater
    <3>3. PICK D \in Dates : D = punches[x].day /\ D <= a BY <3>2
    <3>4. WindowOf(PreparedVersions, punches[x].day) = ResolvedWindow(us, D)
      BY <1>1, <1>2, <3>3, WindowsAgree
    <3>5. WindowOf(PreparedVersions, punches[x].day)' = ResolvedWindow(us, D)
      <4>1. WindowOf(PreparedVersions, punches[x].day)' = WindowOf(vs, D)
        BY <1>3, <1>20, <3>3 DEF WindowOf, ResolvedWindow, Governing
      <4>2. WindowOf(vs, D) = ResolvedWindow(vs, D) BY <1>19 DEF WindowOf
      <4> QED BY <1>18, <3>3, <4>1, <4>2
    <3> QED BY <1>3, <2>1, <3>1, <3>4, <3>5 DEF Missed
  <2>2. r \in OpenPunches /\ ~Missed(r) BY <2>1
  <2>3. q \in OpenPunches /\ ~Missed(q) BY <2>1
  <2> QED BY <1>1, <1>3, <2>2, <2>3 DEF OneOpen
<1>24. RowsInv' BY <1>1, <1>3, RowsSame
<1> QED BY <1>3, <1>21, <1>22, <1>23, <1>24 DEF DayInv

LEMMA DayInvInit == AttInit => DayInv
<1> SUFFICES ASSUME AttInit PROVE DayInv OBVIOUS
<1>1. /\ instant = FirstInstant /\ zone = 0 /\ historic \in BOOLEAN /\ profiled = FALSE
      /\ DOMAIN versions = {} /\ DOMAIN frozen = {} /\ sweepList = <<>> /\ failures = 0
  BY DEF AttInit
<1>2. FirstInstant \in Nat
  BY AttendanceAssumption DEF FirstInstant, FirstDay
<1> DEFINE p(e) == [who |-> e, day |-> FirstDay, from |-> instant, to |-> Still,
                    status |-> "OPEN", manual |-> FALSE]
<1>3. punches = <<>> \/ (historic /\ \E e \in Staff : punches = <<p(e)>>)
  BY DEF AttInit
<1>4. FirstDay \in Dates BY AttendanceAssumption DEF FirstDay, Dates
<1>5. \A e \in Staff : /\ p(e) \in Punches /\ p(e).day = FirstDay /\ p(e).from = instant
                       /\ p(e).to = Still /\ p(e).manual = FALSE
  BY <1>1, <1>2, <1>4 DEF Punches, Still
<1> HIDE DEF p
<1>6. punches \in Seq(Punches) /\ Len(punches) <= 1 /\ DOMAIN punches \in SUBSET {1}
  <2>1. CASE punches = <<>> BY <2>1
  <2>2. CASE \E e \in Staff : punches = <<p(e)>>
    <3>1. PICK x \in Punches : punches = <<x>> BY <1>5, <2>2
    <3> QED BY <3>1
  <2> QED BY <1>3, <2>1, <2>2
<1>7. \A r \in DOMAIN punches : /\ historic /\ punches[r].day = FirstDay /\ punches[r].from = instant
                               /\ punches[r].to = Still /\ punches[r].manual = FALSE
  BY <1>3, <1>5
<1>8. AttTypeOK
  <2>1. MaxPunches \in Nat \ {0} /\ MaxFailures \in Nat /\ 0 \in Zones BY AttendanceAssumption
  <2>2. Len(punches) <= MaxPunches
    <3>1. Len(punches) \in Nat BY <1>6
    <3> QED BY <1>6, <2>1, <3>1
  <2>3. sweepList \in Seq(Staff) BY <1>1
  <2>4. DOMAIN versions \subseteq Nat /\ \A d \in DOMAIN versions : versions[d] \in Int BY <1>1
  <2>5. DOMAIN frozen \subseteq Dates /\ \A d \in DOMAIN frozen : frozen[d] \in Windows BY <1>1
  <2>6. instant \in Nat /\ zone \in Zones /\ historic \in BOOLEAN /\ profiled \in BOOLEAN
    BY Zenon, <1>1, <1>2, <2>1
  <2>7. failures \in 0..MaxFailures
    <3>1. failures = 0 BY <1>1
    <3> QED BY <2>1, <3>1
  <2> QED BY <1>6, <2>2, <2>3, <2>4, <2>5, <2>6, <2>7 DEF AttTypeOK
<1>9. WindowInv BY <1>1, <1>2, <1>6, <1>8 DEF WindowInv
<1>10. \A r \in DOMAIN punches : PunchInv(r) BY <1>1, <1>2, <1>7 DEF PunchInv, Legacy
<1>11. OneOpen BY <1>6 DEF OneOpen, OpenPunches
<1>12. RowsInv
  <2>1. ASSUME NEW e \in Staff, NEW d \in Dates PROVE Worked(DayRows(e, d)) < DayLength
    <3> DEFINE f == [r \in DOMAIN punches |-> Span(punches[r])]
    <3>1. DayRows(e, d) \in SUBSET DOMAIN punches BY DEF DayRows
    <3>2. IsFiniteSet(DayRows(e, d)) BY <1>8, <1>10, <3>1, WorkedLess
    <3>3. \A r \in DayRows(e, d) : f[r] = 0 BY <1>7, <3>1 DEF Span
    <3> HIDE DEF f
    <3>4. SumFunctionOnSet(f, DayRows(e, d)) = 0 BY <3>2, <3>3, SumZero
    <3> QED BY <3>4, AttendanceAssumption DEF Worked, f
  <2> QED BY <1>7, <2>1 DEF RowsInv
<1> QED BY <1>9, <1>10, <1>11, <1>12 DEF DayInv

LEMMA DayInvHolds == DayInv => DaysHold
<1> SUFFICES ASSUME DayInv PROVE DaysHold OBVIOUS
<1>1. WindowInv /\ AttTypeOK /\ OneOpen /\ RowsInv /\ \A q \in DOMAIN punches : PunchInv(q)
  BY DEF DayInv, WindowInv
<1>2. DaysTile
  <2> SUFFICES ASSUME NEW d \in Dates
               PROVE  /\ Increasing(WindowOf(LiveVersions, d))
                      /\ WindowOf(LiveVersions, d + 1).from = WindowOf(LiveVersions, d).to
    BY DEF DaysTile
  <2>1. d \in Nat \ {0} BY DEF Dates
  <2>2. WellFormed(LiveVersions) /\ Plain(LiveVersions) BY <1>1, LiveAndPrepared DEF WellFormed, Plain
  <2>3. /\ WindowOf(LiveVersions, d) = ResolvedWindow(LiveVersions, d)
        /\ WindowOf(LiveVersions, d + 1) = ResolvedWindow(LiveVersions, d + 1)
    BY <1>1, WindowsAgree
  <2>4. ResolvedWindow(LiveVersions, d + 1).from = ResolvedWindow(LiveVersions, d).to
    BY <2>1, <2>2, WindowsMeet
  <2> QED BY <2>2, <2>3, <2>4 DEF WellFormed
<1>3. ASSUME NEW e \in Staff PROVE Cardinality({r \in OpenPunches : punches[r].who = e /\ ~Missed(r)}) <= 1
  <2> DEFINE S == {r \in OpenPunches : punches[r].who = e /\ ~Missed(r)}
  <2>1. \A r, q \in S : r = q BY <1>1 DEF OneOpen
  <2> HIDE DEF S
  <2>2. CASE S = {} BY <2>2, FS_EmptySet DEF S
  <2>3. CASE S # {}
    <3>1. PICK r \in S : TRUE BY <2>3
    <3>2. S = {r} BY <2>1, <3>1
    <3>3. Cardinality(S) = 1 BY <3>2, FS_Singleton
    <3> QED BY <3>3 DEF S
  <2> QED BY <2>2, <2>3
<1>4. ASSUME NEW e \in Staff, NEW d \in Dates, NEW r \in DayRows(e, d), punches[r].to # Still
      PROVE  /\ Legacy(r) \/ punches[r].from >= WindowOf(LiveVersions, d).from
             /\ punches[r].to <= WindowOf(LiveVersions, d).to
  <2>1. r \in DOMAIN punches /\ punches[r].day = d /\ PunchInv(r) BY <1>1 DEF DayRows
  <2>2. /\ d \in DOMAIN frozen /\ punches[r].to <= frozen[d].to
        /\ frozen[d].from <= punches[r].from \/ Legacy(r)
    BY <1>4, <2>1 DEF PunchInv
  <2>3. WindowOf(LiveVersions, d) = frozen[d] BY <2>2 DEF WindowOf
  <2>4. frozen[d].from \in Int /\ punches[r].from \in Int
    BY <1>1, <2>1, <2>2, RowTypes DEF AttTypeOK, Windows
  <2> QED BY <2>2, <2>3, <2>4
<1>5. DaysAddUp
  <2>1. ASSUME NEW e \in Staff, NEW d \in Dates, NEW r \in DayRows(e, d), NEW q \in DayRows(e, d),
               r # q, punches[r].manual, punches[q].manual
        PROVE  ~Overlaps(punches[r], punches[q])
    BY <1>1, <2>1 DEF RowsInv, DayRows
  <2> QED BY <1>1, <1>3, <1>4, <2>1 DEF DaysAddUp, RowsInv
<1> QED BY <1>1, <1>2, <1>5 DEF DaysHold

\* Whatever boundaries are scheduled and replaced, whatever becomes of the time zone, and
\* whoever punches, corrects or sweeps when: the days cover the time line, an employee has one
\* open punch at most while its day lasts, what is worked lies in its day, corrections of a
\* day keep apart, and no day adds up to 24 hours (AttendanceDayRuntime, attendance_service).
THEOREM DaysStayWhole == AttSpec => []DaysHold
<1>1. DayInv /\ [AttNext]_attVars => DayInv'
  <2> SUFFICES ASSUME DayInv, [AttNext]_attVars PROVE DayInv' OBVIOUS
  <2>1. AttTypeOK BY DEF DayInv, WindowInv
  <2>2. CASE \E d \in Dates, m \in Boundaries : Schedule(d, m) BY <2>2, ScheduleKeeps
  <2>3. CASE \E e \in Staff : PunchIn(e) \/ \E r \in DOMAIN punches : PunchOut(e, r)
    BY <2>3, PunchInKeeps, PunchOutKeeps
  <2>4. CASE \E e \in Staff, d \in Dates : \E p \in Segments(e, d) :
               AddSegment(p) \/ \E r \in DOMAIN punches : AmendSegment(r, p)
    BY <2>4, AddSegmentKeeps, AmendSegmentKeeps
  <2>5. CASE Sweep BY <2>5, SweepScanKeeps, SweepNextKeeps DEF Sweep
  <2>6. CASE SweepAborts BY <2>6, SweepAbortsKeeps
  <2>7. CASE TimePasses
    <3>1. instant' \in Nat /\ instant <= instant' /\ zone' \in Zones
      BY <2>1, <2>7 DEF TimePasses, AttTypeOK
    <3> QED BY <2>7, <3>1, ClockKeeps DEF TimePasses
  <2>8. CASE ZoneChanges
    <3>1. instant' \in Nat /\ instant <= instant' /\ zone' \in Zones
      BY <2>1, <2>8 DEF ZoneChanges, AttTypeOK
    <3> QED BY <2>8, <3>1, ClockKeeps DEF ZoneChanges
  <2>9. CASE UNCHANGED attVars
    <3>1. sweepList' \in Seq(Staff) /\ failures' \in 0..MaxFailures
          /\ UNCHANGED <<instant, zone, historic, profiled, versions, frozen, punches>>
      BY <2>1, <2>9 DEF attVars, AttTypeOK
    <3> QED BY <3>1, QuietKeeps
  <2> QED BY <2>2, <2>3, <2>4, <2>5, <2>6, <2>7, <2>8, <2>9 DEF AttNext
<1> QED BY <1>1, DayInvInit, DayInvHolds, PTL DEF AttSpec
=============================================================================
