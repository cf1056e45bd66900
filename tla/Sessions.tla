------------------------------ MODULE Sessions ------------------------------
(***************************************************************************)
(* Accounts of one employee: kabipay-auth (log in, refresh, log out, change    *)
(* of password) and what HR does to an account (kabipay-employee).           *)
(*                                                                          *)
(* No handler of kabipay-auth opens a transaction: each of its statements is *)
(* an action.  HR's operations are transactions, but they read the employee  *)
(* without a lock; those whose write depends on that read are two actions.   *)
(***************************************************************************)
EXTENDS Naturals, FiniteSets

CONSTANTS
  Users,       \* accounts that may come to exist
  Calls,       \* requests in flight
  MaxSessions, \* bound: sessions that are ever issued
  MaxChanges,  \* bound: passwords, role sets, accounts and employment changes
  NoUser

ASSUME SessionAssumption ==
  NoUser \notin Users /\ MaxSessions \in Nat /\ MaxChanges \in Nat

VARIABLES
  account,    \* per user: the row of "user"
  linked,     \* employee.user_id
  employment, \* employee.status
  sessions,   \* the rows of user_session that have not expired
  expired,    \* ... and those that have
  owner,      \* per session: its user
  issued,     \* number of sessions ever inserted
  access,     \* per request: where it is, and what it has read so far
  changes,    \* number of changes so far
  heirs,      \* history: per session, how many sessions it was exchanged for
  intruders   \* history: sessions of accounts that were inactive whenever the request looked

accountVars == <<account, linked, employment>>
sessionVars == <<sessions, expired, owner, issued, heirs, intruders>>
sessVars == <<accountVars, sessionVars, access, changes>>

Sids == 1..MaxSessions
NoSid == 0
Statuses == {"ACTIVE", "INACTIVE", "TERMINATED"}
Account == [exists : BOOLEAN, active : BOOLEAN, password : Nat, mustChange : BOOLEAN]
NoAccount == [exists |-> FALSE, active |-> FALSE, password |-> 0, mustChange |-> FALSE]
CallSteps == {"idle", "check", "consume", "issue", "writePassword", "revoke", "provision", "writeStatus"}
Idle == [pc |-> "idle", user |-> NoUser, sid |-> NoSid, before |-> "ACTIVE", inactive |-> FALSE]

SessTypeOK ==
  /\ account \in [Users -> Account] /\ linked \in Users \cup {NoUser} /\ employment \in Statuses
  /\ sessions \in SUBSET Sids /\ expired \in SUBSET Sids /\ owner \in [Sids -> Users \cup {NoUser}]
  /\ issued \in 0..MaxSessions /\ changes \in 0..MaxChanges
  /\ access \in [Calls -> [pc : CallSteps, user : Users \cup {NoUser}, sid : 0..MaxSessions,
                           before : Statuses, inactive : BOOLEAN]]
  /\ heirs \in [Sids -> Nat] /\ intruders \in SUBSET Sids

SessInit ==
  /\ account = [u \in Users |-> NoAccount] /\ linked = NoUser /\ employment = "ACTIVE"
  /\ sessions = {} /\ expired = {} /\ owner = [s \in Sids |-> NoUser] /\ issued = 0
  /\ access = [c \in Calls |-> Idle] /\ changes = 0
  /\ heirs = [s \in Sids |-> 0] /\ intruders = {}

Begins(c, call) == access[c].pc = "idle" /\ access' = [access EXCEPT ![c] = call]
At(c, step) == access[c].pc = step
Goes(c, step) == access' = [access EXCEPT ![c].pc = step]
Answers(c) == access' = [access EXCEPT ![c] = Idle]
Changes == changes < MaxChanges /\ changes' = changes + 1

\* user_session::delete_many by user
Revoke(u) ==
  /\ sessions' = {s \in sessions : owner[s] # u}
  /\ expired' = {s \in expired : owner[s] # u}
  /\ UNCHANGED <<owner, issued, heirs, intruders>>

\* both reads of the user row refuse an inactive account
MayEnter(u) == account[u].exists /\ account[u].active

-----------------------------------------------------------------------------
(* kabipay-auth *)

\* client_login up to the password check, which works on the copy of the row
LoginRead(c, u) ==
  /\ MayEnter(u)
  /\ Begins(c, [Idle EXCEPT !.pc = "issue", !.user = u])
  /\ UNCHANGED <<accountVars, sessionVars, changes>>

\* client_refresh finds a session by the digest of the token
RefreshLookup(c, s) ==
  /\ s \in sessions
  /\ Begins(c, [Idle EXCEPT !.pc = "check", !.user = owner[s], !.sid = s,
                            !.inactive = ~account[owner[s]].active])
  /\ UNCHANGED <<accountVars, sessionVars, changes>>

RefreshExpired(c, s) ==
  /\ access[c].pc = "idle" /\ s \in expired
  /\ expired' = expired \ {s}
  /\ UNCHANGED <<accountVars, sessions, owner, issued, heirs, intruders, access, changes>>

\* bug: only the login looks at is_active
RefreshCheckless(c) ==
  /\ At(c, "check")
  /\ IF account[access[c].user].exists THEN Goes(c, "consume") ELSE Answers(c)
  /\ UNCHANGED <<accountVars, sessionVars, changes>>

RefreshCheck(c) ==
  /\ At(c, "check")
  /\ IF MayEnter(access[c].user)
     THEN access' = [access EXCEPT ![c].pc = "consume", ![c].inactive = FALSE]
     ELSE Answers(c)
  /\ UNCHANGED <<accountVars, sessionVars, changes>>

\* bug: the number of deleted rows is not looked at
ConsumeUnchecked(c) ==
  /\ At(c, "consume")
  /\ sessions' = sessions \ {access[c].sid} /\ expired' = expired \ {access[c].sid}
  /\ Goes(c, "issue")
  /\ UNCHANGED <<accountVars, owner, issued, heirs, intruders, changes>>

\* rows_affected # 1: somebody else consumed or revoked it
RefreshConsume(c) ==
  /\ At(c, "consume")
  /\ LET s == access[c].sid IN
     IF s \in sessions \cup expired
     THEN /\ sessions' = sessions \ {s} /\ expired' = expired \ {s}
          /\ Goes(c, "issue")
     ELSE Answers(c) /\ UNCHANGED <<sessions, expired>>
  /\ UNCHANGED <<accountVars, owner, issued, heirs, intruders, changes>>

\* issue_client_tokens: the access token, and the row for the refresh token
Issue(c) ==
  LET s == issued + 1
      u == access[c].user
      from == access[c].sid
  IN /\ At(c, "issue") /\ s \in Sids
     /\ issued' = s /\ sessions' = sessions \cup {s}
     /\ owner' = [owner EXCEPT ![s] = u]
     /\ heirs' = IF from = NoSid THEN heirs ELSE [heirs EXCEPT ![from] = @ + 1]
     /\ intruders' = IF access[c].inactive /\ ~account[u].active
                     THEN intruders \cup {s} ELSE intruders
     /\ Answers(c)
     /\ UNCHANGED <<accountVars, expired, changes>>

Logout(s) ==
  /\ s \in sessions \cup expired
  /\ sessions' = sessions \ {s} /\ expired' = expired \ {s}
  /\ UNCHANGED <<accountVars, owner, issued, heirs, intruders, access, changes>>

Expires(s) ==
  /\ s \in sessions
  /\ sessions' = sessions \ {s} /\ expired' = expired \cup {s}
  /\ UNCHANGED <<accountVars, owner, issued, heirs, intruders, access, changes>>

\* client_change_password: the bearer of any access token issued before, who knows the password
ChangeRead(c, u) ==
  /\ MayEnter(u) /\ \E s \in 1..issued : owner[s] = u
  /\ Begins(c, [Idle EXCEPT !.pc = "writePassword", !.user = u])
  /\ UNCHANGED <<accountVars, sessionVars, changes>>

ChangeWrite(c) ==
  /\ At(c, "writePassword") /\ Changes
  /\ account' = [account EXCEPT ![access[c].user].password = changes + 1,
                                ![access[c].user].mustChange = FALSE]
  /\ Goes(c, "revoke")
  /\ UNCHANGED <<linked, employment, sessionVars>>

ChangeRevoke(c) ==
  /\ At(c, "revoke")
  /\ Revoke(access[c].user)
  /\ Answers(c)
  /\ UNCHANGED <<accountVars, changes>>

-----------------------------------------------------------------------------
(* HR *)

\* provision_login_in_transaction: employee.user_id is empty, read without a lock
ProvisionRead(c, u) ==
  /\ linked = NoUser /\ ~account[u].exists
  /\ \A d \in Calls : At(d, "provision") => access[d].user # u
  /\ Begins(c, [Idle EXCEPT !.pc = "provision", !.user = u, !.before = employment])
  /\ UNCHANGED <<accountVars, sessionVars, changes>>

\* insert_login_user, and the employee row that was read
ProvisionWrite(c) ==
  LET u == access[c].user IN
  /\ At(c, "provision") /\ Changes
  /\ account' = [account EXCEPT ![u] = [exists |-> TRUE, active |-> access[c].before # "TERMINATED",
                                        password |-> changes + 1, mustChange |-> TRUE]]
  /\ linked' = u
  /\ Answers(c)
  /\ UNCHANGED <<employment, sessionVars>>

\* reset_linked_user_password
ResetPassword ==
  /\ linked # NoUser /\ Changes
  /\ account' = [account EXCEPT ![linked].password = changes + 1, ![linked].mustChange = TRUE]
  /\ Revoke(linked)
  /\ UNCHANGED <<linked, employment, access>>

\* replace_user_roles_in_transaction: the roles themselves are read at every issue
SetRoles(u) ==
  /\ account[u].exists /\ Changes
  /\ Revoke(u)
  /\ UNCHANGED <<accountVars, access>>

\* update of an employee: the previous status is read first
UpdateRead(c) ==
  /\ Begins(c, [Idle EXCEPT !.pc = "writeStatus", !.user = linked, !.before = employment])
  /\ UNCHANGED <<accountVars, sessionVars, changes>>

\* linked_user_activity_change
ActiveAfter(before, status, active) ==
  IF status = "TERMINATED" THEN FALSE ELSE before = "TERMINATED" \/ active

\* the row is written with the user_id that was read, and sync_linked_user_status follows it
UpdateWrite(c, status) ==
  LET u == access[c].user IN
  /\ At(c, "writeStatus") /\ Changes
  /\ employment' = status /\ linked' = u
  /\ account' = IF u = NoUser THEN account
                ELSE [account EXCEPT ![u].active = ActiveAfter(access[c].before, status, @)]
  /\ IF status = "TERMINATED" THEN Revoke(u) ELSE UNCHANGED sessionVars
  /\ Answers(c)

\* a request that dies, or whose next statement fails, stops where it is
Dies(c) ==
  /\ access[c].pc # "idle"
  /\ Answers(c)
  /\ UNCHANGED <<accountVars, sessionVars, changes>>
SessNext ==
  \/ \E c \in Calls : \/ \E u \in Users : LoginRead(c, u) \/ ChangeRead(c, u) \/ ProvisionRead(c, u)
                     \/ \E s \in Sids : RefreshLookup(c, s) \/ RefreshExpired(c, s)
                     \/ RefreshCheck(c) \/ RefreshConsume(c) \/ Issue(c)
                     \/ ChangeWrite(c) \/ ChangeRevoke(c)
                     \/ ProvisionWrite(c) \/ UpdateRead(c)
                     \/ \E status \in Statuses : UpdateWrite(c, status)
                     \/ Dies(c)
  \/ \E s \in Sids : Logout(s) \/ Expires(s)
  \/ ResetPassword
  \/ \E u \in Users : SetRoles(u)

SessSpec == SessInit /\ [][SessNext]_sessVars

-----------------------------------------------------------------------------
(* Properties *)

\* A refresh token is good for one exchange, however many requests present it at
\* once (client_refresh: rows_affected of the delete).
RefreshOnce == \A s \in Sids : heirs[s] <= 1

\* An account that HR or an offboarding switched off gets no token by a refresh
\* that began afterwards, unless it was switched on again meanwhile; a login that
\* read the account before may leave a session behind (client_login, client_refresh).
InactiveGetsNoToken == intruders = {}

\* The two promises about tokens
TokensHold == RefreshOnce /\ InactiveGetsNoToken
=============================================================================
