---------------------------- MODULE Reservations ----------------------------
(***************************************************************************)
(* What a leave account promises, without workflows, allocation rows and    *)
(* dates: a request takes its shares of the accounts when it is submitted,  *)
(* never changes them, and its decision moves exactly those shares; nothing *)
(* else moves a counter, and no account promises more than it was granted.  *)
(* What HR writes over an account ends the promise for that account only.   *)
(***************************************************************************)
EXTENDS Integers

CONSTANTS Requests, Accounts

VARIABLES
  stage,     \* stage[r]: NONE, PENDING, APPROVED, REJECTED or CANCELLED
  share,     \* share[r][a]: what request r takes of account a
  reserved,  \* reserved[a]: for requests that are pending ...
  spent,     \* ... and for those that were approved
  limit,     \* limit[a]: what was granted
  overruled  \* accounts that HR wrote over

reservationVars == <<stage, share, reserved, spent, limit, overruled>>

Zero == [a \in Accounts |-> 0]

Init ==
  /\ stage = [r \in Requests |-> "NONE"] /\ share = [r \in Requests |-> Zero]
  /\ reserved = Zero /\ spent = Zero /\ limit = Zero /\ overruled = {}

Hold(r) ==
  /\ stage[r] = "NONE" /\ stage' = [stage EXCEPT ![r] = "PENDING"]
  /\ share'[r] \in [Accounts -> Nat] /\ share' = [share EXCEPT ![r] = share'[r]]
  /\ reserved' = [a \in Accounts |-> reserved[a] + share'[r][a]]
  /\ \A a \in Accounts : share'[r][a] > 0 => reserved'[a] + spent[a] <= limit[a]
  /\ UNCHANGED <<spent, limit, overruled>>

\* A decision moves the counters to res and spd.  Those of an overruled account may
\* move otherwise, but promise no more than before.
Settles(res, spd) ==
  /\ reserved' \in [Accounts -> Int] /\ spent' \in [Accounts -> Int]
  /\ \A a \in Accounts \ overruled : reserved'[a] = res[a] /\ spent'[a] = spd[a]
  /\ \A a \in overruled : reserved'[a] + spent'[a] <= reserved[a] + spent[a]
  /\ UNCHANGED <<share, limit, overruled>>

Spend(r) ==
  /\ stage[r] = "PENDING" /\ stage' = [stage EXCEPT ![r] = "APPROVED"]
  /\ Settles([a \in Accounts |-> reserved[a] - share[r][a]],
             [a \in Accounts |-> spent[a] + share[r][a]])

Release(r) ==
  /\ stage[r] = "PENDING"
  /\ \E s \in {"REJECTED", "CANCELLED"} : stage' = [stage EXCEPT ![r] = s]
  /\ Settles([a \in Accounts |-> reserved[a] - share[r][a]], spent)

\* an approved leave is taken back
Refund(r) ==
  /\ stage[r] = "APPROVED" /\ stage' = [stage EXCEPT ![r] = "CANCELLED"]
  /\ Settles(reserved, [a \in Accounts |-> spent[a] - share[r][a]])

\* The grants change, to no less than is reserved and spent.
Grant ==
  /\ UNCHANGED <<stage, overruled, share, reserved, spent>>
  /\ limit' \in [Accounts -> Int]
  /\ \A a \in Accounts : limit'[a] # limit[a] => reserved[a] + spent[a] <= limit'[a]

\* HR writes over some accounts, or over what their counters mean.
Overrule ==
  /\ UNCHANGED <<stage, share>>
  /\ overruled' \in SUBSET Accounts /\ overruled \subseteq overruled'
  /\ reserved' \in [Accounts -> Int] /\ spent' \in [Accounts -> Int]
  /\ limit' \in [Accounts -> Int]
  /\ \A a \in Accounts \ overruled' :
       reserved'[a] = reserved[a] /\ spent'[a] = spent[a] /\ limit'[a] = limit[a]
  /\ \A a \in overruled' :
       reserved[a] + spent[a] <= limit[a] => reserved'[a] + spent'[a] <= limit'[a]

Next ==
  \/ \E r \in Requests : Hold(r) \/ Spend(r) \/ Release(r) \/ Refund(r)
  \/ Grant \/ Overrule

Spec == Init /\ [][Next]_reservationVars
=============================================================================
