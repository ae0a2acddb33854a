------------------------------ MODULE Accounts ------------------------------
(***************************************************************************)
(* Changes of e-mail address of the staff accounts and of the super admin  *)
(* (account-security-service, auth-action-token-repository).  A request    *)
(* sends one token to the old and one to the new address; the tokens are   *)
(* confirmed on public routes, each by several database statements outside *)
(* a transaction, and the change is applied by whoever finds both used.    *)
(***************************************************************************)
EXTENDS Naturals, Sequences, FiniteSets

CONSTANTS
  Staff,         \* staff accounts
  Super,         \* the super admin
  Emails,        \* e-mail addresses
  FirstEmail,    \* the address of each account at first
  Clicks,        \* confirmations served at the same time
  RowSecurity,   \* the database role is subject to row level security
  MaxRequests    \* bound on the requests

Holders == Staff \cup {Super}

ASSUME FirstEmailAssumption == FirstEmail \in [Holders -> Emails]

VARIABLES
  email,     \* staff_users.email, super_admin_auth_settings.email
  requests,  \* the two auth_action_tokens of each request, in their order
  click      \* what each confirmation is doing

accountVars == <<email, requests, click>>

BothEnds     == {"old", "new"}
NoClick  == [at |-> "idle", request |-> 0, end |-> "old"]

AccountsInit ==
  /\ email = FirstEmail
  /\ requests = <<>>
  /\ click = [k \in Clicks |-> NoClick]

InUse(a, e) == a # Super /\ \E b \in Staff \ {a} : email[b] = e

\* requestStaffEmailChange, requestSuperEmailChange.
RequestChange(a, e) ==
  /\ Len(requests) < MaxRequests
  /\ e # email[a] /\ ~InUse(a, e)
  /\ requests' = Append(requests, [account |-> a, email |-> e, used |-> {}, expired |-> FALSE])
  /\ UNCHANGED <<email, click>>

\* The tokens of a request are created together and expire together.
ExpireRequest(r) ==
  /\ ~requests[r].expired
  /\ requests' = [requests EXCEPT ![r].expired = TRUE]
  /\ UNCHANGED <<email, click>>

-----------------------------------------------------------------------------
(* confirmStaffEmailChange, confirmSuperEmailChange.                       *)

ClickAt(k, step) == click' = [click EXCEPT ![k].at = step]
ClickEnded(k)    == click' = [click EXCEPT ![k] = NoClick]

\* lookupActiveByTokenHash.
LookUpToken(k, r, end) ==
  /\ click[k].at = "idle"
  /\ end \notin requests[r].used /\ ~requests[r].expired
  /\ click' = [click EXCEPT ![k] = [at |-> "mark", request |-> r, end |-> end]]
  /\ UNCHANGED <<email, requests>>

\* markUsed, for one confirmation of each token; the other fails on the null.
MarkUsed(k) ==
  LET r == click[k].request
  IN  /\ click[k].at = "mark"
      /\ IF click[k].end \in requests[r].used
           THEN ClickEnded(k) /\ UNCHANGED requests
           ELSE /\ requests' = [requests EXCEPT ![r].used = @ \cup {click[k].end}]
                /\ ClickAt(k, "check")
      /\ UNCHANGED email

OneUsed(r)  == requests[r].used # {}
BothUsed(r) == requests[r].used = BothEnds

\* The routes set no tenant: row level security hides the account of a member
\* of the staff, and the settings of the super admin have none.
Found(a) == a = Super \/ ~RowSecurity

\* maybeApply...: what it reads, up to the address not being in use.
Check(k) ==
  LET r == click[k].request
      a == requests[r].account
  IN  /\ click[k].at = "check"
      /\ IF BothUsed(r) /\ Found(a) /\ ~InUse(a, requests[r].email)
           THEN ClickAt(k, "apply") ELSE ClickEnded(k)
      /\ UNCHANGED <<email, requests>>

\* The UPDATE fails when the address has been taken since: it is unique.
ApplyChange(k) ==
  LET r == click[k].request
      a == requests[r].account
  IN  /\ click[k].at = "apply"
      /\ email' = IF InUse(a, requests[r].email) THEN email
                  ELSE [email EXCEPT ![a] = requests[r].email]
      /\ ClickEnded(k)
      /\ UNCHANGED requests

\* A statement fails, or the process dies.
AbandonClick(k) ==
  /\ click[k].at # "idle"
  /\ ClickEnded(k)
  /\ UNCHANGED <<email, requests>>

Confirms(k) ==
  \/ \E r \in DOMAIN requests, end \in BothEnds : LookUpToken(k, r, end)
  \/ MarkUsed(k) \/ Check(k) \/ ApplyChange(k)

AccountsNext ==
  \/ \E a \in Holders, e \in Emails : RequestChange(a, e)
  \/ \E r \in DOMAIN requests : ExpireRequest(r)
  \/ \E k \in Clicks : Confirms(k) \/ AbandonClick(k)

AccountsSpec == AccountsInit /\ [][AccountsNext]_accountVars

-----------------------------------------------------------------------------
(* Properties.                                                             *)

(* An account only ever has an address that both of its ends confirmed,    *)
(* however requests for several accounts and addresses overlap and expire. *)
EmailIsConfirmed ==
  \A a \in Holders :
    \/ email[a] = FirstEmail[a]
    \/ \E r \in DOMAIN requests :
         requests[r].account = a /\ requests[r].email = email[a] /\ requests[r].used = BothEnds
=============================================================================
