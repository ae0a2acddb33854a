----------------------------- MODULE AccessProofs -----------------------------
(***************************************************************************)
(* Proofs about the sessions and the addresses of accounts, and about the  *)
(* migrations a process needs before it serves anybody.                    *)
(***************************************************************************)
EXTENDS Accounts, BrowserSessions, Migrations, SequenceTheorems, TLAPS

-----------------------------------------------------------------------------
(***************************************************************************)
(* Proof that an account only ever has an address both ends confirmed.     *)
(***************************************************************************)

(* The inductive invariant.                                                *)

EmailRequest == [account : Holders, email : Emails, used : SUBSET BothEnds, expired : BOOLEAN]

ClickState == [at : {"idle", "mark", "check", "apply"}, request : Nat, end : BothEnds]

AccountsTyped ==
  /\ email \in [Holders -> Emails]
  /\ requests \in Seq(EmailRequest)
  /\ click \in [Clicks -> ClickState]

\* A confirmation has a request, and applies it when both tokens are used:
\* used tokens stay used.
ClicksFit ==
  \A k \in Clicks :
    /\ click[k].at # "idle" => click[k].request \in DOMAIN requests
    /\ click[k].at = "apply" => requests[click[k].request].used = BothEnds

AccountsInv == AccountsTyped /\ ClicksFit /\ EmailIsConfirmed

-----------------------------------------------------------------------------
(* The steps.                                                              *)

LEMMA NoClickType == NoClick \in ClickState /\ NoClick.at = "idle"
BY DEF NoClick, ClickState, BothEnds

LEMMA AccountsAtFirst ==
  ASSUME AccountsInit
  PROVE  AccountsInv
<1>1. AccountsTyped
  BY NoClickType, FirstEmailAssumption, EmptySeq DEF AccountsInit, AccountsTyped
<1>2. ClicksFit /\ EmailIsConfirmed
  BY NoClickType DEF AccountsInit, ClicksFit, EmailIsConfirmed
<1> QED BY <1>1, <1>2 DEF AccountsInv

\* Requests are only added, expire, and have more of their tokens used.
RequestsGrow ==
  /\ requests' \in Seq(EmailRequest)
  /\ DOMAIN requests \subseteq DOMAIN requests'
  /\ \A r \in DOMAIN requests :
       /\ requests'[r].account = requests[r].account
       /\ requests'[r].email = requests[r].email
       /\ requests[r].used \subseteq requests'[r].used
       /\ requests'[r].used \subseteq BothEnds

LEMMA RequestsMove ==
  ASSUME AccountsInv, RequestsGrow, email' = email,
         click' \in [Clicks -> ClickState], ClicksFit'
  PROVE  AccountsInv'
<1>1. AccountsTyped'
  BY DEF AccountsInv, AccountsTyped, RequestsGrow
<1>2. EmailIsConfirmed'
  <2>1. ASSUME NEW a \in Holders, email[a] # FirstEmail[a]
        PROVE  \E r \in DOMAIN requests' :
                 /\ requests'[r].account = a /\ requests'[r].email = email[a]
                 /\ requests'[r].used = BothEnds
    <3>1. PICK r \in DOMAIN requests :
            requests[r].account = a /\ requests[r].email = email[a] /\ requests[r].used = BothEnds
      BY <2>1 DEF AccountsInv, EmailIsConfirmed
    <3>2. /\ r \in DOMAIN requests' /\ requests'[r].account = a
          /\ requests'[r].email = email[a] /\ requests'[r].used = BothEnds
      BY <3>1 DEF RequestsGrow
    <3> QED BY <3>2
  <2> QED BY <2>1 DEF EmailIsConfirmed
<1> QED BY <1>1, <1>2 DEF AccountsInv

\* The confirmations of others still fit when the requests have grown.
LEMMA ClicksStay ==
  ASSUME AccountsInv, RequestsGrow, NEW k \in Clicks, click'[k] = click[k]
  PROVE  /\ click'[k].at # "idle" => click'[k].request \in DOMAIN requests'
         /\ click'[k].at = "apply" => requests'[click'[k].request].used = BothEnds
<1>1. click[k].at # "idle" => click[k].request \in DOMAIN requests
  BY DEF AccountsInv, ClicksFit
<1>2. ASSUME click[k].at = "apply"
      PROVE  requests'[click[k].request].used = BothEnds
  <2>1. requests[click[k].request].used = BothEnds /\ click[k].request \in DOMAIN requests
    BY <1>1, <1>2 DEF AccountsInv, ClicksFit
  <2> QED BY <2>1 DEF RequestsGrow
<1> QED BY <1>1, <1>2 DEF RequestsGrow

LEMMA RequestsStay ==
  ASSUME AccountsInv, requests' = requests
  PROVE  RequestsGrow
<1>1. \A r \in DOMAIN requests : requests[r] \in EmailRequest
  BY DEF AccountsInv, AccountsTyped
<1> QED BY <1>1 DEF AccountsInv, AccountsTyped, RequestsGrow, EmailRequest

LEMMA RequestChangeKeeps ==
  ASSUME AccountsInv, NEW a \in Holders, NEW e \in Emails, RequestChange(a, e)
  PROVE  AccountsInv'
<1> DEFINE new == [account |-> a, email |-> e, used |-> {}, expired |-> FALSE]
<1>1. requests' = Append(requests, new) /\ UNCHANGED <<email, click>>
  BY DEF RequestChange
<1>2. new \in EmailRequest /\ requests \in Seq(EmailRequest)
  BY DEF EmailRequest, AccountsInv, AccountsTyped
<1> HIDE DEF new
<1>3. /\ requests' \in Seq(EmailRequest) /\ DOMAIN requests \subseteq DOMAIN requests'
      /\ \A r \in DOMAIN requests : requests'[r] = requests[r] /\ requests[r] \in EmailRequest
  BY <1>1, <1>2
<1>4. RequestsGrow
  BY <1>3 DEF RequestsGrow, EmailRequest
<1>5. click' \in [Clicks -> ClickState] /\ ClicksFit'
  BY <1>1, <1>4, ClicksStay DEF ClicksFit, AccountsInv, AccountsTyped
<1> QED BY <1>1, <1>4, <1>5, RequestsMove

LEMMA ExpireRequestKeeps ==
  ASSUME AccountsInv, NEW r \in DOMAIN requests, ExpireRequest(r)
  PROVE  AccountsInv'
<1> DEFINE row == [requests[r] EXCEPT !.expired = TRUE]
<1>1. requests[r] \in EmailRequest /\ requests \in Seq(EmailRequest)
  BY DEF AccountsInv, AccountsTyped
<1>2. requests' = [requests EXCEPT ![r] = row] /\ UNCHANGED <<email, click>>
  BY <1>1 DEF ExpireRequest, EmailRequest
<1>3. /\ row \in EmailRequest /\ row.account = requests[r].account
      /\ row.email = requests[r].email /\ row.used = requests[r].used
  BY <1>1 DEF EmailRequest
<1> HIDE DEF row
<1>4. /\ requests' \in Seq(EmailRequest) /\ DOMAIN requests' = DOMAIN requests
      /\ requests'[r] = row
      /\ \A i \in DOMAIN requests : i # r => requests'[i] = requests[i]
      /\ \A i \in DOMAIN requests : requests'[i] \in EmailRequest
  BY <1>1, <1>2, <1>3
<1>5. RequestsGrow
  BY <1>3, <1>4 DEF RequestsGrow, EmailRequest
<1>6. click' \in [Clicks -> ClickState] /\ ClicksFit'
  BY <1>2, <1>5, ClicksStay DEF ClicksFit, AccountsInv, AccountsTyped
<1> QED BY <1>2, <1>5, <1>6, RequestsMove

\* One confirmation goes on to state c, and the requests grow.
LEMMA ClickMoves ==
  ASSUME AccountsInv, RequestsGrow, email' = email,
         NEW k \in Clicks, NEW c \in ClickState, click' = [click EXCEPT ![k] = c],
         c.at # "idle" => c.request \in DOMAIN requests',
         c.at = "apply" => requests'[c.request].used = BothEnds
  PROVE  AccountsInv'
<1>1. /\ click' \in [Clicks -> ClickState] /\ click'[k] = c
      /\ \A j \in Clicks \ {k} : click'[j] = click[j]
  BY DEF AccountsInv, AccountsTyped
<1>2. ClicksFit'
  BY <1>1, ClicksStay DEF ClicksFit
<1> QED BY <1>1, <1>2, RequestsMove

LEMMA ClickEndedKeeps ==
  ASSUME AccountsInv, NEW k \in Clicks, ClickEnded(k), UNCHANGED <<email, requests>>
  PROVE  AccountsInv'
BY NoClickType, RequestsStay, ClickMoves DEF ClickEnded

\* The step of a confirmation that goes on.
LEMMA ClickAtMoves ==
  ASSUME AccountsInv, NEW k \in Clicks, NEW step \in {"check", "apply"}, ClickAt(k, step)
  PROVE  \E c \in ClickState :
           /\ click' = [click EXCEPT ![k] = c]
           /\ c.at = step /\ c.request = click[k].request
<1> DEFINE c == [click[k] EXCEPT !.at = step]
<1>1. click[k] \in ClickState
  BY DEF AccountsInv, AccountsTyped
<1>2. c \in ClickState /\ c.at = step /\ c.request = click[k].request
  BY <1>1 DEF ClickState
<1>3. click' = [click EXCEPT ![k] = c]
  BY <1>1 DEF ClickAt, ClickState, AccountsInv, AccountsTyped
<1> QED BY <1>2, <1>3

LEMMA LookUpTokenKeeps ==
  ASSUME AccountsInv, NEW k \in Clicks, NEW r \in DOMAIN requests, NEW end \in BothEnds,
         LookUpToken(k, r, end)
  PROVE  AccountsInv'
<1> DEFINE c == [at |-> "mark", request |-> r, end |-> end]
<1>1. click' = [click EXCEPT ![k] = c] /\ UNCHANGED <<email, requests>>
  BY DEF LookUpToken
<1>2. c \in ClickState /\ c.at = "mark" /\ c.request \in DOMAIN requests'
  BY <1>1 DEF ClickState, AccountsInv, AccountsTyped
<1> HIDE DEF c
<1> QED BY <1>1, <1>2, RequestsStay, ClickMoves

LEMMA MarkUsedKeeps ==
  ASSUME AccountsInv, NEW k \in Clicks, MarkUsed(k)
  PROVE  AccountsInv'
<1>1. PICK r \in DOMAIN requests : r = click[k].request
  BY DEF AccountsInv, ClicksFit, MarkUsed
<1>2. PICK end \in BothEnds : end = click[k].end
  BY DEF AccountsInv, AccountsTyped, ClickState
<1>3. CASE end \in requests[r].used
  BY <1>1, <1>2, <1>3, ClickEndedKeeps DEF MarkUsed
<1>4. CASE end \notin requests[r].used
  <2> DEFINE row == [requests[r] EXCEPT !.used = @ \cup {end}]
  <2>1. requests[r] \in EmailRequest /\ requests \in Seq(EmailRequest)
    BY DEF AccountsInv, AccountsTyped
  <2>2. requests' = [requests EXCEPT ![r] = row] /\ email' = email /\ ClickAt(k, "check")
    BY <1>1, <1>2, <1>4, <2>1 DEF MarkUsed, EmailRequest
  <2>3. /\ row \in EmailRequest /\ row.account = requests[r].account
        /\ row.email = requests[r].email /\ requests[r].used \subseteq row.used
    BY <2>1 DEF EmailRequest
  <2> HIDE DEF row
  <2>4. /\ requests' \in Seq(EmailRequest) /\ DOMAIN requests' = DOMAIN requests
        /\ requests'[r] = row
        /\ \A i \in DOMAIN requests : i # r => requests'[i] = requests[i]
        /\ \A i \in DOMAIN requests : requests'[i] \in EmailRequest
    BY <2>1, <2>2, <2>3
  <2>5. RequestsGrow
    BY <2>3, <2>4 DEF RequestsGrow, EmailRequest
  <2>6. PICK c \in ClickState :
          click' = [click EXCEPT ![k] = c] /\ c.at = "check" /\ c.request = click[k].request
    BY <2>2, ClickAtMoves
  <2> QED BY <1>1, <2>2, <2>4, <2>5, <2>6, ClickMoves
<1> QED BY <1>3, <1>4

LEMMA CheckKeeps ==
  ASSUME AccountsInv, NEW k \in Clicks, Check(k)
  PROVE  AccountsInv'
<1>1. click[k].request \in DOMAIN requests /\ UNCHANGED <<email, requests>>
  BY DEF AccountsInv, ClicksFit, Check
<1>2. CASE ClickEnded(k)
  BY <1>1, <1>2, ClickEndedKeeps
<1>3. CASE BothUsed(click[k].request) /\ ClickAt(k, "apply")
  <2>1. PICK c \in ClickState :
          click' = [click EXCEPT ![k] = c] /\ c.at = "apply" /\ c.request = click[k].request
    BY <1>3, ClickAtMoves
  <2>2. requests'[c.request].used = BothEnds
    BY <1>1, <1>3, <2>1 DEF BothUsed
  <2> QED BY <1>1, <2>1, <2>2, RequestsStay, ClickMoves
<1> QED BY <1>2, <1>3 DEF Check

LEMMA ApplyChangeKeeps ==
  ASSUME AccountsInv, NEW k \in Clicks, ApplyChange(k)
  PROVE  AccountsInv'
<1>1. PICK r \in DOMAIN requests : r = click[k].request /\ requests[r].used = BothEnds
  BY DEF AccountsInv, ClicksFit, ApplyChange
<1>2. requests[r] \in EmailRequest
  BY DEF AccountsInv, AccountsTyped
<1>3. PICK a \in Holders : a = requests[r].account
  BY <1>2 DEF EmailRequest
<1>4. requests[r].email \in Emails
  BY <1>2 DEF EmailRequest
<1>5. CASE email' = email
  BY <1>5, ClickEndedKeeps DEF ApplyChange
<1>6. CASE email' = [email EXCEPT ![a] = requests[r].email]
  <2>1. click' = [click EXCEPT ![k] = NoClick] /\ requests' = requests
    BY DEF ApplyChange, ClickEnded
  <2>2. /\ email' \in [Holders -> Emails] /\ email'[a] = requests[r].email
        /\ \A b \in Holders \ {a} : email'[b] = email[b]
    BY <1>4, <1>6 DEF AccountsInv, AccountsTyped
  <2>3. /\ click' \in [Clicks -> ClickState] /\ click'[k] = NoClick
        /\ \A j \in Clicks \ {k} : click'[j] = click[j]
    BY <2>1, NoClickType DEF AccountsInv, AccountsTyped
  <2>4. AccountsTyped'
    BY <2>1, <2>2, <2>3 DEF AccountsInv, AccountsTyped
  <2>5. ClicksFit'
    BY <2>1, <2>3, NoClickType DEF AccountsInv, ClicksFit
  <2>6. EmailIsConfirmed'
    BY <1>1, <1>3, <2>1, <2>2 DEF AccountsInv, EmailIsConfirmed
  <2> QED BY <2>4, <2>5, <2>6 DEF AccountsInv
<1> QED BY <1>1, <1>3, <1>5, <1>6 DEF ApplyChange

LEMMA AccountsStepsKeep ==
  ASSUME AccountsInv, [AccountsNext]_accountVars
  PROVE  AccountsInv'
<1>1. CASE UNCHANGED accountVars
  BY <1>1 DEF accountVars, AccountsInv, AccountsTyped, ClicksFit, EmailIsConfirmed
<1>2. ASSUME NEW k \in Clicks, AbandonClick(k) PROVE AccountsInv'
  BY <1>2, ClickEndedKeeps DEF AbandonClick
<1>3. ASSUME NEW k \in Clicks, Confirms(k) PROVE AccountsInv'
  BY <1>3, LookUpTokenKeeps, MarkUsedKeeps, CheckKeeps, ApplyChangeKeeps DEF Confirms
<1> QED BY <1>1, <1>2, <1>3, RequestChangeKeeps, ExpireRequestKeeps DEF AccountsNext

-----------------------------------------------------------------------------
(* The theorems.                                                           *)

\* The inductive invariant holds in every reachable state.
THEOREM AccountsInvAlways == AccountsSpec => []AccountsInv
<1> QED BY AccountsAtFirst, AccountsStepsKeep, PTL DEF AccountsSpec

\* However many requests and confirmations overlap, expire or break off: an
\* account has its first address, or one that both ends of a request confirmed.
\* The statements that apply a change are not in a transaction; the proof rests
\* on used tokens staying used.
THEOREM EmailCorrect == AccountsSpec => []EmailIsConfirmed
<1>1. AccountsInv => EmailIsConfirmed
  BY DEF AccountsInv
<1> QED BY <1>1, AccountsInvAlways, PTL

-----------------------------------------------------------------------------
(***************************************************************************)
(* Proofs about BrowserSessions for any number of requests, links and      *)
(* sessions and any times that the table accepts.                          *)
(*                                                                         *)
(* Two parts of the invariant make it inductive.  A link that is not used  *)
(* has opened no session (UnusedIsFresh), one that is used and has not     *)
(* opened one yet is in the hands of one request (OneOpener).  And what a  *)
(* request has in its hands, a copy of a session or an idle time to write, *)
(* obeys the policy although the session has gone on since (VisitFits).    *)
(***************************************************************************)

Session ==
  [seen : Nat, idle : Nat, absolute : Nat, ended : BOOLEAN, link : Links \cup {Nil}]

Errand ==
  [at : {"gone", "consume", "open", "judge", "touch", "admit"}, cookie : Nat \cup {Nil},
   link : Links \cup {Nil}, copy : Session \cup {Nil}, idle : Nat]

SessionsTypeOK ==
  /\ time \in Nat
  /\ opened \in Seq(Session)
  /\ usedAt \in Seq(Nat) /\ Len(usedAt) = Len(opened)
  /\ linkUsed \in [Links -> BOOLEAN]
  /\ visitor \in [Visitors -> Errand]

Within(s, use) == s.idle <= use + Idle /\ s.idle <= s.absolute

VisitFits(x, sessions, uses, links) ==
  /\ x.at \in {"consume", "open"} => x.link \in Links
  /\ x.at = "open" => /\ links[x.link]
                      /\ \A c \in DOMAIN sessions : sessions[c].link # x.link
  /\ x.at \in {"judge", "touch", "admit"} => x.cookie \in DOMAIN sessions
  /\ x.at = "judge" => x.copy \in Session /\ Within(x.copy, uses[x.cookie])
  /\ x.at = "touch" => x.idle <= uses[x.cookie] + Idle

VisitsFit == \A v \in Visitors : VisitFits(visitor[v], opened, usedAt, linkUsed)

RowsFit ==
  \A c \in DOMAIN opened : usedAt[c] <= time /\ Within(opened[c], usedAt[c])

UnusedIsFresh ==
  \A l \in Links : ~linkUsed[l] => \A c \in DOMAIN opened : opened[c].link # l

OneOpener ==
  \A v, w \in Visitors :
    visitor[v].at = "open" /\ visitor[w].at = "open" /\ visitor[v].link = visitor[w].link
      => v = w

SessionsInv == SessionsTypeOK /\ RowsFit /\ VisitsFit /\ UnusedIsFresh /\ OneOpener /\ LinkOpensOnce

-----------------------------------------------------------------------------

LEMMA SessionsInitially ==
  ASSUME SessionInit
  PROVE  SessionsInv
<1>1. SessionsTypeOK
  BY EmptySeq DEF SessionInit, SessionsTypeOK, Gone, Errand
<1>2. RowsFit /\ UnusedIsFresh /\ LinkOpensOnce
  BY DEF SessionInit, RowsFit, UnusedIsFresh, LinkOpensOnce
<1>3. VisitsFit /\ OneOpener
  BY DEF SessionInit, Gone, VisitsFit, VisitFits, OneOpener
<1> QED
  BY <1>1, <1>2, <1>3 DEF SessionsInv

\* The rows and the uses have the same numbers.
LEMMA Numbers ==
  ASSUME SessionsTypeOK
  PROVE  /\ Len(opened) \in Nat
         /\ DOMAIN opened = 1..Len(opened) /\ DOMAIN usedAt = 1..Len(opened)
         /\ \A c \in DOMAIN opened : opened[c] \in Session /\ usedAt[c] \in Nat
  BY LenProperties, ElementOfSeq DEF SessionsTypeOK

\* What remains of a visit when sessions are used later and none is added.
LEMMA StillFits ==
  ASSUME PolicyAssumption, SessionsTypeOK, SessionsTypeOK', NEW x \in Errand,
         VisitFits(x, opened, usedAt, linkUsed),
         Len(opened') = Len(opened), UNCHANGED linkUsed,
         \A c \in DOMAIN opened : opened'[c].link = opened[c].link /\ usedAt[c] <= usedAt'[c]
  PROVE  VisitFits(x, opened', usedAt', linkUsed')
<1>1. DOMAIN opened' = DOMAIN opened
  BY LenProperties DEF SessionsTypeOK
<1>2. \A c \in DOMAIN opened : usedAt[c] \in Nat /\ usedAt'[c] \in Nat
  BY LenProperties, ElementOfSeq DEF SessionsTypeOK
<1>3. Idle \in Nat
  BY DEF PolicyAssumption
<1>4. \A c \in DOMAIN opened : usedAt[c] + Idle <= usedAt'[c] + Idle
  BY <1>2, <1>3
<1>5. ASSUME x.at = "judge" PROVE Within(x.copy, usedAt'[x.cookie])
  <2>1. x.copy \in Session /\ x.cookie \in DOMAIN opened /\ Within(x.copy, usedAt[x.cookie])
    BY <1>5 DEF VisitFits
  <2>2. x.copy.idle \in Nat
    BY <2>1 DEF Session
  <2> QED
    BY <1>2, <1>3, <2>1, <2>2 DEF Within
<1>6. ASSUME x.at = "touch" PROVE x.idle <= usedAt'[x.cookie] + Idle
  <2>1. x.cookie \in DOMAIN opened /\ x.idle <= usedAt[x.cookie] + Idle /\ x.idle \in Nat
    BY <1>6 DEF VisitFits, Errand
  <2> QED
    BY <1>2, <1>3, <2>1
<1> QED
  BY <1>1, <1>5, <1>6 DEF VisitFits

\* Steps that add no session and use no link: rows change in place, and one
\* request at most goes on, not to open a session.
LEMMA InPlace ==
  ASSUME PolicyAssumption, SessionsInv, SessionsTypeOK', NEW v \in Visitors, NEW x \in Errand,
         Len(opened') = Len(opened), UNCHANGED linkUsed,
         \A c \in DOMAIN opened :
           /\ opened'[c].link = opened[c].link
           /\ usedAt[c] <= usedAt'[c] /\ usedAt'[c] <= time'
           /\ Within(opened'[c], usedAt'[c]),
         visitor' = visitor \/ (visitor' = [visitor EXCEPT ![v] = x] /\ x.at # "open"),
         VisitFits(x, opened', usedAt', linkUsed')
  PROVE  SessionsInv'
<1>1. DOMAIN opened' = DOMAIN opened
  BY LenProperties DEF SessionsTypeOK, SessionsInv
<1>2. RowsFit'
  BY <1>1 DEF RowsFit
<1>3. UnusedIsFresh' /\ LinkOpensOnce'
  BY <1>1 DEF SessionsInv, UnusedIsFresh, LinkOpensOnce
<1>4. VisitsFit'
  <2>1. ASSUME NEW w \in Visitors PROVE VisitFits(visitor'[w], opened', usedAt', linkUsed')
    <3>1. visitor'[w] = visitor[w] \/ visitor'[w] = x
      BY DEF SessionsInv, SessionsTypeOK
    <3>2. VisitFits(visitor[w], opened', usedAt', linkUsed')
      BY StillFits DEF SessionsInv, SessionsTypeOK, VisitsFit
    <3> QED
      BY <3>1, <3>2
  <2> QED
    BY <2>1 DEF VisitsFit
<1>5. OneOpener'
  BY DEF SessionsInv, SessionsTypeOK, OneOpener
<1> QED
  BY <1>2, <1>3, <1>4, <1>5 DEF SessionsInv

\* The request alone goes on.
LEMMA GoesOn ==
  ASSUME PolicyAssumption, SessionsInv, NEW v \in Visitors, NEW x \in Errand, Moves(v, x), x.at # "open",
         VisitFits(x, opened, usedAt, linkUsed),
         UNCHANGED <<time, opened, usedAt, linkUsed>>
  PROVE  SessionsInv'
<1>1. SessionsTypeOK'
  BY DEF SessionsInv, SessionsTypeOK, Moves
<1>2. \A c \in DOMAIN opened :
        usedAt[c] <= usedAt[c] /\ usedAt[c] <= time /\ Within(opened[c], usedAt[c])
  BY Numbers DEF SessionsInv, RowsFit
<1> QED
  BY <1>1, <1>2, InPlace DEF Moves

LEMMA GoneFits ==
  ASSUME NEW sessions, NEW uses, NEW links
  PROVE  Gone \in Errand /\ Gone.at # "open" /\ VisitFits(Gone, sessions, uses, links)
  BY DEF Gone, Errand, VisitFits

\* A session is ended, or several are, by a request that leaves or by nobody.
LEMMA EndsKeeps ==
  ASSUME PolicyAssumption, SessionsInv, UNCHANGED <<time, usedAt, linkUsed>>,
         Len(opened') = Len(opened), opened' \in Seq(Session),
         \A c \in DOMAIN opened : opened'[c] = opened[c] \/ opened'[c] = Ended(opened[c]),
         NEW v \in Visitors, visitor' = visitor \/ Leaves(v)
  PROVE  SessionsInv'
<1>1. Gone \in Errand /\ Gone.at # "open" /\ VisitFits(Gone, opened', usedAt', linkUsed')
  BY GoneFits
<1>2. SessionsTypeOK'
  BY <1>1 DEF SessionsInv, SessionsTypeOK, Leaves, Moves
<1>3. ASSUME NEW c \in DOMAIN opened
      PROVE  /\ opened'[c].link = opened[c].link
             /\ usedAt[c] <= usedAt[c] /\ usedAt[c] <= time
             /\ Within(opened'[c], usedAt[c])
  <2>1. opened[c] \in Session /\ usedAt[c] \in Nat /\ usedAt[c] <= time
        /\ Within(opened[c], usedAt[c])
    BY Numbers DEF SessionsInv, RowsFit
  <2>2. /\ Ended(opened[c]).link = opened[c].link
        /\ Ended(opened[c]).idle = opened[c].idle
        /\ Ended(opened[c]).absolute = opened[c].absolute
    BY <2>1 DEF Ended, Session
  <2> QED
    BY <2>1, <2>2 DEF Within
<1> QED
  BY <1>1, <1>2, <1>3, InPlace DEF Leaves, Moves

\* Ending one session: the rows as EndsKeeps wants them.
LEMMA EndOne ==
  ASSUME SessionsTypeOK, NEW c \in DOMAIN opened,
         opened' \in {opened, [opened EXCEPT ![c] = Ended(@)]}
  PROVE  /\ Len(opened') = Len(opened) /\ opened' \in Seq(Session)
         /\ \A d \in DOMAIN opened : opened'[d] = opened[d] \/ opened'[d] = Ended(opened[d])
<1>1. Ended(opened[c]) \in Session /\ opened \in Seq(Session) /\ c \in 1..Len(opened)
  BY Numbers DEF Ended, Session, SessionsTypeOK
<1>2. /\ [opened EXCEPT ![c] = Ended(opened[c])] \in Seq(Session)
      /\ Len([opened EXCEPT ![c] = Ended(opened[c])]) = Len(opened)
      /\ \A d \in DOMAIN opened : [opened EXCEPT ![c] = Ended(opened[c])][d]
                                    = IF d = c THEN Ended(opened[c]) ELSE opened[d]
  BY <1>1, ExceptSeq, Numbers
<1> QED
  BY <1>1, <1>2

-----------------------------------------------------------------------------
(* A session is opened.                                                    *)

LEMMA OpenKeeps ==
  ASSUME PolicyAssumption, SessionsInv, NEW link \in Links \cup {Nil}, Open(link),
         \A c \in DOMAIN opened : link # Nil => opened[c].link # link,
         link # Nil => linkUsed[link],
         NEW v \in Visitors,
         \/ visitor' = visitor /\ link = Nil
         \/ Leaves(v) /\ visitor[v].at = "open" /\ visitor[v].link = link,
         UNCHANGED <<time, linkUsed>>
  PROVE  SessionsInv'
<1> DEFINE n == Len(opened) + 1
           new == [seen |-> time, idle |-> time + Idle, absolute |-> time + Absolute,
                   ended |-> FALSE, link |-> link]
<1>1. new \in Session /\ time \in Nat /\ Idle \in Nat /\ Absolute \in Nat /\ Idle <= Absolute
  BY DEF SessionsInv, SessionsTypeOK, PolicyAssumption, Session
<1>2. /\ DOMAIN opened = 1..Len(opened) /\ DOMAIN usedAt = 1..Len(opened)
      /\ Len(opened) \in Nat
      /\ \A c \in DOMAIN opened : opened[c] \in Session /\ usedAt[c] \in Nat
  BY Numbers DEF SessionsInv
<1>3. /\ opened' \in Seq(Session) /\ Len(opened') = n /\ DOMAIN opened' = 1..n
      /\ opened'[n] = new
      /\ \A c \in DOMAIN opened : opened'[c] = opened[c]
  BY <1>1, <1>2, AppendProperties, LenProperties DEF Open, SessionsInv, SessionsTypeOK
<1>4. /\ usedAt' \in Seq(Nat) /\ Len(usedAt') = n
      /\ usedAt'[n] = time
      /\ \A c \in DOMAIN opened : usedAt'[c] = usedAt[c]
  BY <1>1, <1>2, AppendProperties, LenProperties DEF Open, SessionsInv, SessionsTypeOK
<1>5. \A c \in DOMAIN opened' : c \in DOMAIN opened \/ c = n
  BY <1>2, <1>3
<1>6. Gone \in Errand /\ Gone.at = "gone" /\ VisitFits(Gone, opened', usedAt', linkUsed')
  BY GoneFits DEF Gone
<1>7. SessionsTypeOK'
  BY <1>3, <1>4, <1>6 DEF SessionsInv, SessionsTypeOK, Leaves, Moves
<1>8. RowsFit'
  <2>1. ASSUME NEW c \in DOMAIN opened'
        PROVE  usedAt'[c] <= time /\ Within(opened'[c], usedAt'[c])
    <3>1. CASE c \in DOMAIN opened
      BY <1>3, <1>4, <3>1 DEF SessionsInv, RowsFit
    <3>2. CASE c = n
      BY <1>1, <1>3, <1>4, <3>2 DEF Within
    <3> QED
      BY <1>5, <3>1, <3>2
  <2> QED
    BY <2>1 DEF RowsFit
<1>9. UnusedIsFresh'
  <2>1. ASSUME NEW l \in Links, ~linkUsed[l], NEW c \in DOMAIN opened'
        PROVE  opened'[c].link # l
    <3>1. l # Nil
      BY DEF PolicyAssumption
    <3> QED
      BY <1>3, <1>5, <2>1, <3>1 DEF SessionsInv, UnusedIsFresh
  <2> QED
    BY <2>1 DEF UnusedIsFresh
<1>10. LinkOpensOnce'
  <2>1. ASSUME NEW c \in DOMAIN opened', NEW d \in DOMAIN opened',
               opened'[c].link = opened'[d].link, opened'[c].link # Nil
        PROVE  c = d
    <3>1. c \in DOMAIN opened \/ c = n
      BY <1>5
    <3>2. d \in DOMAIN opened \/ d = n
      BY <1>5
    <3> QED
      BY <1>3, <2>1, <3>1, <3>2 DEF SessionsInv, LinkOpensOnce
  <2> QED
    BY <2>1 DEF LinkOpensOnce
<1>11. OneOpener'
  BY <1>6 DEF SessionsInv, SessionsTypeOK, OneOpener, Leaves, Moves
<1>12. VisitsFit'
  <2>1. ASSUME NEW w \in Visitors PROVE VisitFits(visitor'[w], opened', usedAt', linkUsed')
    <3>1. CASE visitor'[w] = Gone
      BY <1>6, <3>1
    <3>2. CASE visitor'[w] # Gone
      <4>1. visitor'[w] = visitor[w] /\ (link # Nil => w # v)
        BY <3>2 DEF SessionsInv, SessionsTypeOK, Leaves, Moves
      <4>2. visitor[w].at = "open" => visitor[w].link \in Links /\ visitor[w].link # Nil
        BY DEF SessionsInv, VisitsFit, VisitFits, PolicyAssumption
      <4>3. visitor[w].at = "open" => visitor[w].link # link
        BY <4>1, <4>2 DEF SessionsInv, OneOpener
      <4>4. VisitFits(visitor[w], opened, usedAt, linkUsed)
        BY DEF SessionsInv, VisitsFit
      <4>5. visitor[w].at = "open" => \A c \in DOMAIN opened' : opened'[c].link # visitor[w].link
        BY <1>3, <1>5, <4>3, <4>4 DEF VisitFits
      <4>6. visitor[w].at \in {"judge", "touch", "admit"} =>
              /\ visitor[w].cookie \in DOMAIN opened'
              /\ usedAt'[visitor[w].cookie] = usedAt[visitor[w].cookie]
        BY <1>2, <1>3, <1>4, <4>4 DEF VisitFits
      <4> QED
        BY <4>1, <4>4, <4>5, <4>6 DEF VisitFits
    <3> QED
      BY <3>1, <3>2
  <2> QED
    BY <2>1 DEF VisitsFit
<1> QED
  BY <1>7, <1>8, <1>9, <1>10, <1>11, <1>12 DEF SessionsInv

\* A link is used: whoever finds it unused is the one that opens with it.
LEMMA ConsumeKeeps ==
  ASSUME PolicyAssumption, SessionsInv, NEW v \in Visitors, ConsumeLink(v)
  PROVE  SessionsInv'
<1> DEFINE l == visitor[v].link
           x == [visitor[v] EXCEPT !.at = "open"]
<1>1. visitor[v] \in Errand /\ VisitFits(visitor[v], opened, usedAt, linkUsed) /\ l \in Links
  BY DEF ConsumeLink, At, SessionsInv, SessionsTypeOK, VisitsFit, VisitFits
<1>2. x \in Errand /\ x.at = "open" /\ x.link = l
  BY <1>1 DEF Errand
<1>3. /\ ~linkUsed[l] /\ linkUsed' = [linkUsed EXCEPT ![l] = TRUE]
      /\ visitor' = [visitor EXCEPT ![v] = x] /\ UNCHANGED <<time, opened, usedAt>>
  BY DEF ConsumeLink, Unused, Moves
<1>4. SessionsTypeOK'
  BY <1>1, <1>2, <1>3 DEF SessionsInv, SessionsTypeOK
<1>5. RowsFit' /\ UnusedIsFresh' /\ LinkOpensOnce'
  BY <1>1, <1>3 DEF SessionsInv, SessionsTypeOK, RowsFit, UnusedIsFresh, LinkOpensOnce
<1>6. \A c \in DOMAIN opened : opened[c].link # l
  BY <1>1, <1>3 DEF SessionsInv, UnusedIsFresh
<1>7. \A w \in Visitors : visitor[w].at = "open" => visitor[w].link # l
  BY <1>3 DEF SessionsInv, VisitsFit, VisitFits
<1>8. OneOpener'
  BY <1>2, <1>3, <1>7 DEF SessionsInv, SessionsTypeOK, OneOpener
<1>9. VisitsFit'
  <2>1. ASSUME NEW w \in Visitors PROVE VisitFits(visitor'[w], opened, usedAt, linkUsed')
    <3>1. CASE w = v
      BY <1>1, <1>2, <1>3, <1>6, <3>1 DEF SessionsInv, SessionsTypeOK, VisitFits
    <3>2. CASE w # v
      <4>1. visitor'[w] = visitor[w] /\ VisitFits(visitor[w], opened, usedAt, linkUsed)
        BY <1>3, <3>2 DEF SessionsInv, SessionsTypeOK, VisitsFit
      <4>2. visitor[w].at = "open" => linkUsed'[visitor[w].link]
        BY <1>1, <1>3, <4>1 DEF SessionsInv, SessionsTypeOK, VisitFits
      <4> QED
        BY <4>1, <4>2 DEF VisitFits
    <3> QED
      BY <3>1, <3>2
  <2> QED
    BY <1>3, <2>1 DEF VisitsFit
<1> QED
  BY <1>4, <1>5, <1>8, <1>9 DEF SessionsInv

-----------------------------------------------------------------------------
(* The steps of a request.                                                 *)

LEMMA LinkStepsKeep ==
  ASSUME PolicyAssumption, SessionsInv, NEW v \in Visitors,
         Login(v) \/ (\E l \in Links : FollowLink(v, l)) \/ OpenFromLink(v)
  PROVE  SessionsInv'
<1>1. CASE Login(v)
  BY <1>1, OpenKeeps DEF Login
<1>2. ASSUME NEW l \in Links, FollowLink(v, l) PROVE SessionsInv'
  <2>1. [Gone EXCEPT !.at = "consume", !.link = l] \in Errand
        /\ [Gone EXCEPT !.at = "consume", !.link = l].at = "consume"
        /\ [Gone EXCEPT !.at = "consume", !.link = l].link = l
    BY DEF Gone, Errand
  <2> QED
    BY <1>2, <2>1, GoesOn DEF FollowLink, VisitFits
<1>3. CASE OpenFromLink(v)
  <2>1. visitor[v].at = "open" /\ VisitFits(visitor[v], opened, usedAt, linkUsed)
    BY <1>3 DEF OpenFromLink, At, SessionsInv, VisitsFit
  <2>2. visitor[v].link \in Links \cup {Nil} /\ linkUsed[visitor[v].link]
        /\ \A c \in DOMAIN opened : opened[c].link # visitor[v].link
    BY <2>1 DEF VisitFits
  <2> QED
    BY <1>3, <2>1, <2>2, OpenKeeps DEF OpenFromLink
<1> QED
  BY <1>1, <1>2, <1>3

LEMMA LookUpKeeps ==
  ASSUME PolicyAssumption, SessionsInv, NEW v \in Visitors, NEW c \in DOMAIN opened, LookUp(v, c)
  PROVE  SessionsInv'
<1> DEFINE x == [Gone EXCEPT !.at = "judge", !.cookie = c, !.copy = opened[c]]
<1>1. opened[c] \in Session /\ c \in Nat /\ Within(opened[c], usedAt[c])
  BY Numbers DEF SessionsInv, RowsFit
<1>2. x \in Errand /\ x.at = "judge" /\ x.cookie = c /\ x.copy = opened[c]
  BY <1>1 DEF Gone, Errand
<1>3. VisitFits(x, opened, usedAt, linkUsed)
  BY <1>1, <1>2 DEF VisitFits
<1>4. Moves(v, x) /\ UNCHANGED <<time, opened, usedAt, linkUsed>>
  BY DEF LookUp
<1> HIDE DEF x
<1> QED
  BY <1>2, <1>3, <1>4, GoesOn

\* The use is noted, and the idle time to write counted from now.
LEMMA JudgeKeeps ==
  ASSUME PolicyAssumption, SessionsInv, NEW v \in Visitors, Judge(v)
  PROVE  SessionsInv'
<1> DEFINE c == visitor[v].cookie
           x == IF NeedsTouch(visitor[v].copy)
                THEN [visitor[v] EXCEPT !.at = "touch", !.idle = IdleFromNow(visitor[v].copy)]
                ELSE [visitor[v] EXCEPT !.at = "admit"]
<1>1. visitor[v] \in Errand /\ visitor[v].at = "judge" /\ c \in DOMAIN opened
      /\ time \in Nat /\ Idle \in Nat
  BY DEF Judge, At, SessionsInv, SessionsTypeOK, VisitsFit, VisitFits, PolicyAssumption
<1>2. /\ usedAt' = [usedAt EXCEPT ![c] = time]
      /\ visitor' = [visitor EXCEPT ![v] = x]
      /\ UNCHANGED <<time, opened, linkUsed>>
  BY DEF Judge, Moves
<1>3. x \in Errand /\ x.at \in {"touch", "admit"} /\ x.cookie = c
      /\ (x.at = "touch" => x.idle = time + Idle)
  <2>1. CASE NeedsTouch(visitor[v].copy)
    <3>1. time + Idle \in Nat /\ x = [visitor[v] EXCEPT !.at = "touch", !.idle = time + Idle]
      BY <1>1, <2>1 DEF IdleFromNow
    <3> QED
      BY <1>1, <3>1 DEF Errand
  <2>2. CASE ~NeedsTouch(visitor[v].copy)
    <3>1. x = [visitor[v] EXCEPT !.at = "admit"]
      BY <2>2
    <3> QED
      BY <1>1, <3>1 DEF Errand
  <2> QED
    BY <2>1, <2>2
<1> HIDE DEF x
<1>4. /\ usedAt' \in Seq(Nat) /\ Len(usedAt') = Len(opened)
      /\ \A d \in DOMAIN opened : usedAt'[d] = IF d = c THEN time ELSE usedAt[d]
  BY <1>1, <1>2, ExceptSeq, Numbers DEF SessionsInv, SessionsTypeOK
<1>5. SessionsTypeOK'
  BY <1>2, <1>3, <1>4 DEF SessionsInv, SessionsTypeOK
<1>6. ASSUME NEW d \in DOMAIN opened
      PROVE  usedAt[d] <= usedAt'[d] /\ usedAt'[d] <= time /\ Within(opened[d], usedAt'[d])
  <2>1. opened[d] \in Session /\ usedAt[d] \in Nat /\ usedAt[d] <= time
        /\ Within(opened[d], usedAt[d])
    BY Numbers DEF SessionsInv, RowsFit
  <2>2. opened[d].idle \in Nat
    BY <2>1 DEF Session
  <2>3. CASE d = c
    <3>1. usedAt'[d] = time
      BY <1>4, <2>3
    <3>2. opened[d].idle <= time + Idle
      BY <1>1, <2>1, <2>2 DEF Within
    <3> QED
      BY <1>1, <2>1, <3>1, <3>2 DEF Within
  <2>4. CASE d # c
    <3>1. usedAt'[d] = usedAt[d]
      BY <1>4, <2>4
    <3> QED
      BY <2>1, <3>1
  <2> QED
    BY <2>3, <2>4
<1>7. VisitFits(x, opened, usedAt', linkUsed)
  BY <1>1, <1>3, <1>4 DEF VisitFits
<1> QED
  BY <1>2, <1>3, <1>5, <1>6, <1>7, InPlace DEF SessionsInv

\* What is written is no later than the policy allows, whatever has happened
\* to the session since it was judged.
LEMMA TouchKeeps ==
  ASSUME PolicyAssumption, SessionsInv, NEW v \in Visitors, Touch(v)
  PROVE  SessionsInv'
<1> DEFINE c == visitor[v].cookie
           x == [visitor[v] EXCEPT !.at = "admit"]
           s == [opened[c] EXCEPT !.seen = time, !.idle = visitor[v].idle]
<1>1. visitor[v] \in Errand /\ visitor[v].at = "touch" /\ c \in DOMAIN opened
      /\ visitor[v].idle <= usedAt[c] + Idle /\ time \in Nat
  BY DEF Touch, At, SessionsInv, SessionsTypeOK, VisitsFit, VisitFits
<1>2. x \in Errand /\ x.at = "admit" /\ x.cookie = c
  BY <1>1 DEF Errand
<1>3. VisitFits(x, opened, usedAt, linkUsed)
  BY <1>1, <1>2 DEF VisitFits
<1>4. visitor' = [visitor EXCEPT ![v] = x] /\ UNCHANGED <<time, usedAt, linkUsed>>
  BY DEF Touch, Moves
<1>5. CASE UNCHANGED opened
  BY <1>2, <1>3, <1>4, <1>5, GoesOn DEF Moves
<1>6. CASE visitor[v].idle <= opened[c].absolute /\ opened' = [opened EXCEPT ![c] = s]
  <2>1. opened[c] \in Session /\ visitor[v].idle \in Nat
    BY <1>1, Numbers DEF SessionsInv, Errand
  <2>2. s \in Session /\ s.link = opened[c].link /\ s.idle = visitor[v].idle
        /\ s.absolute = opened[c].absolute
    BY <1>1, <2>1 DEF Session
  <2> HIDE DEF s, x
  <2>3. /\ opened' \in Seq(Session) /\ Len(opened') = Len(opened)
        /\ DOMAIN opened' = DOMAIN opened
        /\ \A d \in DOMAIN opened : opened'[d] = IF d = c THEN s ELSE opened[d]
    BY <1>1, <1>6, <2>2, ExceptSeq, LenProperties, Numbers DEF SessionsInv, SessionsTypeOK
  <2>4. SessionsTypeOK'
    BY <1>2, <1>4, <2>3 DEF SessionsInv, SessionsTypeOK
  <2>5. Within(s, usedAt[c])
    BY <1>1, <1>6, <2>2 DEF Within
  <2>6. ASSUME NEW d \in DOMAIN opened
        PROVE  /\ opened'[d].link = opened[d].link
               /\ usedAt[d] <= usedAt[d] /\ usedAt[d] <= time
               /\ Within(opened'[d], usedAt[d])
    <3>1. usedAt[d] \in Nat /\ usedAt[d] <= time /\ Within(opened[d], usedAt[d])
      BY Numbers DEF SessionsInv, RowsFit
    <3> QED
      BY <2>2, <2>3, <2>5, <3>1
  <2>7. VisitFits(x, opened', usedAt', linkUsed')
    BY <1>1, <1>2, <1>4, <2>3 DEF VisitFits
  <2> QED
    BY <1>2, <1>4, <2>3, <2>4, <2>6, <2>7, InPlace
<1>7. opened' = opened \/ ( /\ ~(opened[c].ended \/ visitor[v].idle > opened[c].absolute)
                             /\ opened' = [opened EXCEPT ![c] = s])
  <2>1. opened \in Seq(Session) /\ opened[c] \in Session
    BY <1>1, Numbers DEF SessionsInv, SessionsTypeOK
  <2>2. [opened EXCEPT ![c].seen = time, ![c].idle = visitor[v].idle] = [opened EXCEPT ![c] = s]
    BY <1>1, <2>1
  <2> QED
    BY <2>2 DEF Touch
<1>8. visitor[v].idle \in Nat /\ opened[c].absolute \in Nat
  BY <1>1, Numbers DEF SessionsInv, Errand, Session
<1> QED
  BY <1>5, <1>6, <1>7, <1>8

LEMMA RestKeeps ==
  ASSUME PolicyAssumption, SessionsInv, NEW v \in Visitors,
         Refuse(v) \/ TouchFails(v) \/ Serve(v) \/ TurnAway(v) \/ Logout(v) \/ GiveUp(v)
  PROVE  SessionsInv'
<1>1. CASE TouchFails(v)
  <2> DEFINE x == [visitor[v] EXCEPT !.at = "admit"]
  <2>1. visitor[v] \in Errand /\ visitor[v].at = "touch" /\ visitor[v].cookie \in DOMAIN opened
    BY <1>1 DEF TouchFails, At, SessionsInv, SessionsTypeOK, VisitsFit, VisitFits
  <2>2. x \in Errand /\ x.at = "admit" /\ x.cookie = visitor[v].cookie
    BY <2>1 DEF Errand
  <2>3. VisitFits(x, opened, usedAt, linkUsed)
    BY <2>1, <2>2 DEF VisitFits
  <2> QED
    BY <1>1, <2>2, <2>3, GoesOn DEF TouchFails
<1>2. CASE Serve(v)
  BY <1>2, GoneFits, GoesOn DEF Serve, Leaves
<1>3. CASE GiveUp(v)
  BY <1>3, GoneFits, GoesOn DEF GiveUp, Leaves
<1>4. visitor[v].at \in {"judge", "admit"} => visitor[v].cookie \in DOMAIN opened
  BY DEF SessionsInv, VisitsFit, VisitFits
<1>5. CASE Refuse(v)
  BY <1>4, <1>5, EndOne, EndsKeeps DEF Refuse, At, SessionsInv
<1>6. CASE TurnAway(v)
  BY <1>4, <1>6, EndOne, EndsKeeps DEF TurnAway, At, SessionsInv
<1>7. CASE Logout(v)
  BY <1>4, <1>7, EndOne, EndsKeeps DEF Logout, At, SessionsInv
<1> QED
  BY <1>1, <1>2, <1>3, <1>5, <1>6, <1>7

LEMMA EndAllKeeps ==
  ASSUME PolicyAssumption, SessionsInv, NEW v \in Visitors, EndAll
  PROVE  SessionsInv'
<1>1. opened \in Seq(Session) /\ Len(opened) \in Nat /\ DOMAIN opened = 1..Len(opened)
      /\ \A c \in DOMAIN opened : opened[c] \in Session
  BY Numbers DEF SessionsInv, SessionsTypeOK
<1>2. \A c \in 1..Len(opened) : Ended(opened[c]) \in Session
  BY <1>1 DEF Ended, Session
<1>3. opened' = [c \in 1..Len(opened) |-> Ended(opened[c])]
  BY <1>1 DEF EndAll
<1>4. opened' \in Seq(Session) /\ Len(opened') = Len(opened)
  BY <1>1, <1>2, <1>3, IsASeq, LenProperties
<1>5. \A c \in DOMAIN opened : opened'[c] = Ended(opened[c])
  BY <1>1, <1>3
<1> QED
  BY <1>4, <1>5, EndsKeeps DEF EndAll

LEMMA TickKeeps ==
  ASSUME SessionsInv, Tick
  PROVE  SessionsInv'
<1>1. SessionsTypeOK' /\ time' = time + 1 /\ time \in Nat
  BY DEF SessionsInv, SessionsTypeOK, Tick
<1>2. RowsFit'
  BY <1>1, Numbers DEF SessionsInv, RowsFit, Tick
<1>3. UnusedIsFresh' /\ LinkOpensOnce' /\ OneOpener' /\ VisitsFit'
  BY DEF SessionsInv, UnusedIsFresh, LinkOpensOnce, OneOpener, VisitsFit, Tick
<1> QED
  BY <1>1, <1>2, <1>3 DEF SessionsInv

LEMMA Stutters ==
  ASSUME SessionsInv, UNCHANGED <<time, opened, usedAt, linkUsed, visitor>>
  PROVE  SessionsInv'
  BY DEF SessionsInv, SessionsTypeOK, RowsFit, VisitsFit, UnusedIsFresh, OneOpener, LinkOpensOnce

-----------------------------------------------------------------------------

LEMMA SessionsInductive ==
  ASSUME PolicyAssumption, Visitors # {}, SessionsInv, [SessionNext]_sessionVars
  PROVE  SessionsInv'
<1>1. ASSUME NEW v \in Visitors, Visit(v) PROVE SessionsInv'
  BY <1>1, LinkStepsKeep, ConsumeKeeps, LookUpKeeps, JudgeKeeps, TouchKeeps, RestKeeps DEF Visit
<1>2. CASE ChangeAccount
  BY <1>2, Stutters DEF ChangeAccount
<1>3. CASE EndAll
  BY <1>3, EndAllKeeps
<1>4. CASE Tick
  BY <1>4, TickKeeps
<1>5. CASE UNCHANGED sessionVars
  BY <1>5, Stutters DEF sessionVars
<1> QED
  BY <1>1, <1>2, <1>3, <1>4, <1>5 DEF SessionNext

(* However many requests overtake each other, and whatever fails: a link   *)
(* opens one session, and no session outlives its last use by more than    *)
(* Idle or its start by more than Absolute.                                *)
THEOREM SessionsCorrect ==
  ASSUME PolicyAssumption, Visitors # {}
  PROVE  SessionSpec => []SessionsSound
<1>1. SessionInit => SessionsInv
  BY SessionsInitially
<1>2. SessionsInv /\ [SessionNext]_sessionVars => SessionsInv'
  BY SessionsInductive
<1>3. SessionsInv => SessionsSound
  BY Numbers DEF SessionsInv, RowsFit, VisitsFit, VisitFits, Within, SessionsSound, EndsInTime, Bounded, At
<1> QED
  BY <1>1, <1>2, <1>3, PTL DEF SessionSpec

-----------------------------------------------------------------------------
(***************************************************************************)
(* Proofs about Migrations for any builds and any number of processes that *)
(* start, stop and fail at any time.                                       *)
(*                                                                         *)
(* A process that goes through its build relies on what it has passed      *)
(* being in the database (Passed).  That this is so whoever applied it     *)
(* follows from the rows and the effects saying the same (OncePerVersion). *)
(***************************************************************************)

Starter ==
  [at : {"down", "look", "apply", "up"}, build : Builds \cup {<<>>}, next : Nat \ {0}]

MigrationsTypeOK ==
  /\ migrated \in [Versions -> Checksums \cup {Unapplied}]
  /\ effects \in Seq(File)
  /\ starter \in [Starters -> Starter]

\* The files before the next one have taken effect.
Passed(x, done) ==
  \A k \in DOMAIN x.build : k < x.next => \E i \in DOMAIN done : done[i] = x.build[k]

Fits(x, done) ==
  /\ Passed(x, done)
  /\ x.at = "apply" => x.next <= Len(x.build)
  /\ x.at = "up" => x.next > Len(x.build)

MigrationsInv == MigrationsTypeOK /\ OncePerVersion /\ \A p \in Starters : Fits(starter[p], effects)

-----------------------------------------------------------------------------

LEMMA OneFurther ==
  ASSUME NEW x \in Starter
  PROVE  /\ Further(x) \in Starter
         /\ Further(x).build = x.build /\ Further(x).next = x.next + 1 /\ Further(x).at = "look"
  BY DEF Starter, Further

LEMMA BuildsAreFiles ==
  ASSUME BuildAssumption, NEW x \in Starter
  PROVE  /\ x.build \in Seq(File)
         /\ Len(x.build) \in Nat /\ DOMAIN x.build = 1..Len(x.build)
         /\ \A k \in DOMAIN x.build : x.build[k] \in File
<1>1. x.build \in Builds \cup {<<>>}
  BY DEF Starter
<1>2. x.build \in Seq(File)
  BY <1>1, EmptySeq DEF BuildAssumption
<1> QED
  BY <1>2, LenProperties, ElementOfSeq

\* A process whose state alone changes, to one that fits, keeps the invariant.
LEMMA OnlyOne ==
  ASSUME MigrationsInv, NEW p \in Starters, NEW x \in Starter, Fits(x, effects),
         starter' = [starter EXCEPT ![p] = x],
         UNCHANGED <<migrated, effects>>
  PROVE  MigrationsInv'
<1>1. MigrationsTypeOK'
  BY DEF MigrationsInv, MigrationsTypeOK
<1>2. OncePerVersion'
  BY DEF MigrationsInv, OncePerVersion
<1>3. ASSUME NEW q \in Starters PROVE Fits(starter[q], effects)'
  <2>1. starter'[q] = IF q = p THEN x ELSE starter[q]
    BY DEF MigrationsInv, MigrationsTypeOK
  <2>2. Fits(starter'[q], effects)
    BY <2>1 DEF MigrationsInv
  <2> QED
    BY <2>2 DEF Fits, Passed
<1> QED
  BY <1>1, <1>2, <1>3 DEF MigrationsInv

\* A file that has taken effect is passed.
LEMMA StepFits ==
  ASSUME BuildAssumption, NEW x \in Starter, Passed(x, effects),
         x.next <= Len(x.build),
         \E i \in DOMAIN effects : effects[i] = x.build[x.next]
  PROVE  /\ Further(x) \in Starter
         /\ Fits(Further(x), effects)
<1> DEFINE y == Further(x)
<1>1. y \in Starter /\ y.build = x.build /\ y.next = x.next + 1 /\ y.at = "look"
  BY OneFurther
<1>2. ASSUME NEW k \in DOMAIN x.build, k < x.next + 1
      PROVE  \E i \in DOMAIN effects : effects[i] = x.build[k]
  <2>1. k \in Nat /\ x.next \in Nat
    BY BuildsAreFiles DEF Starter
  <2>2. k < x.next \/ k = x.next
    BY <1>2, <2>1
  <2> QED
    BY <2>2 DEF Passed
<1> QED
  BY <1>1, <1>2 DEF Fits, Passed

LEMMA NowIsFile ==
  ASSUME BuildAssumption, MigrationsTypeOK, NEW p \in Starters, starter[p].next <= Len(starter[p].build)
  PROVE  Now(p) \in File /\ Now(p) = starter[p].build[starter[p].next]
<1>1. starter[p] \in Starter
  BY DEF MigrationsTypeOK
<1>2. starter[p].next \in DOMAIN starter[p].build
  BY <1>1, BuildsAreFiles DEF Starter
<1> QED
  BY <1>1, <1>2, BuildsAreFiles DEF Now

-----------------------------------------------------------------------------

LEMMA MigrationsInitially ==
  ASSUME BuildAssumption, SchemaInit
  PROVE  MigrationsInv
<1>1. MigrationsTypeOK
  BY EmptySeq DEF SchemaInit, MigrationsTypeOK, Down, Starter
<1>2. OncePerVersion
  BY DEF SchemaInit, OncePerVersion
<1>3. \A p \in Starters : Fits(starter[p], effects)
  BY DEF SchemaInit, Fits, Passed, Down
<1> QED
  BY <1>1, <1>2, <1>3 DEF MigrationsInv

\* The steps that only move the process along its build.
LEMMA GoesKeeps ==
  ASSUME MigrationsInv, NEW p \in Starters, NEW stage \in {"down", "look", "apply", "up"},
         Proceeds(p, stage), UNCHANGED <<migrated, effects>>,
         stage = "apply" => starter[p].next <= Len(starter[p].build),
         stage = "up" => starter[p].next > Len(starter[p].build)
  PROVE  MigrationsInv'
<1> DEFINE x == [starter[p] EXCEPT !.at = stage]
<1>1. x \in Starter /\ x.build = starter[p].build /\ x.next = starter[p].next /\ x.at = stage
  BY DEF MigrationsInv, MigrationsTypeOK, Starter
<1>2. Fits(x, effects)
  BY <1>1 DEF MigrationsInv, Fits, Passed
<1>3. starter' = [starter EXCEPT ![p] = x]
  BY DEF Proceeds, MigrationsInv, MigrationsTypeOK
<1> QED
  BY <1>1, <1>2, <1>3, OnlyOne

LEMMA StartKeeps ==
  ASSUME BuildAssumption, MigrationsInv, NEW p \in Starters, NEW b \in Builds, Start(p, b)
  PROVE  MigrationsInv'
<1> DEFINE x == [at |-> "look", build |-> b, next |-> 1]
<1>1. x \in Starter /\ x.build = b /\ x.next = 1 /\ x.at = "look"
  BY DEF Starter
<1>2. \A k \in DOMAIN b : k \in Nat \ {0}
  BY <1>1, BuildsAreFiles
<1>3. Fits(x, effects)
  BY <1>1, <1>2 DEF Fits, Passed
<1> QED
  BY <1>1, <1>3, OnlyOne DEF Start

\* The row of another's transaction says that the file has taken effect.
LEMMA PresentKeeps ==
  ASSUME BuildAssumption, MigrationsInv, NEW p \in Starters, Present(p)
  PROVE  MigrationsInv'
<1> DEFINE file == Now(p)
<1>1. file \in File /\ file = starter[p].build[starter[p].next]
  BY NowIsFile DEF MigrationsInv, Present
<1>2. file.version \in Versions /\ file.checksum \in Checksums
  BY <1>1 DEF File
<1>3. migrated[file.version] = file.checksum /\ file.checksum # Unapplied
  BY <1>2 DEF Present, BuildAssumption
<1>4. PICK i \in DOMAIN effects : effects[i].version = file.version
  BY <1>2, <1>3 DEF MigrationsInv, OncePerVersion
<1>5. effects[i] \in File
  BY <1>4, ElementOfSeq, LenProperties DEF MigrationsInv, MigrationsTypeOK
<1>6. effects[i].checksum = file.checksum
  BY <1>2, <1>3, <1>4 DEF MigrationsInv, OncePerVersion
<1>7. effects[i] = file
  BY <1>1, <1>4, <1>5, <1>6 DEF File
<1>8. Passed(starter[p], effects) /\ starter[p] \in Starter
  BY DEF MigrationsInv, MigrationsTypeOK, Fits
<1>9. Further(starter[p]) \in Starter /\ Fits(Further(starter[p]), effects)
  BY <1>1, <1>4, <1>7, <1>8, StepFits DEF Present
<1> QED
  BY <1>9, OnlyOne DEF Present

\* Apply appends a file whose version no effect has yet.
LEMMA ApplyKeeps ==
  ASSUME BuildAssumption, MigrationsInv, NEW p \in Starters, Apply(p)
  PROVE  MigrationsInv'
<1> DEFINE file == Now(p)
           x == Further(starter[p])
<1>1. starter[p] \in Starter /\ Fits(starter[p], effects) /\ starter[p].next <= Len(starter[p].build)
  BY DEF MigrationsInv, MigrationsTypeOK, Fits, Apply, StandsAt
<1>2. file \in File /\ file = starter[p].build[starter[p].next]
  BY <1>1, NowIsFile DEF MigrationsInv
<1>3. file.version \in Versions /\ file.checksum \in Checksums
  BY <1>2 DEF File
<1>4. /\ migrated[file.version] = Unapplied
      /\ migrated' = [migrated EXCEPT ![file.version] = file.checksum]
      /\ effects' = Append(effects, file)
      /\ starter' = [starter EXCEPT ![p] = x]
  BY DEF Apply, Insertable
<1>5. /\ effects \in Seq(File) /\ Len(effects) \in Nat
      /\ DOMAIN effects = 1..Len(effects) /\ DOMAIN effects' = 1..(Len(effects) + 1)
      /\ effects' \in Seq(File)
      /\ effects'[Len(effects) + 1] = file
      /\ \A i \in DOMAIN effects : effects'[i] = effects[i]
  BY <1>2, <1>4, AppendProperties, LenProperties DEF MigrationsInv, MigrationsTypeOK
<1>6. \A i \in DOMAIN effects : effects[i].version # file.version
  <2>1. SUFFICES ASSUME NEW i \in DOMAIN effects, effects[i].version = file.version
                 PROVE  FALSE
    OBVIOUS
  <2>2. effects[i] \in File
    BY <1>5, ElementOfSeq
  <2>3. migrated[file.version] = effects[i].checksum
    BY <1>3, <2>1 DEF MigrationsInv, OncePerVersion
  <2> QED
    BY <1>4, <2>2, <2>3 DEF File, BuildAssumption
<1>7. /\ \A v \in Versions : migrated'[v] = IF v = file.version THEN file.checksum ELSE migrated[v]
      /\ migrated' \in [Versions -> Checksums \cup {Unapplied}]
  BY <1>3, <1>4 DEF MigrationsInv, MigrationsTypeOK
<1>8. OncePerVersion'
  <2>1. ASSUME NEW i \in DOMAIN effects', NEW j \in DOMAIN effects',
               effects'[i].version = effects'[j].version
        PROVE  i = j
    <3>1. i \in DOMAIN effects \/ i = Len(effects) + 1
      BY <1>5
    <3>2. j \in DOMAIN effects \/ j = Len(effects) + 1
      BY <1>5
    <3> QED
      BY <1>5, <1>6, <2>1, <3>1, <3>2 DEF MigrationsInv, OncePerVersion
  <2>2. ASSUME NEW i \in DOMAIN effects', effects'[i].version \in Versions
        PROVE  migrated'[effects'[i].version] = effects'[i].checksum
    <3>1. CASE i = Len(effects) + 1
      BY <1>5, <1>7, <2>2, <3>1
    <3>2. CASE i \in DOMAIN effects
      <4>1. effects'[i] = effects[i] /\ effects[i].version # file.version
        BY <1>5, <1>6, <3>2
      <4>2. migrated[effects[i].version] = effects[i].checksum
        BY <2>2, <3>2, <4>1 DEF MigrationsInv, OncePerVersion
      <4> QED
        BY <1>7, <2>2, <4>1, <4>2
    <3> QED
      BY <1>5, <3>1, <3>2
  <2>3. ASSUME NEW v \in Versions, migrated'[v] # Unapplied
        PROVE  \E i \in DOMAIN effects' : effects'[i].version = v
    <3>1. CASE v = file.version
      BY <1>5, <3>1
    <3>2. CASE v # file.version
      <4>1. PICK i \in DOMAIN effects : effects[i].version = v
        BY <1>7, <2>3, <3>2 DEF MigrationsInv, OncePerVersion
      <4> QED
        BY <1>5, <4>1
    <3> QED
      BY <3>1, <3>2
  <2> QED
    BY <2>1, <2>2, <2>3 DEF OncePerVersion
<1>9. \A y : Passed(y, effects) => Passed(y, effects')
  <2>1. ASSUME NEW y, Passed(y, effects) PROVE Passed(y, effects')
    <3>1. ASSUME NEW k \in DOMAIN y.build, k < y.next
          PROVE  \E i \in DOMAIN effects' : effects'[i] = y.build[k]
      <4>1. PICK i \in DOMAIN effects : effects[i] = y.build[k]
        BY <2>1, <3>1 DEF Passed
      <4> QED
        BY <1>5, <4>1
    <3> QED
      BY <3>1 DEF Passed
  <2> QED
    BY <2>1
<1>10. x \in Starter /\ x.next = starter[p].next + 1 /\ x.build = starter[p].build /\ x.at = "look"
  BY <1>1, OneFurther
<1>11. Passed(x, effects')
  <2>1. ASSUME NEW k \in DOMAIN starter[p].build, k < starter[p].next + 1
        PROVE  \E i \in DOMAIN effects' : effects'[i] = starter[p].build[k]
    <3>1. k \in Nat /\ starter[p].next \in Nat
      BY <1>1, BuildsAreFiles DEF Starter
    <3>2. CASE k = starter[p].next
      BY <1>2, <1>5, <3>2
    <3>3. CASE k < starter[p].next
      <4>1. Passed(starter[p], effects)
        BY <1>1 DEF Fits
      <4>2. PICK i \in DOMAIN effects : effects[i] = starter[p].build[k]
        BY <3>3, <4>1 DEF Passed
      <4> QED
        BY <1>5, <4>2
    <3> QED
      BY <2>1, <3>1, <3>2, <3>3
  <2>2. \A k \in DOMAIN x.build : k < x.next => \E i \in DOMAIN effects' : effects'[i] = x.build[k]
    BY <1>10, <2>1
  <2> QED
    BY <2>2 DEF Passed
<1>12. ASSUME NEW q \in Starters PROVE Fits(starter'[q], effects')
  <2>1. CASE q = p
    <3>1. starter'[q] = x
      BY <1>4, <2>1 DEF MigrationsInv, MigrationsTypeOK
    <3> QED
      BY <1>10, <1>11, <3>1 DEF Fits
  <2>2. CASE q # p
    <3>1. starter'[q] = starter[q]
      BY <1>4, <2>2 DEF MigrationsInv, MigrationsTypeOK
    <3>2. Fits(starter[q], effects)
      BY DEF MigrationsInv
    <3> QED
      BY <1>9, <3>1, <3>2 DEF Fits
  <2> QED
    BY <2>1, <2>2
<1>13. MigrationsTypeOK'
  <2>1. starter' \in [Starters -> Starter]
    BY <1>4, <1>10 DEF MigrationsInv, MigrationsTypeOK
  <2> QED
    BY <1>5, <1>7, <2>1 DEF MigrationsTypeOK
<1> QED
  BY <1>8, <1>12, <1>13 DEF MigrationsInv

-----------------------------------------------------------------------------

LEMMA MigrationsInductive ==
  ASSUME BuildAssumption, MigrationsInv, [SchemaNext]_schema
  PROVE  MigrationsInv'
<1>1. ASSUME NEW p \in Starters, NEW b \in Builds, Start(p, b) PROVE MigrationsInv'
  BY <1>1, StartKeeps
<1>2. ASSUME NEW p \in Starters, Missing(p) PROVE MigrationsInv'
  BY <1>2, GoesKeeps DEF Missing
<1>3. ASSUME NEW p \in Starters, Present(p) PROVE MigrationsInv'
  BY <1>3, PresentKeeps
<1>4. ASSUME NEW p \in Starters, Mismatch(p) PROVE MigrationsInv'
  BY <1>4, GoesKeeps DEF Mismatch
<1>5. ASSUME NEW p \in Starters, Apply(p) PROVE MigrationsInv'
  BY <1>5, ApplyKeeps
<1>6. ASSUME NEW p \in Starters, ApplyFails(p) PROVE MigrationsInv'
  BY <1>6, GoesKeeps DEF ApplyFails
<1>7. ASSUME NEW p \in Starters, Ready(p) PROVE MigrationsInv'
  BY <1>7, GoesKeeps DEF Ready
<1>8. ASSUME NEW p \in Starters, Stop(p) PROVE MigrationsInv'
  BY <1>8, GoesKeeps DEF Stop
<1>9. CASE UNCHANGED schema
  BY <1>9 DEF schema, MigrationsInv, MigrationsTypeOK, OncePerVersion, Fits, Passed, StandsAt
<1> QED
  BY <1>1, <1>2, <1>3, <1>4, <1>5, <1>6, <1>7, <1>8, <1>9 DEF SchemaNext

LEMMA Implied ==
  ASSUME BuildAssumption, MigrationsInv
  PROVE  MigrationsSound
<1>1. ASSUME NEW p \in Starters, StandsAt(p, "up"), NEW k \in DOMAIN starter[p].build
      PROVE  \E i \in DOMAIN effects : effects[i] = starter[p].build[k]
  <2>1. starter[p] \in Starter /\ Fits(starter[p], effects)
    BY DEF MigrationsInv, MigrationsTypeOK
  <2>2. k < starter[p].next
    BY <1>1, <2>1, BuildsAreFiles DEF Fits, StandsAt, Starter
  <2> QED
    BY <2>1, <2>2 DEF Fits, Passed
<1> QED
  BY <1>1 DEF MigrationsInv, MigrationsSound

(* However many processes start at once from whatever builds and fail at   *)
(* any point: each file takes effect once, and none is up before its own.  *)
THEOREM MigrationsCorrect ==
  ASSUME BuildAssumption
  PROVE  SchemaSpec => []MigrationsSound
<1>1. SchemaInit => MigrationsInv
  BY MigrationsInitially
<1>2. MigrationsInv /\ [SchemaNext]_schema => MigrationsInv'
  BY MigrationsInductive
<1>3. MigrationsInv => MigrationsSound
  BY Implied
<1> QED
  BY <1>1, <1>2, <1>3, PTL DEF SchemaSpec
=============================================================================
