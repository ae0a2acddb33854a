------------------------------- MODULE Joining -------------------------------
(***************************************************************************)
(* How people join a business with a code sent to their phone              *)
(* (customer-service, verify-code-repository, customer-repository), and    *)
(* how the one who referred them is rewarded (referral-service).  The      *)
(* statements of a join are not in a transaction, and what a new customer  *)
(* sets off runs after the answer; applying a referral and paying it are   *)
(* transactions that lock the code and the referral before they read them. *)
(*                                                                         *)
(* A customer is named by the phone: (business_id, phone) is unique.       *)
(***************************************************************************)
EXTENDS Naturals, Sequences, FiniteSets

CONSTANTS
  Phones,
  Members,       \* phones that have joined before, and may refer others
  Servers,       \* requests and hooks that run at the same time
  NoCode,        \* no code, no referral
  Settings,      \* referral settings: [signup, min]
  MaxGuesses,    \* wrong codes until a new one is needed, 5
  MaxCodes,      \* bound on the codes sent
  MaxPurchases   \* bound on the purchases

\* Rows of verify_codes, referrals and transactions.
CodeRow     == [id : Nat, failed : Nat]
ReferralRow == [by : Phones, status : {"pending", "rewarded"}]
PaymentRow  == [of : Phones, to : Phones]

ASSUME NoCodeAssumption == NoCode \notin Phones \cup Nat \cup CodeRow \cup ReferralRow
ASSUME PhonesAssumption == Members \subseteq Phones /\ IsFiniteSet(Phones)

VARIABLES
  verify,     \* verify_codes: the rows of each phone, [id, failed]
  sent,       \* number of codes stored so far
  customers,  \* rows of customers
  funded,     \* rows of customer_balances
  uses,       \* referral_codes.uses_count of each customer, or NoCode
  referral,   \* referrals, by the customer who was referred: [by, status]
  paid,       \* REFERRAL_REWARD rows of transactions: [of, to]
  credited,   \* rewards that have been added to a balance
  spent,      \* what each customer has bought
  settings,   \* referral_settings
  server      \* what each request or hook is doing

joiningVars ==
  <<verify, sent, customers, funded, uses, referral, paid, credited, spent, settings, server>>

rowsOfCustomers == <<customers, funded>>
referralRows    == <<uses, referral, paid, credited>>

Unoccupied == [at |-> "idle", phone |-> NoCode, by |-> NoCode, code |-> 0, new |-> FALSE]

JoiningInit ==
  /\ verify = [p \in Phones |-> {}]
  /\ sent = 0
  /\ customers = Members
  /\ funded = Members
  /\ uses = [p \in Phones |-> NoCode]
  /\ referral = [p \in Phones |-> NoCode]
  /\ paid = <<>>
  /\ credited = [p \in Phones |-> 0]
  /\ spent = [p \in Phones |-> 0]
  /\ settings \in Settings
  /\ server = [w \in Servers |-> Unoccupied]

ServerGoes(w, step) == server' = [server EXCEPT ![w].at = step]
ServerEnds(w)       == server' = [server EXCEPT ![w] = Unoccupied]

-----------------------------------------------------------------------------
(* The code.                                                               *)

\* requestJoinCode: the codes of the phone are deleted, a new one is inserted,
\* and deleted again when it could not be sent; each is a statement.
RequestCode(w, p) ==
  /\ server[w].at = "idle"
  /\ sent < MaxCodes
  /\ verify' = [verify EXCEPT ![p] = {}]
  /\ server' = [server EXCEPT ![w] = [Unoccupied EXCEPT !.at = "store", !.phone = p]]
  /\ UNCHANGED <<sent, rowsOfCustomers, referralRows, spent, settings>>

StoreCode(w) ==
  /\ server[w].at = "store"
  /\ sent < MaxCodes
  /\ sent' = sent + 1
  /\ verify' = [verify EXCEPT ![server[w].phone] = @ \cup {[id |-> sent', failed |-> 0]}]
  /\ server' = [server EXCEPT ![w].at = "deliver", ![w].code = sent']
  /\ UNCHANGED <<rowsOfCustomers, referralRows, spent, settings>>

\* deleteById.
DeleteCode(w, p) == verify' = [verify EXCEPT ![p] = {row \in @ : row.id # server[w].code}]

DeliverCode(w) ==
  /\ server[w].at = "deliver"
  /\ UNCHANGED verify \/ DeleteCode(w, server[w].phone)
  /\ ServerEnds(w)
  /\ UNCHANGED <<sent, rowsOfCustomers, referralRows, spent, settings>>

ExpireCode(p) ==
  /\ \E row \in verify[p] : verify' = [verify EXCEPT ![p] = @ \ {row}]
  /\ UNCHANGED <<sent, rowsOfCustomers, referralRows, spent, settings, server>>

Usable(p) == {row \in verify[p] : row.failed < MaxGuesses}

\* verifyJoinCode: latestValid, and the comparison.
Guess(w, p, by, right) ==
  /\ server[w].at = "idle"
  /\ \E latest \in Usable(p) :
       /\ \A row \in Usable(p) : row.id <= latest.id
       /\ server' = [server EXCEPT ![w] =
            [Unoccupied EXCEPT !.at = IF right THEN "find" ELSE "wrong",
                           !.phone = p, !.by = by, !.code = latest.id]]
  /\ UNCHANGED <<verify, sent, rowsOfCustomers, referralRows, spent, settings>>

WrongCode(w) ==
  /\ server[w].at = "wrong"
  /\ verify' = [verify EXCEPT ![server[w].phone] =
       {IF row.id = server[w].code THEN [row EXCEPT !.failed = @ + 1] ELSE row : row \in @}]
  /\ ServerEnds(w)
  /\ UNCHANGED <<sent, rowsOfCustomers, referralRows, spent, settings>>

-----------------------------------------------------------------------------
(* The customer.                                                           *)

\* getByBusinessAndPhone joins the balance.  A login needs the customer.
Find(w) ==
  /\ server[w].at = "find"
  /\ \/ server[w].phone \in funded /\ ServerGoes(w, "forget")
     \/ /\ server[w].phone \notin funded
        /\ server' = [server EXCEPT ![w].at = "create", ![w].new = TRUE]
     \/ server[w].phone \notin funded /\ ServerEnds(w)
  /\ UNCHANGED <<verify, sent, rowsOfCustomers, referralRows, spent, settings>>

\* upsertByPhone: the row, whether it has a balance or not.
FindRow(w) ==
  /\ server[w].at = "create"
  /\ ServerGoes(w, IF server[w].phone \in customers THEN "forget" ELSE "insert")
  /\ UNCHANGED <<verify, sent, rowsOfCustomers, referralRows, spent, settings>>

InsertCustomer(w) ==
  /\ server[w].at = "insert"
  /\ IF server[w].phone \in customers
       THEN ServerEnds(w) /\ UNCHANGED customers
       ELSE ServerGoes(w, "balance") /\ customers' = customers \cup {server[w].phone}
  /\ UNCHANGED <<verify, sent, funded, referralRows, spent, settings>>

InsertBalance(w) ==
  /\ server[w].at = "balance"
  /\ funded' = funded \cup {server[w].phone}
  /\ ServerGoes(w, "forget")
  /\ UNCHANGED <<verify, sent, customers, referralRows, spent, settings>>

\* The code is deleted and the request answered; hooks are for new customers.
ForgetCode(w) ==
  /\ server[w].at = "forget"
  /\ DeleteCode(w, server[w].phone)
  /\ IF server[w].new /\ server[w].by # NoCode THEN ServerGoes(w, "apply") ELSE ServerEnds(w)
  /\ UNCHANGED <<sent, rowsOfCustomers, referralRows, spent, settings>>

-----------------------------------------------------------------------------
(* Referrals.                                                              *)

\* getOrCreateReferralCode: one per customer.
GetReferralCode(p) ==
  /\ p \in customers /\ uses[p] = NoCode
  /\ uses' = [uses EXCEPT ![p] = 0]
  /\ UNCHANGED <<verify, sent, rowsOfCustomers, referral, paid, credited, spent, settings, server>>

Applicable(by, p) == uses[by] # NoCode /\ by # p /\ referral[p] = NoCode

\* applyReferralCode, in the hooks of a new customer.
ApplyReferral(w) ==
  LET by == server[w].by
      p  == server[w].phone
  IN  /\ server[w].at = "apply"
      /\ Applicable(by, p)
      /\ uses' = [uses EXCEPT ![by] = @ + 1]
      /\ referral' = [referral EXCEPT ![p] = [by |-> by, status |-> "pending"]]
      /\ IF settings.signup THEN ServerGoes(w, "reward") ELSE ServerEnds(w)
      /\ UNCHANGED <<verify, sent, rowsOfCustomers, paid, credited, spent, settings>>

RefuseReferral(w) ==
  /\ server[w].at = "apply"
  /\ ~Applicable(server[w].by, server[w].phone)
  /\ ServerEnds(w)
  /\ UNCHANGED <<verify, sent, rowsOfCustomers, referralRows, spent, settings>>

\* An award, whose hooks come to checkAndCompleteReferral.  The total counts
\* what has been refunded, too.
Buy(w, p) ==
  /\ server[w].at = "idle"
  /\ p \in funded /\ spent[p] < MaxPurchases
  /\ spent' = [spent EXCEPT ![p] = @ + 1]
  /\ server' = [server EXCEPT ![w] = [Unoccupied EXCEPT !.at = "check", !.phone = p]]
  /\ UNCHANGED <<verify, sent, rowsOfCustomers, referralRows, settings>>

Exists(p)    == referral[p] # NoCode
AnyStatus(p) == Exists(p)
Pending(p)   == Exists(p) /\ referral[p].status = "pending"

CheckReferral(w) ==
  LET p == server[w].phone
  IN  /\ server[w].at = "check"
      /\ IF Pending(p) /\ spent[p] >= settings.min THEN ServerGoes(w, "reward") ELSE ServerEnds(w)
      /\ UNCHANGED <<verify, sent, rowsOfCustomers, referralRows, spent, settings>>

\* completeAndRewardReferral: the points of both ends are added to their
\* balances, if they have one, both are entered, and the referral is done.
RewardReferral(w) ==
  LET p    == server[w].phone
      ends == {p, referral[p].by}
  IN  /\ server[w].at = "reward"
      /\ IF Pending(p)
           THEN /\ referral' = [referral EXCEPT ![p].status = "rewarded"]
                /\ credited' = [q \in Phones |->
                     IF q \in ends \cap funded THEN credited[q] + 1 ELSE credited[q]]
                /\ paid' = paid \o <<[of |-> p, to |-> referral[p].by], [of |-> p, to |-> p]>>
           ELSE UNCHANGED <<referral, paid, credited>>
      /\ ServerEnds(w)
      /\ UNCHANGED <<verify, sent, rowsOfCustomers, uses, spent, settings>>

\* PUT /admin/referral-settings.
ChangeSettings(s) ==
  /\ settings' = s
  /\ UNCHANGED <<verify, sent, rowsOfCustomers, referralRows, spent, server>>

\* A statement fails, or the process dies; nothing resumes the hooks.
AbandonJoin(w) ==
  /\ server[w].at # "idle"
  /\ ServerEnds(w)
  /\ UNCHANGED <<verify, sent, rowsOfCustomers, referralRows, spent, settings>>

JoiningNext ==
  \/ \E p \in Phones : ExpireCode(p) \/ GetReferralCode(p)
  \/ \E w \in Servers :
       \/ \E p \in Phones, by \in Phones \cup {NoCode}, right \in BOOLEAN : Guess(w, p, by, right)
       \/ \E p \in Phones : RequestCode(w, p) \/ Buy(w, p)
       \/ StoreCode(w) \/ DeliverCode(w) \/ WrongCode(w) \/ Find(w) \/ FindRow(w) \/ InsertCustomer(w) \/ InsertBalance(w)
       \/ ForgetCode(w) \/ ApplyReferral(w) \/ RefuseReferral(w) \/ CheckReferral(w)
       \/ RewardReferral(w) \/ AbandonJoin(w)
  \/ \E s \in Settings : ChangeSettings(s)

JoiningSpec == JoiningInit /\ [][JoiningNext]_joiningVars

-----------------------------------------------------------------------------
(* Properties.                                                             *)

Times(p, to) == Cardinality({i \in DOMAIN paid : paid[i] = [of |-> p, to |-> to]})

Rewarded(p) == Exists(p) /\ referral[p].status # "pending"

Earned(p) == Cardinality({i \in DOMAIN paid : paid[i].to = p})

(* However joins are doubled, hooks are lost and purchases and sign-ups    *)
(* complete the same referral at the same time: a referral that is         *)
(* rewarded has entered a reward for each of its ends once, another one    *)
(* for nobody, and the uses of a code are the referrals made with it.      *)
(* Nobody's balance gets more than has been entered, and a customer who    *)
(* had one before gets it all.  Who has no balance, because the join broke *)
(* off before it or goes on beside another one, has the reward entered and *)
(* does not get its points: completeAndRewardReferral does not look at the *)
(* number of rows that it has updated.  A repair of the ledger, which      *)
(* would add them, is not modelled here.                                   *)
ReferralPaidOnce ==
  \A p \in Phones :
    /\ \A to \in Phones :
         Times(p, to) = IF Rewarded(p) /\ to \in {p, referral[p].by} THEN 1 ELSE 0
    /\ credited[p] <= Earned(p)
    /\ p \in Members => credited[p] = Earned(p)
    /\ p \notin funded => credited[p] = 0
    /\ uses[p] # NoCode =>
         uses[p] = Cardinality({q \in Phones : Exists(q) /\ referral[q].by = p})
    /\ Exists(p) => p \in customers /\ referral[p].by \in customers
=============================================================================
