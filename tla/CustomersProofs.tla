--------------------------- MODULE CustomersProofs ----------------------------
(***************************************************************************)
(* Proofs about what happens to customers: who joins and is referred,      *)
(* who is greeted, the tiers, what is derived from transactions, and what  *)
(* is earned and taken back besides the points.                            *)
(***************************************************************************)
EXTENDS Joining, Lifecycle, Tiers, CustomerState, Rewards, TotalsProofs, SequenceTheorems,
        FiniteSetTheorems

-----------------------------------------------------------------------------
(***************************************************************************)
(* Proof that a referral is paid once.                                     *)
(***************************************************************************)

(* The inductive invariant.                                                *)

ServerState ==
  [at : {"idle", "store", "deliver", "find", "wrong", "create", "insert", "balance", "forget", "apply", "check",
         "reward"},
   phone : Phones \cup {NoCode}, by : Phones \cup {NoCode}, code : Nat, new : BOOLEAN]

JoiningTyped ==
  /\ verify \in [Phones -> SUBSET CodeRow]
  /\ sent \in Nat
  /\ customers \subseteq Phones
  /\ Members \subseteq funded /\ funded \subseteq customers
  /\ uses \in [Phones -> Nat \cup {NoCode}]
  /\ referral \in [Phones -> ReferralRow \cup {NoCode}]
  /\ paid \in Seq(PaymentRow)
  /\ credited \in [Phones -> Nat]
  /\ server \in [Servers -> ServerState]

\* A server that has passed the insertion has a customer: none is deleted.
ServerFits(w) ==
  /\ server[w].at # "idle" => server[w].phone \in Phones
  /\ server[w].at \in {"balance", "forget", "apply"} => server[w].phone \in customers
  /\ server[w].at = "apply" => server[w].by \in Phones

ServersFit == \A w \in Servers : ServerFits(w)

\* A code belongs to a customer, a referral to a code of somebody else.
CodesFit ==
  /\ \A p \in Phones : uses[p] # NoCode => p \in customers
  /\ \A p \in Phones : Exists(p) => referral[p].by # p /\ uses[referral[p].by] # NoCode

JoiningInv == JoiningTyped /\ ServersFit /\ CodesFit /\ ReferralPaidOnce

-----------------------------------------------------------------------------
(* Counting rows.                                                          *)

EntriesTo(p) == {i \in DOMAIN paid : paid[i].to = p}

Payments(p, to) == {i \in DOMAIN paid : paid[i] = [of |-> p, to |-> to]}

Referred(p) == {q \in Phones : Exists(q) /\ referral[q].by = p}

LEMMA PaymentsFinite ==
  ASSUME paid \in Seq(PaymentRow), NEW p, NEW to
  PROVE  IsFiniteSet(Payments(p, to)) /\ Times(p, to) = Cardinality(Payments(p, to))
<1>1. Payments(p, to) \subseteq 1..Len(paid) /\ Len(paid) \in Int /\ 1 \in Int
  BY DEF Payments
<1>2. IsFiniteSet(1..Len(paid))
  BY <1>1, FS_Interval
<1> QED BY <1>1, <1>2, FS_Subset DEF Payments, Times

LEMMA EntriesFinite ==
  ASSUME paid \in Seq(PaymentRow), NEW p
  PROVE  IsFiniteSet(EntriesTo(p)) /\ Earned(p) = Cardinality(EntriesTo(p)) /\ Earned(p) \in Nat
<1>1. EntriesTo(p) \subseteq 1..Len(paid) /\ Len(paid) \in Int /\ 1 \in Int
  BY DEF EntriesTo
<1>2. IsFiniteSet(1..Len(paid))
  BY <1>1, FS_Interval
<1>3. IsFiniteSet(EntriesTo(p))
  BY <1>1, <1>2, FS_Subset
<1> QED BY <1>3, FS_CardinalityType DEF EntriesTo, Earned

LEMMA ReferredFinite ==
  ASSUME NEW p
  PROVE  IsFiniteSet(Referred(p)) /\ Cardinality(Referred(p)) \in Nat
<1>1. IsFiniteSet(Phones) /\ Referred(p) \subseteq Phones
  BY PhonesAssumption DEF Referred
<1> QED BY <1>1, FS_Subset, FS_CardinalityType

\* The uses of a code are the referrals made with it.
LEMMA UsesCounted ==
  ASSUME ReferralPaidOnce, NEW q \in Phones, uses[q] # NoCode
  PROVE  uses[q] = Cardinality(Referred(q))
BY DEF ReferralPaidOnce, Referred

\* What the invariant says of the payments of one referral.
LEMMA PaidOnce ==
  ASSUME ReferralPaidOnce, NEW p \in Phones, NEW to \in Phones
  PROVE  Times(p, to) = IF Rewarded(p) /\ to \in {p, referral[p].by} THEN 1 ELSE 0
BY DEF ReferralPaidOnce

\* And of what has been added to a balance.
LEMMA NoneTooMuch ==
  ASSUME ReferralPaidOnce, NEW q \in Phones
  PROVE  /\ credited[q] <= Earned(q)
         /\ q \in Members => credited[q] = Earned(q)
         /\ q \notin funded => credited[q] = 0
BY DEF ReferralPaidOnce

-----------------------------------------------------------------------------
(* The steps.                                                              *)

LEMMA UnoccupiedType == Unoccupied \in ServerState /\ Unoccupied.at = "idle"
BY DEF Unoccupied, ServerState

LEMMA JoiningAtFirst ==
  ASSUME JoiningInit
  PROVE  JoiningInv
<1>1. JoiningTyped
  BY UnoccupiedType, PhonesAssumption, EmptySeq DEF JoiningInit, JoiningTyped
<1>2. ServersFit /\ CodesFit
  BY UnoccupiedType DEF JoiningInit, ServersFit, ServerFits, CodesFit, Exists
<1>3. ASSUME NEW p \in Phones, NEW to \in Phones PROVE Times(p, to) = 0
  <2>1. Payments(p, to) = {}
    BY DEF JoiningInit, Payments
  <2> QED BY <2>1, FS_EmptySet DEF Payments, Times
<1>4. ASSUME NEW p \in Phones PROVE Earned(p) = 0
  <2>1. EntriesTo(p) = {}
    BY DEF JoiningInit, EntriesTo
  <2> QED BY <2>1, FS_EmptySet DEF EntriesTo, Earned
<1>5. ReferralPaidOnce
  BY <1>3, <1>4 DEF JoiningInit, ReferralPaidOnce, Rewarded, Exists
<1> QED BY <1>1, <1>2, <1>5 DEF JoiningInv

\* The referrals stay; codes come and go, customers are added.
LEMMA ReferralsStay ==
  ASSUME JoiningInv, UNCHANGED referralRows, customers \subseteq customers',
         customers' \subseteq Phones, funded \subseteq funded', funded' \subseteq customers',
         verify' \in [Phones -> SUBSET CodeRow], sent' \in Nat,
         server' \in [Servers -> ServerState], ServersFit'
  PROVE  JoiningInv'
<1>1. uses' = uses /\ referral' = referral /\ paid' = paid /\ credited' = credited
  BY DEF referralRows
<1>2. JoiningTyped' /\ CodesFit'
  BY <1>1 DEF JoiningInv, JoiningTyped, CodesFit, Exists
<1>3. /\ \A p, to \in Phones : Times(p, to)' = Times(p, to)
      /\ \A p \in Phones : Exists(p)' = Exists(p) /\ Rewarded(p)' = Rewarded(p)
  BY <1>1 DEF Times, Exists, Rewarded
<1>4. \A p \in Phones : Earned(p)' = Earned(p) /\ Referred(p)' = Referred(p)
  BY <1>1 DEF Earned, Referred, Exists
<1>5. ReferralPaidOnce'
  <2>1. \A p, to \in Phones :
          Times(p, to)' = IF Rewarded(p)' /\ to \in {p, referral'[p].by} THEN 1 ELSE 0
    BY <1>1, <1>3, PaidOnce DEF JoiningInv
  <2>2. \A p \in Phones :
          /\ credited'[p] <= Earned(p)'
          /\ p \in Members => credited'[p] = Earned(p)'
          /\ p \notin funded' => credited'[p] = 0
    BY <1>1, <1>4, NoneTooMuch DEF JoiningInv
  <2>3. \A p \in Phones : uses'[p] # NoCode => uses'[p] = Cardinality(Referred(p)')
    BY <1>1, <1>4, UsesCounted DEF JoiningInv
  <2>4. \A p \in Phones : Exists(p)' => p \in customers' /\ referral'[p].by \in customers'
    BY <1>1, <1>3 DEF JoiningInv, ReferralPaidOnce
  <2> QED BY <2>1, <2>2, <2>3, <2>4 DEF ReferralPaidOnce, Referred
<1> QED BY <1>2, <1>5 DEF JoiningInv

\* One server goes on to state c.
LEMMA ServerMoves ==
  ASSUME JoiningInv, NEW w \in Servers, NEW c \in ServerState,
         server' = [server EXCEPT ![w] = c], customers \subseteq customers',
         c.at # "idle" => c.phone \in Phones,
         c.at \in {"balance", "forget", "apply"} => c.phone \in customers',
         c.at = "apply" => c.by \in Phones
  PROVE  server' \in [Servers -> ServerState] /\ ServersFit'
<1>1. /\ server' \in [Servers -> ServerState] /\ server'[w] = c
      /\ \A v \in Servers \ {w} : server'[v] = server[v]
  BY DEF JoiningInv, JoiningTyped
<1> QED BY <1>1 DEF JoiningInv, ServersFit, ServerFits

LEMMA ServerEndsMoves ==
  ASSUME JoiningInv, NEW w \in Servers, ServerEnds(w), customers \subseteq customers'
  PROVE  server' \in [Servers -> ServerState] /\ ServersFit'
BY UnoccupiedType, ServerMoves DEF ServerEnds

LEMMA ServerGoesMoves ==
  ASSUME JoiningInv, NEW w \in Servers, customers \subseteq customers',
         NEW step \in {"insert", "balance", "forget", "apply", "reward"}, ServerGoes(w, step),
         server[w].phone \in Phones,
         step \in {"balance", "forget", "apply"} => server[w].phone \in customers',
         step = "apply" => server[w].by \in Phones
  PROVE  server' \in [Servers -> ServerState] /\ ServersFit'
<1> DEFINE c == [server[w] EXCEPT !.at = step]
<1>1. server[w] \in ServerState
  BY DEF JoiningInv, JoiningTyped
<1>2. c \in ServerState /\ c.at = step /\ c.phone = server[w].phone /\ c.by = server[w].by
  BY <1>1 DEF ServerState
<1>3. server' = [server EXCEPT ![w] = c]
  BY <1>1 DEF ServerGoes, ServerState, JoiningInv, JoiningTyped
<1> HIDE DEF c
<1> QED BY <1>2, <1>3, ServerMoves

\* What a busy server is about.
LEMMA ServerKnows ==
  ASSUME JoiningInv, NEW w \in Servers
  PROVE  server[w] \in ServerState /\ ServerFits(w)
BY DEF JoiningInv, JoiningTyped, ServersFit

LEMMA TablesTyped ==
  ASSUME JoiningInv
  PROVE  /\ verify \in [Phones -> SUBSET CodeRow] /\ sent \in Nat
         /\ customers \subseteq Phones /\ funded \subseteq customers
         /\ server \in [Servers -> ServerState] /\ ServersFit
BY DEF JoiningInv, JoiningTyped

\* A row of a code is deleted.
LEMMA DeleteCodeType ==
  ASSUME JoiningInv, NEW w \in Servers, NEW p \in Phones, DeleteCode(w, p)
  PROVE  verify' \in [Phones -> SUBSET CodeRow]
<1>1. {row \in verify[p] : row.id # server[w].code} \in SUBSET CodeRow
  BY TablesTyped
<1>2. verify' = [verify EXCEPT ![p] = {row \in verify[p] : row.id # server[w].code}]
  BY DEF DeleteCode
<1> QED BY <1>1, <1>2, TablesTyped

LEMMA ExpireCodeKeeps ==
  ASSUME JoiningInv, NEW p \in Phones, ExpireCode(p)
  PROVE  JoiningInv'
<1>1. /\ verify' \in [Phones -> SUBSET CodeRow] /\ sent' \in Nat
      /\ UNCHANGED <<rowsOfCustomers, referralRows, server>>
  BY TablesTyped DEF ExpireCode
<1>2. ServersFit'
  BY <1>1, TablesTyped DEF ServersFit, ServerFits, rowsOfCustomers
<1> QED BY <1>1, <1>2, TablesTyped, ReferralsStay DEF rowsOfCustomers

\* The codes that are stored, and deleted when they cannot be sent.
LEMMA RequestCodeKeeps ==
  ASSUME JoiningInv, NEW w \in Servers, NEW p \in Phones, RequestCode(w, p)
  PROVE  JoiningInv'
<1> DEFINE c == [Unoccupied EXCEPT !.at = "store", !.phone = p]
<1>1. c \in ServerState /\ c.at = "store" /\ c.phone = p
  BY UnoccupiedType DEF ServerState
<1>2. /\ server' = [server EXCEPT ![w] = c]
      /\ verify' = [verify EXCEPT ![p] = {}]
      /\ UNCHANGED <<sent, rowsOfCustomers, referralRows>>
  BY DEF RequestCode
<1> HIDE DEF c
<1>3. verify' \in [Phones -> SUBSET CodeRow]
  BY <1>2, TablesTyped
<1>4. server' \in [Servers -> ServerState] /\ ServersFit'
  BY <1>1, <1>2, ServerMoves DEF rowsOfCustomers
<1> QED BY <1>2, <1>3, <1>4, TablesTyped, ReferralsStay DEF rowsOfCustomers

LEMMA StoreCodeKeeps ==
  ASSUME JoiningInv, NEW w \in Servers, StoreCode(w)
  PROVE  JoiningInv'
<1> DEFINE c   == [server[w] EXCEPT !.at = "deliver", !.code = sent']
           row == [id |-> sent', failed |-> 0]
<1>1. server[w] \in ServerState /\ server[w].phone \in Phones /\ sent' \in Nat
  BY ServerKnows, TablesTyped DEF ServerFits, StoreCode
<1>2. c \in ServerState /\ c.at = "deliver" /\ c.phone = server[w].phone
  BY <1>1 DEF ServerState
<1>3. row \in CodeRow
  BY <1>1 DEF CodeRow
<1>4. /\ server' = [server EXCEPT ![w] = c]
      /\ verify' = [verify EXCEPT ![server[w].phone] = verify[server[w].phone] \cup {row}]
      /\ UNCHANGED <<rowsOfCustomers, referralRows>>
  BY <1>1, TablesTyped DEF StoreCode, ServerState
<1> HIDE DEF c, row
<1>5. verify' \in [Phones -> SUBSET CodeRow]
  <2>1. verify[server[w].phone] \cup {row} \in SUBSET CodeRow
    BY <1>1, <1>3, TablesTyped
  <2> QED BY <1>4, <2>1, TablesTyped
<1>6. server' \in [Servers -> ServerState] /\ ServersFit'
  BY <1>1, <1>2, <1>4, ServerMoves DEF rowsOfCustomers
<1> QED BY <1>1, <1>4, <1>5, <1>6, TablesTyped, ReferralsStay DEF rowsOfCustomers

LEMMA DeliverCodeKeeps ==
  ASSUME JoiningInv, NEW w \in Servers, DeliverCode(w)
  PROVE  JoiningInv'
<1>1. server[w].phone \in Phones
  BY ServerKnows DEF ServerFits, DeliverCode
<1>2. verify' \in [Phones -> SUBSET CodeRow]
  BY <1>1, DeleteCodeType, TablesTyped DEF DeliverCode
<1>3. ServerEnds(w) /\ UNCHANGED <<sent, rowsOfCustomers, referralRows>>
  BY DEF DeliverCode
<1>4. server' \in [Servers -> ServerState] /\ ServersFit'
  BY <1>3, ServerEndsMoves DEF rowsOfCustomers
<1> QED BY <1>2, <1>3, <1>4, TablesTyped, ReferralsStay DEF rowsOfCustomers

LEMMA GuessKeeps ==
  ASSUME JoiningInv, NEW w \in Servers, NEW p \in Phones, NEW by \in Phones \cup {NoCode},
         NEW right \in BOOLEAN, Guess(w, p, by, right)
  PROVE  JoiningInv'
<1>1. PICK latest \in Usable(p) :
        server' = [server EXCEPT ![w] =
          [Unoccupied EXCEPT !.at = IF right THEN "find" ELSE "wrong",
                             !.phone = p, !.by = by, !.code = latest.id]]
  BY DEF Guess
<1> DEFINE c == [Unoccupied EXCEPT !.at = IF right THEN "find" ELSE "wrong",
                                   !.phone = p, !.by = by, !.code = latest.id]
<1>2. latest.id \in Nat
  <2>1. latest \in CodeRow
    BY TablesTyped DEF Usable
  <2> QED BY <2>1 DEF CodeRow
<1>3. c \in ServerState /\ c.at \in {"find", "wrong"} /\ c.phone = p
  BY <1>2, UnoccupiedType DEF ServerState
<1>4. /\ server' = [server EXCEPT ![w] = c]
      /\ UNCHANGED <<verify, sent, rowsOfCustomers, referralRows>>
  BY <1>1 DEF Guess
<1> HIDE DEF c
<1>5. server' \in [Servers -> ServerState] /\ ServersFit'
  BY <1>3, <1>4, ServerMoves DEF rowsOfCustomers
<1> QED BY <1>4, <1>5, TablesTyped, ReferralsStay DEF rowsOfCustomers

LEMMA WrongCodeKeeps ==
  ASSUME JoiningInv, NEW w \in Servers, WrongCode(w)
  PROVE  JoiningInv'
<1>1. PICK p \in Phones : p = server[w].phone
  BY ServerKnows DEF ServerFits, WrongCode
<1> DEFINE Failed(row) == IF row.id = server[w].code THEN [row EXCEPT !.failed = @ + 1] ELSE row
<1>2. \A row \in CodeRow : Failed(row) \in CodeRow
  BY DEF CodeRow
<1>3. verify' = [verify EXCEPT ![p] = {Failed(row) : row \in verify[p]}]
  BY <1>1 DEF WrongCode
<1> HIDE DEF Failed
<1>4. {Failed(row) : row \in verify[p]} \in SUBSET CodeRow
  BY <1>2, TablesTyped
<1>5. verify' \in [Phones -> SUBSET CodeRow]
  BY <1>3, <1>4, TablesTyped
<1>6. ServerEnds(w) /\ UNCHANGED <<sent, rowsOfCustomers, referralRows>>
  BY DEF WrongCode
<1>7. server' \in [Servers -> ServerState] /\ ServersFit'
  BY <1>6, ServerEndsMoves DEF rowsOfCustomers
<1> QED BY <1>5, <1>6, <1>7, TablesTyped, ReferralsStay DEF rowsOfCustomers

\* The steps of a join, up to the balance.
LEMMA JoinsKeep ==
  ASSUME JoiningInv, NEW w \in Servers,
         Find(w) \/ FindRow(w) \/ InsertCustomer(w) \/ InsertBalance(w)
  PROVE  JoiningInv'
<1>1. /\ server[w] \in ServerState /\ server[w].phone \in Phones
      /\ UNCHANGED <<verify, sent, referralRows>>
  BY ServerKnows DEF ServerFits, Find, FindRow, InsertCustomer, InsertBalance
<1>2. CASE Find(w)
  <2>1. customers' = customers /\ funded' = funded
    BY <1>2 DEF Find, rowsOfCustomers
  <2>2. CASE server[w].phone \in funded /\ ServerGoes(w, "forget")
    <3>1. server' \in [Servers -> ServerState] /\ ServersFit'
      BY <1>1, <2>1, <2>2, TablesTyped, ServerGoesMoves
    <3> QED BY <1>1, <2>1, <3>1, TablesTyped, ReferralsStay
  <2>3. CASE server' = [server EXCEPT ![w].at = "create", ![w].new = TRUE]
    <3> DEFINE c == [server[w] EXCEPT !.at = "create", !.new = TRUE]
    <3>1. c \in ServerState /\ c.at = "create" /\ c.phone = server[w].phone
      BY <1>1 DEF ServerState
    <3>2. server' = [server EXCEPT ![w] = c]
      BY <1>1, <2>3, TablesTyped DEF ServerState
    <3> HIDE DEF c
    <3>3. server' \in [Servers -> ServerState] /\ ServersFit'
      BY <1>1, <2>1, <3>1, <3>2, ServerMoves
    <3> QED BY <1>1, <2>1, <3>3, TablesTyped, ReferralsStay
  <2>4. CASE ServerEnds(w)
    <3>1. server' \in [Servers -> ServerState] /\ ServersFit'
      BY <2>1, <2>4, ServerEndsMoves
    <3> QED BY <1>1, <2>1, <3>1, TablesTyped, ReferralsStay
  <2> QED BY <1>2, <2>2, <2>3, <2>4 DEF Find
<1>3. CASE FindRow(w)
  <2>1. customers' = customers /\ funded' = funded
    BY <1>3 DEF FindRow, rowsOfCustomers
  <2>2. PICK step \in {"forget", "insert"} :
          ServerGoes(w, step) /\ (step = "forget" => server[w].phone \in customers)
    BY <1>3 DEF FindRow
  <2>3. server' \in [Servers -> ServerState] /\ ServersFit'
    BY <1>1, <2>1, <2>2, ServerGoesMoves
  <2> QED BY <1>1, <2>1, <2>3, TablesTyped, ReferralsStay
<1>4. CASE InsertCustomer(w)
  <2>1. CASE ServerEnds(w) /\ UNCHANGED customers
    <3>1. server' \in [Servers -> ServerState] /\ ServersFit'
      BY <2>1, ServerEndsMoves
    <3> QED BY <1>1, <1>4, <2>1, <3>1, TablesTyped, ReferralsStay DEF InsertCustomer
  <2>2. CASE ServerGoes(w, "balance") /\ customers' = customers \cup {server[w].phone}
    <3>1. server' \in [Servers -> ServerState] /\ ServersFit'
      BY <1>1, <2>2, ServerGoesMoves
    <3>2. customers' \subseteq Phones /\ funded' \subseteq customers' /\ funded' = funded
      BY <1>1, <1>4, <2>2, TablesTyped DEF InsertCustomer
    <3> QED BY <1>1, <2>2, <3>1, <3>2, TablesTyped, ReferralsStay
  <2> QED BY <1>4, <2>1, <2>2 DEF InsertCustomer
<1>5. CASE InsertBalance(w)
  <2>1. /\ server[w].phone \in customers /\ customers' = customers
        /\ funded' = funded \cup {server[w].phone} /\ ServerGoes(w, "forget")
    BY <1>5, ServerKnows DEF InsertBalance, ServerFits
  <2>2. server' \in [Servers -> ServerState] /\ ServersFit'
    BY <1>1, <2>1, ServerGoesMoves
  <2> QED BY <1>1, <2>1, <2>2, TablesTyped, ReferralsStay
<1> QED BY <1>2, <1>3, <1>4, <1>5

LEMMA ForgetCodeKeeps ==
  ASSUME JoiningInv, NEW w \in Servers, ForgetCode(w)
  PROVE  JoiningInv'
<1>1. /\ server[w] \in ServerState /\ server[w].phone \in customers /\ server[w].phone \in Phones
      /\ UNCHANGED <<sent, customers, funded, referralRows>>
  BY ServerKnows DEF ServerFits, ForgetCode, rowsOfCustomers
<1>2. verify' \in [Phones -> SUBSET CodeRow]
  BY <1>1, DeleteCodeType DEF ForgetCode
<1>3. server' \in [Servers -> ServerState] /\ ServersFit'
  <2>1. CASE server[w].by # NoCode /\ ServerGoes(w, "apply")
    <3>1. server[w].by \in Phones
      BY <1>1, <2>1 DEF ServerState
    <3> QED BY <1>1, <2>1, <3>1, ServerGoesMoves
  <2>2. CASE ServerEnds(w)
    BY <1>1, <2>2, ServerEndsMoves
  <2> QED BY <2>1, <2>2 DEF ForgetCode
<1> QED BY <1>1, <1>2, <1>3, TablesTyped, ReferralsStay

\* Steps of a server that leave the tables alone: they end it, or go to "reward".
LEMMA ServerOnly ==
  ASSUME JoiningInv, NEW w \in Servers, UNCHANGED <<verify, sent, rowsOfCustomers, referralRows>>,
         ServerEnds(w) \/ (ServerGoes(w, "reward") /\ server[w].phone \in Phones)
  PROVE  JoiningInv'
<1>1. customers' = customers /\ funded' = funded
  BY DEF rowsOfCustomers
<1>2. server' \in [Servers -> ServerState] /\ ServersFit'
  BY <1>1, ServerEndsMoves, ServerGoesMoves
<1> QED BY <1>1, <1>2, TablesTyped, ReferralsStay

LEMMA BuyKeeps ==
  ASSUME JoiningInv, NEW w \in Servers, NEW p \in Phones, Buy(w, p)
  PROVE  JoiningInv'
<1> DEFINE c == [Unoccupied EXCEPT !.at = "check", !.phone = p]
<1>1. c \in ServerState /\ c.at = "check" /\ c.phone = p
  BY UnoccupiedType DEF ServerState
<1>2. /\ server' = [server EXCEPT ![w] = c]
      /\ UNCHANGED <<verify, sent, rowsOfCustomers, referralRows>>
  BY DEF Buy
<1> HIDE DEF c
<1>3. server' \in [Servers -> ServerState] /\ ServersFit'
  BY <1>1, <1>2, ServerMoves DEF rowsOfCustomers
<1> QED BY <1>2, <1>3, TablesTyped, ReferralsStay DEF rowsOfCustomers

\* A new code has no referrals yet.
LEMMA GetReferralCodeKeeps ==
  ASSUME JoiningInv, NEW p \in Phones, GetReferralCode(p)
  PROVE  JoiningInv'
<1>1. /\ p \in customers /\ uses[p] = NoCode /\ uses' = [uses EXCEPT ![p] = 0]
      /\ UNCHANGED <<verify, sent, customers, funded, referral, paid, credited, server>>
  BY DEF GetReferralCode, rowsOfCustomers
<1>2. /\ uses' \in [Phones -> Nat \cup {NoCode}] /\ uses'[p] = 0 /\ uses'[p] # NoCode
      /\ \A q \in Phones \ {p} : uses'[q] = uses[q]
  BY <1>1, NoCodeAssumption DEF JoiningInv, JoiningTyped
<1>3. JoiningTyped' /\ ServersFit'
  BY <1>1, <1>2 DEF JoiningInv, JoiningTyped, ServersFit, ServerFits
<1>4. CodesFit'
  BY <1>1, <1>2, NoCodeAssumption DEF JoiningInv, CodesFit, Exists
<1>5. Referred(p) = {}
  BY <1>1 DEF JoiningInv, CodesFit, Referred
<1>6. Cardinality({q \in Phones : Exists(q) /\ referral[q].by = p}) = 0
  BY <1>5, FS_EmptySet DEF Referred
<1>7. ReferralPaidOnce'
  <2>1. \A q \in Phones :
          Cardinality({o \in Phones : Exists(o) /\ referral[o].by = q})'
            = Cardinality({o \in Phones : Exists(o) /\ referral[o].by = q})
    BY <1>1 DEF Exists
  <2>2. \A q, to \in Phones : /\ Times(q, to)' = Times(q, to)
                              /\ Exists(q)' = Exists(q) /\ Rewarded(q)' = Rewarded(q)
    BY <1>1 DEF Times, Exists, Rewarded
  <2>3. \A q \in Phones : Earned(q)' = Earned(q) /\ credited'[q] = credited[q]
    BY <1>1 DEF Earned
  <2> QED BY <1>1, <1>2, <1>6, <2>1, <2>2, <2>3 DEF JoiningInv, ReferralPaidOnce
<1> QED BY <1>3, <1>4, <1>7 DEF JoiningInv

\* A referral is made, and the code has one more use.
LEMMA ApplyReferralKeeps ==
  ASSUME JoiningInv, NEW w \in Servers, ApplyReferral(w)
  PROVE  JoiningInv'
<1>1. PICK by \in Phones : by = server[w].by
  BY ServerKnows DEF ServerFits, ApplyReferral
<1>2. PICK p \in Phones : p = server[w].phone
  BY ServerKnows DEF ServerFits, ApplyReferral
<1> DEFINE row == [by |-> by, status |-> "pending"]
<1>3. /\ uses[by] # NoCode /\ by # p /\ referral[p] = NoCode /\ p \in customers
      /\ uses' = [uses EXCEPT ![by] = @ + 1]
      /\ referral' = [referral EXCEPT ![p] = row]
      /\ UNCHANGED <<verify, sent, customers, funded, paid, credited>>
  BY <1>1, <1>2, ServerKnows DEF ServerFits, ApplyReferral, Applicable, rowsOfCustomers
<1>4. row \in ReferralRow /\ row.by = by /\ row.status = "pending" /\ row # NoCode
  BY NoCodeAssumption DEF ReferralRow
<1> HIDE DEF row
<1>5. server' \in [Servers -> ServerState] /\ ServersFit'
  <2>1. CASE ServerGoes(w, "reward")
    BY <1>2, <1>3, <2>1, ServerGoesMoves
  <2>2. CASE ServerEnds(w)
    BY <1>3, <2>2, ServerEndsMoves
  <2> QED BY <2>1, <2>2 DEF ApplyReferral
<1>6. uses[by] \in Nat /\ uses[by] = Cardinality(Referred(by))
  <2>1. uses[by] \in Nat
    BY <1>3 DEF JoiningInv, JoiningTyped
  <2> QED BY <1>3, <2>1, UsesCounted DEF JoiningInv
<1>7. /\ uses' \in [Phones -> Nat \cup {NoCode}] /\ uses'[by] = uses[by] + 1
      /\ uses'[by] # NoCode
      /\ \A q \in Phones \ {by} : uses'[q] = uses[q]
  <2>1. uses[by] + 1 \in Nat /\ uses \in [Phones -> Nat \cup {NoCode}]
    BY <1>6 DEF JoiningInv, JoiningTyped
  <2> QED BY <1>3, <2>1, NoCodeAssumption
<1>8. /\ referral' \in [Phones -> ReferralRow \cup {NoCode}] /\ referral'[p] = row
      /\ \A q \in Phones \ {p} : referral'[q] = referral[q]
  BY <1>3, <1>4 DEF JoiningInv, JoiningTyped
<1>9. JoiningTyped'
  BY <1>3, <1>5, <1>7, <1>8 DEF JoiningInv, JoiningTyped
<1>10. CodesFit'
  <2>1. by \in customers
    BY <1>3 DEF JoiningInv, CodesFit
  <2>2. \A q \in Phones : uses[q] # NoCode => uses'[q] # NoCode
    BY <1>7
  <2>3. \A q \in Phones : uses'[q] # NoCode => q \in customers'
    BY <1>3, <1>7, <2>1 DEF JoiningInv, CodesFit
  <2>4. ASSUME NEW q \in Phones, Exists(q)'
        PROVE  referral'[q].by # q /\ uses'[referral'[q].by] # NoCode
    <3>1. CASE q = p
      BY <1>3, <1>4, <1>7, <1>8, <3>1
    <3>2. CASE q # p
      <4>1. referral'[q] = referral[q] /\ referral[q] # NoCode
        BY <1>8, <2>4, <3>2 DEF Exists
      <4>2. referral[q].by \in Phones
        BY <4>1 DEF JoiningInv, JoiningTyped, ReferralRow
      <4> QED BY <2>2, <4>1, <4>2 DEF JoiningInv, CodesFit, Exists
    <3> QED BY <3>1, <3>2
  <2> QED BY <2>3, <2>4 DEF CodesFit
<1>11. ReferralPaidOnce'
  <2>1. \A q \in Phones \ {p} : (Exists(q)' <=> Exists(q)) /\ (Rewarded(q)' <=> Rewarded(q))
    BY <1>8 DEF Exists, Rewarded
  <2>2. Exists(p)' /\ ~Rewarded(p)' /\ ~Exists(p) /\ ~Rewarded(p)
    BY <1>3, <1>4, <1>8 DEF Exists, Rewarded
  <2>3. \A q, to \in Phones : Times(q, to)' = Times(q, to)
    BY <1>3 DEF Times
  <2>4. \A q, to \in Phones :
          Times(q, to)' = IF Rewarded(q)' /\ to \in {q, referral'[q].by} THEN 1 ELSE 0
    <3>1. ASSUME NEW q \in Phones, NEW to \in Phones
          PROVE  Times(q, to)' =
                   IF Rewarded(q)' /\ to \in {q, referral'[q].by} THEN 1 ELSE 0
      <4>1. Times(q, to) = IF Rewarded(q) /\ to \in {q, referral[q].by} THEN 1 ELSE 0
        BY PaidOnce DEF JoiningInv
      <4>2. CASE q = p
        BY <2>2, <2>3, <4>1, <4>2
      <4>3. CASE q # p
        BY <1>8, <2>1, <2>3, <4>1, <4>3
      <4> QED BY <4>2, <4>3
    <3> QED BY <3>1
  <2>5. Referred(by)' = Referred(by) \cup {p} /\ p \notin Referred(by)
    BY <1>4, <1>8, <2>1, <2>2 DEF Referred
  <2>6. Cardinality(Referred(by) \cup {p}) = Cardinality(Referred(by)) + 1
    BY <2>5, ReferredFinite, FS_AddElement
  <2>7. \A q \in Phones \ {by} : Referred(q)' = Referred(q)
    BY <1>4, <1>8, <2>1, <2>2 DEF Referred
  <2>8. \A q \in Phones : uses'[q] # NoCode => uses'[q] = Cardinality(Referred(q)')
    <3>1. uses'[by] = Cardinality(Referred(by)')
      BY <1>6, <1>7, <2>5, <2>6
    <3>2. ASSUME NEW q \in Phones \ {by}, uses'[q] # NoCode
          PROVE  uses'[q] = Cardinality(Referred(q)')
      <4>1. uses[q] # NoCode /\ uses'[q] = uses[q] /\ Referred(q)' = Referred(q)
        BY <1>7, <2>7, <3>2
      <4>2. uses[q] = Cardinality(Referred(q))
        BY <4>1, UsesCounted DEF JoiningInv
      <4> QED BY <4>1, <4>2
    <3> QED BY <3>1, <3>2
  <2>9. \A q \in Phones : Exists(q)' => q \in customers' /\ referral'[q].by \in customers'
    <3>1. by \in customers
      BY <1>3 DEF JoiningInv, CodesFit
    <3> QED BY <1>3, <1>4, <1>8, <2>1, <3>1 DEF JoiningInv, ReferralPaidOnce
  <2>10. \A q \in Phones :
           /\ credited'[q] <= Earned(q)'
           /\ q \in Members => credited'[q] = Earned(q)'
           /\ q \notin funded' => credited'[q] = 0
    <3>1. \A q \in Phones : Earned(q)' = Earned(q)
      BY <1>3 DEF Earned
    <3>2. credited' = credited /\ funded' = funded
      BY <1>3
    <3> QED BY <3>1, <3>2, NoneTooMuch DEF JoiningInv
  <2> QED BY <2>4, <2>8, <2>9, <2>10 DEF ReferralPaidOnce, Referred
<1> QED BY <1>5, <1>9, <1>10, <1>11 DEF JoiningInv

\* Both ends are paid, for a referral that has paid nobody.
LEMMA PaidTwice ==
  ASSUME JoiningInv, NEW p \in Phones, NEW by \in Phones, by # p, Pending(p),
         referral[p].by = by,
         paid' = paid \o <<[of |-> p, to |-> by], [of |-> p, to |-> p]>>
  PROVE  /\ paid' \in Seq(PaymentRow)
         /\ \A to \in Phones : Times(p, to)' = IF to \in {p, by} THEN 1 ELSE 0
         /\ \A q \in Phones \ {p}, to \in Phones : Times(q, to)' = Times(q, to)
         /\ \A q \in Phones : Earned(q)' = IF q \in {p, by} THEN Earned(q) + 1 ELSE Earned(q)
<1> DEFINE n == Len(paid)
           a == [of |-> p, to |-> by]
           b == [of |-> p, to |-> p]
<1>1. paid \in Seq(PaymentRow) /\ a \in PaymentRow /\ b \in PaymentRow /\ n \in Nat
  BY DEF JoiningInv, JoiningTyped, PaymentRow
<1>2. a.of = p /\ a.to = by /\ b.of = p /\ b.to = p
  OBVIOUS
<1>3. \A q, to : (a = [of |-> q, to |-> to] <=> q = p /\ to = by)
               /\ (b = [of |-> q, to |-> to] <=> q = p /\ to = p)
  OBVIOUS
<1>4. paid' = paid \o <<a, b>>
  OBVIOUS
<1> HIDE DEF a, b
<1>5. /\ paid' \in Seq(PaymentRow) /\ DOMAIN paid = 1..n
      /\ DOMAIN paid' = 1..(n + 2)
      /\ \A i \in 1..n : paid'[i] = paid[i]
      /\ paid'[n + 1] = a /\ paid'[n + 2] = b
  BY <1>1, <1>4
<1>6. DOMAIN paid' = DOMAIN paid \cup {n + 1, n + 2} /\ n + 1 \notin DOMAIN paid /\ n + 2 \notin DOMAIN paid
  BY <1>1, <1>5
<1>7. \A q \in Phones \ {p}, to \in Phones : Times(q, to)' = Times(q, to)
  <2>1. \A q \in Phones \ {p}, to \in Phones : Payments(q, to)' = Payments(q, to)
    BY <1>3, <1>5, <1>6 DEF Payments
  <2> QED BY <2>1 DEF Payments, Times
<1>8. ASSUME NEW to \in Phones PROVE Times(p, to)' = IF to \in {p, by} THEN 1 ELSE 0
  <2>1. Times(p, to) = 0
    BY PaidOnce DEF JoiningInv, Rewarded, Pending
  <2>2. Payments(p, to) = {}
    BY <1>1, <2>1, PaymentsFinite, FS_EmptySet
  <2>3. Times(p, to)' = Cardinality(Payments(p, to)')
    BY DEF Times, Payments
  <2>4. CASE to = by
    <3>1. Payments(p, to)' = {n + 1}
      BY <1>3, <1>5, <1>6, <2>2, <2>4 DEF Payments
    <3> QED BY <2>3, <2>4, <3>1, FS_Singleton
  <2>5. CASE to = p
    <3>1. Payments(p, to)' = {n + 2}
      BY <1>3, <1>5, <1>6, <2>2, <2>5 DEF Payments
    <3> QED BY <2>3, <2>5, <3>1, FS_Singleton
  <2>6. CASE to \notin {p, by}
    <3>1. Payments(p, to)' = {}
      BY <1>3, <1>5, <1>6, <2>2, <2>6 DEF Payments
    <3> QED BY <2>3, <2>6, <3>1, FS_EmptySet
  <2> QED BY <2>4, <2>5, <2>6
<1>9. ASSUME NEW q \in Phones
      PROVE  Earned(q)' = IF q \in {p, by} THEN Earned(q) + 1 ELSE Earned(q)
  <2>1. /\ IsFiniteSet(EntriesTo(q)) /\ Earned(q) = Cardinality(EntriesTo(q))
        /\ Earned(q)' = Cardinality(EntriesTo(q)')
    BY <1>1, EntriesFinite DEF Earned, EntriesTo
  <2>2. n + 1 \notin EntriesTo(q) /\ n + 2 \notin EntriesTo(q)
    BY <1>6 DEF EntriesTo
  <2>3. CASE q = by
    <3>1. EntriesTo(q)' = EntriesTo(q) \cup {n + 1}
      BY <1>1, <1>2, <1>5, <1>6, <2>3 DEF EntriesTo
    <3>2. Cardinality(EntriesTo(q) \cup {n + 1}) = Cardinality(EntriesTo(q)) + 1
      BY <2>1, <2>2, FS_AddElement
    <3> QED BY <2>1, <2>3, <3>1, <3>2
  <2>4. CASE q = p
    <3>1. EntriesTo(q)' = EntriesTo(q) \cup {n + 2}
      BY <1>1, <1>2, <1>5, <1>6, <2>4 DEF EntriesTo
    <3>2. Cardinality(EntriesTo(q) \cup {n + 2}) = Cardinality(EntriesTo(q)) + 1
      BY <2>1, <2>2, FS_AddElement
    <3> QED BY <2>1, <2>4, <3>1, <3>2
  <2>5. CASE q \notin {p, by}
    <3>1. EntriesTo(q)' = EntriesTo(q)
      BY <1>1, <1>2, <1>5, <1>6, <2>5 DEF EntriesTo
    <3> QED BY <2>1, <2>5, <3>1
  <2> QED BY <2>3, <2>4, <2>5
<1> QED BY <1>5, <1>7, <1>8, <1>9

LEMMA RewardReferralKeeps ==
  ASSUME JoiningInv, NEW w \in Servers, RewardReferral(w)
  PROVE  JoiningInv'
<1>1. PICK p \in Phones : p = server[w].phone
  BY ServerKnows DEF ServerFits, RewardReferral
<1>2. ServerEnds(w) /\ UNCHANGED <<verify, sent, customers, funded, uses>>
  BY DEF RewardReferral, rowsOfCustomers
<1>3. CASE ~Pending(p)
  BY <1>1, <1>2, <1>3, ServerOnly DEF RewardReferral, rowsOfCustomers, referralRows
<1>4. CASE Pending(p)
  <2>1. referral[p] \in ReferralRow /\ referral[p] # NoCode
    BY <1>4 DEF Pending, Exists, JoiningInv, JoiningTyped
  <2>2. PICK by \in Phones : by = referral[p].by
    BY <2>1 DEF ReferralRow
  <2>3. by # p /\ uses[by] # NoCode
    BY <1>4, <2>2 DEF Pending, JoiningInv, CodesFit
  <2> DEFINE row == [referral[p] EXCEPT !.status = "rewarded"]
  <2>4. row \in ReferralRow /\ row # NoCode /\ row.by = by /\ row.status # "pending"
    BY <2>1, <2>2, NoCodeAssumption DEF ReferralRow
  <2>5. /\ referral' = [referral EXCEPT ![p] = row]
        /\ paid' = paid \o <<[of |-> p, to |-> by], [of |-> p, to |-> p]>>
        /\ credited' = [q \in Phones |->
             IF q \in {p, by} \cap funded THEN credited[q] + 1 ELSE credited[q]]
    BY <1>1, <1>4, <2>1, <2>2 DEF RewardReferral, ReferralRow, JoiningInv, JoiningTyped
  <2> HIDE DEF row
  <2>6. /\ paid' \in Seq(PaymentRow)
        /\ \A to \in Phones : Times(p, to)' = IF to \in {p, by} THEN 1 ELSE 0
        /\ \A q \in Phones \ {p}, to \in Phones : Times(q, to)' = Times(q, to)
        /\ \A q \in Phones : Earned(q)' = IF q \in {p, by} THEN Earned(q) + 1 ELSE Earned(q)
    BY <1>4, <2>2, <2>3, <2>5, PaidTwice
  <2>7. /\ referral' \in [Phones -> ReferralRow \cup {NoCode}] /\ referral'[p] = row
        /\ \A q \in Phones \ {p} : referral'[q] = referral[q]
    BY <2>4, <2>5 DEF JoiningInv, JoiningTyped
  <2>8. server' \in [Servers -> ServerState] /\ ServersFit'
    BY <1>2, ServerEndsMoves
  <2>9. JoiningTyped'
    <3>1. credited' \in [Phones -> Nat]
      BY <2>5 DEF JoiningInv, JoiningTyped
    <3> QED BY <1>2, <2>6, <2>7, <2>8, <3>1 DEF JoiningInv, JoiningTyped
  <2>10. \A q \in Phones : (Exists(q)' <=> Exists(q)) /\ (Exists(q) => referral'[q].by = referral[q].by)
    BY <2>1, <2>2, <2>4, <2>7 DEF Exists
  <2>11. CodesFit'
    BY <1>2, <2>10 DEF JoiningInv, CodesFit
  <2>12. \A q \in Phones : Referred(q)' = Referred(q)
    BY <2>10 DEF Referred
  <2>13. Rewarded(p)' /\ referral'[p].by = by
    BY <2>4, <2>7 DEF Exists, Rewarded
  <2>14. \A q \in Phones \ {p} : Rewarded(q)' <=> Rewarded(q)
    BY <2>7 DEF Rewarded, Exists
  <2>15. \A q, to \in Phones :
          Times(q, to)' = IF Rewarded(q)' /\ to \in {q, referral'[q].by} THEN 1 ELSE 0
    <3>1. ASSUME NEW q \in Phones, NEW to \in Phones
          PROVE  Times(q, to)' =
                   IF Rewarded(q)' /\ to \in {q, referral'[q].by} THEN 1 ELSE 0
      <4>1. Times(q, to) = IF Rewarded(q) /\ to \in {q, referral[q].by} THEN 1 ELSE 0
        BY PaidOnce DEF JoiningInv
      <4>2. CASE q = p
        BY <2>6, <2>13, <4>2
      <4>3. CASE q # p
        BY <2>6, <2>7, <2>10, <2>14, <4>1, <4>3
      <4> QED BY <4>2, <4>3
    <3> QED BY <3>1
  <2>16. ASSUME NEW q \in Phones
         PROVE  /\ credited'[q] <= Earned(q)'
                /\ q \in Members => credited'[q] = Earned(q)'
                /\ q \notin funded' => credited'[q] = 0
    <3>1. credited[q] \in Nat /\ Earned(q) \in Nat /\ (q \in Members => q \in funded)
      BY EntriesFinite DEF JoiningInv, JoiningTyped
    <3>2. /\ credited[q] <= Earned(q)
          /\ q \in Members => credited[q] = Earned(q)
          /\ q \notin funded => credited[q] = 0
      BY NoneTooMuch DEF JoiningInv
    <3>3. credited'[q] = IF q \in {p, by} \cap funded THEN credited[q] + 1 ELSE credited[q]
      BY <2>5
    <3>4. Earned(q)' = IF q \in {p, by} THEN Earned(q) + 1 ELSE Earned(q)
      BY <2>6
    <3> QED BY <1>2, <3>1, <3>2, <3>3, <3>4
  <2>17. ReferralPaidOnce'
    BY <1>2, <2>10, <2>12, <2>15, <2>16 DEF JoiningInv, ReferralPaidOnce, Referred
  <2> QED BY <2>8, <2>9, <2>11, <2>17 DEF JoiningInv
<1> QED BY <1>3, <1>4

LEMMA JoiningIdle ==
  ASSUME JoiningInv, UNCHANGED <<verify, sent, rowsOfCustomers, referralRows, server>>
  PROVE  JoiningInv'
<1>1. ServersFit' /\ customers' = customers /\ funded' = funded
  BY TablesTyped DEF ServersFit, ServerFits, rowsOfCustomers
<1> QED BY <1>1, TablesTyped, ReferralsStay

LEMMA JoiningStepsKeep ==
  ASSUME JoiningInv, [JoiningNext]_joiningVars
  PROVE  JoiningInv'
<1>1. CASE UNCHANGED joiningVars
  BY <1>1, JoiningIdle DEF joiningVars, rowsOfCustomers, referralRows
<1>2. ASSUME NEW s \in Settings, ChangeSettings(s) PROVE JoiningInv'
  BY <1>2, JoiningIdle DEF ChangeSettings
<1>3. ASSUME NEW w \in Servers, RefuseReferral(w) \/ AbandonJoin(w) PROVE JoiningInv'
  BY <1>3, ServerOnly DEF RefuseReferral, AbandonJoin
<1>4. ASSUME NEW w \in Servers, CheckReferral(w) PROVE JoiningInv'
  <2>1. server[w].phone \in Phones
    BY <1>4, ServerKnows DEF ServerFits, CheckReferral
  <2> QED BY <1>4, <2>1, ServerOnly DEF CheckReferral
<1> QED BY <1>1, <1>2, <1>3, <1>4, ExpireCodeKeeps, RequestCodeKeeps, StoreCodeKeeps,
           DeliverCodeKeeps, GetReferralCodeKeeps, GuessKeeps, BuyKeeps,
           WrongCodeKeeps, JoinsKeep, ForgetCodeKeeps, ApplyReferralKeeps, RewardReferralKeeps
        DEF JoiningNext

-----------------------------------------------------------------------------
(* The theorems.                                                           *)

\* The inductive invariant holds in every reachable state.
THEOREM JoiningInvAlways == JoiningSpec => []JoiningInv
<1> QED BY JoiningAtFirst, JoiningStepsKeep, PTL DEF JoiningSpec

\* However joins are doubled, hooks are lost and the sign-up and purchases
\* complete a referral at once: it enters a reward for each of its ends exactly
\* once when it is rewarded and for nobody before, the balances of the members
\* get what is entered for them, nobody's gets more, a customer without a
\* balance gets no points, and the uses of a code are its referrals.
THEOREM ReferralCorrect == JoiningSpec => []ReferralPaidOnce
<1>1. JoiningInv => ReferralPaidOnce
  BY DEF JoiningInv
<1> QED BY <1>1, JoiningInvAlways, PTL

-----------------------------------------------------------------------------
(***************************************************************************)
(* Proof that every event of the daily automation is rewarded once.        *)
(***************************************************************************)

(* The inductive invariant.                                                *)

LifecycleRun ==
  [at : {"idle", "select", "next", "message"}, stage : 0..3, today : 0..LastClock,
   guests : SUBSET (Customers \cup {CHOOSE g \in Customers : TRUE}),
   guest : Customers \cup {Nobody}]

LifecycleTyped ==
  /\ clock \in 0..LastClock
  /\ recorded \subseteq Happenings
  /\ gifts \in [Happenings -> Nat]
  /\ messages \in [Happenings -> Nat]
  /\ runner \in [Runners -> LifecycleRun]

\* The event that a run is about to send a message for is its own: the run has
\* inserted it, and nobody has sent anything for it.
RunFits(r) ==
  /\ runner[r].at # "idle" => runner[r].stage \in 1..3
  /\ runner[r].at = "message" =>
       /\ runner[r].guest \in Customers
       /\ Event(r, runner[r].guest) \in recorded
       /\ messages[Event(r, runner[r].guest)] = 0

RunsFit == \A r \in Runners : RunFits(r)

EventsDiffer ==
  \A r, q \in Runners :
    r # q /\ runner[r].at = "message" /\ runner[q].at = "message"
      => Event(r, runner[r].guest) # Event(q, runner[q].guest)

LifecycleInv == LifecycleTyped /\ RunsFit /\ EventsDiffer /\ GreetedOnce

-----------------------------------------------------------------------------
(* The steps.                                                              *)

LEMMA StagesAre ==
  /\ DOMAIN Stages = 1..3
  /\ \A i \in 1..3 : Stages[i] \in {"birthday", "winback", "digest"}
BY DEF Stages

LEMMA AsleepType == Asleep \in LifecycleRun /\ Asleep.at = "idle"
BY ClockAssumption DEF Asleep, LifecycleRun

LEMMA LifecycleAtFirst ==
  ASSUME LifecycleInit
  PROVE  LifecycleInv
<1>1. LifecycleTyped
  BY AsleepType, ClockAssumption DEF LifecycleInit, LifecycleTyped
<1>2. RunsFit /\ EventsDiffer
  BY AsleepType DEF LifecycleInit, RunsFit, RunFits, EventsDiffer
<1>3. GreetedOnce
  BY DEF LifecycleInit, GreetedOnce
<1> QED BY <1>1, <1>2, <1>3 DEF LifecycleInv

\* A run goes on and has nothing to send; the tables stay.
LEMMA RunMoves ==
  ASSUME LifecycleInv, NEW r \in Runners, NEW work \in LifecycleRun,
         runner' = [runner EXCEPT ![r] = work], UNCHANGED <<recorded, gifts, messages>>,
         clock' \in 0..LastClock, work.at # "message", work.at # "idle" => work.stage \in 1..3
  PROVE  LifecycleInv'
<1>1. /\ runner' \in [Runners -> LifecycleRun] /\ runner'[r] = work
      /\ \A q \in Runners \ {r} : runner'[q] = runner[q]
  BY DEF LifecycleInv, LifecycleTyped
<1>2. LifecycleTyped' /\ GreetedOnce'
  BY <1>1 DEF LifecycleInv, LifecycleTyped, GreetedOnce
<1>3. RunsFit' /\ EventsDiffer'
  BY <1>1 DEF LifecycleInv, RunsFit, RunFits, EventsDiffer, Event
<1> QED BY <1>2, <1>3 DEF LifecycleInv

LEMMA ReadTodayKeeps ==
  ASSUME LifecycleInv, NEW r \in Runners, NEW stage \in DOMAIN Stages, ReadToday(r, stage)
  PROVE  LifecycleInv'
<1> DEFINE work == [Asleep EXCEPT !.at = "select", !.stage = stage, !.today = clock]
<1>1. work \in LifecycleRun /\ work.at = "select" /\ work.stage \in 1..3
  <2>1. stage \in 1..3 /\ stage \in 0..3 /\ clock \in 0..LastClock
    BY StagesAre DEF LifecycleInv, LifecycleTyped
  <2> QED BY <2>1, AsleepType DEF LifecycleRun
<1>2. runner' = [runner EXCEPT ![r] = work] /\ UNCHANGED <<clock, recorded, gifts, messages>>
  BY DEF ReadToday
<1>3. clock' \in 0..LastClock
  BY <1>2 DEF LifecycleInv, LifecycleTyped
<1> HIDE DEF work
<1> QED BY <1>1, <1>2, <1>3, RunMoves

LEMMA SelectKeeps ==
  ASSUME LifecycleInv, NEW r \in Runners, Select(r)
  PROVE  LifecycleInv'
<1>1. runner[r] \in LifecycleRun /\ RunFits(r) /\ runner[r].stage \in 1..3
  BY DEF LifecycleInv, LifecycleTyped, RunsFit, RunFits, Select
<1>2. PICK guests \in Concerned(Stages[runner[r].stage]) :
        runner' = [runner EXCEPT ![r].at = "next", ![r].guests = guests]
  BY DEF Select
<1>3. guests \subseteq Customers \cup {CHOOSE g \in Customers : TRUE}
  BY <1>1, StagesAre DEF Concerned
<1> DEFINE work == [runner[r] EXCEPT !.at = "next", !.guests = guests]
<1>4. runner' = [runner EXCEPT ![r] = work]
  BY <1>1, <1>2 DEF LifecycleRun, LifecycleInv, LifecycleTyped
<1>5. work \in LifecycleRun /\ work.at = "next" /\ work.stage \in 1..3
  BY <1>1, <1>3 DEF LifecycleRun
<1>6. clock' \in 0..LastClock /\ UNCHANGED <<recorded, gifts, messages>>
  BY DEF LifecycleInv, LifecycleTyped, Select
<1> HIDE DEF work
<1> QED BY <1>4, <1>5, <1>6, RunMoves

LEMMA StopRunKeeps ==
  ASSUME LifecycleInv, NEW r \in Runners, StopRun(r)
  PROVE  LifecycleInv'
<1>1. clock' \in 0..LastClock
  BY DEF LifecycleInv, LifecycleTyped, StopRun
<1> QED BY <1>1, AsleepType, RunMoves DEF StopRun

\* The next state of a run that greets g, and which event that is.
LEMMA GreetedEvent ==
  ASSUME LifecycleInv, NEW r \in Runners, NEW g \in Customers, Greet(r, g)
  PROVE  /\ runner[r] \in LifecycleRun /\ runner[r].stage \in 1..3 /\ runner[r].at = "next"
         /\ Event(r, g) \in Happenings
<1>1. runner[r] \in LifecycleRun /\ runner[r].stage \in 1..3 /\ runner[r].at = "next"
  BY DEF LifecycleInv, LifecycleTyped, RunsFit, RunFits, Greet
<1>2. Event(r, g) \in Happenings
  BY <1>1, StagesAre DEF Event, Happenings, LifecycleRun
<1> QED BY <1>1, <1>2

LEMMA GreetKeeps ==
  ASSUME LifecycleInv, NEW r \in Runners, NEW g \in Customers, Greet(r, g)
  PROVE  LifecycleInv'
<1>1. PICK event \in Happenings : event = Event(r, g)
  BY GreetedEvent
<1>2. runner[r] \in LifecycleRun /\ runner[r].stage \in 1..3 /\ runner[r].at = "next"
  BY GreetedEvent
<1>3. CASE event \in recorded
  <2> DEFINE work == [runner[r] EXCEPT !.guests = @ \ {g}]
  <2>1. /\ runner' = [runner EXCEPT ![r].guests = @ \ {g}]
        /\ UNCHANGED <<clock, recorded, gifts, messages>>
    BY <1>1, <1>3 DEF Greet, New
  <2>2. work \in LifecycleRun /\ work.at = "next" /\ work.stage \in 1..3
    BY <1>2 DEF LifecycleRun
  <2>3. runner' = [runner EXCEPT ![r] = work]
    BY <1>2, <2>1 DEF LifecycleRun, LifecycleInv, LifecycleTyped
  <2>4. clock' \in 0..LastClock
    BY <2>1 DEF LifecycleInv, LifecycleTyped
  <2> HIDE DEF work
  <2> QED BY <2>1, <2>2, <2>3, <2>4, RunMoves
<1>4. CASE event \notin recorded
  <2> DEFINE work == [runner[r] EXCEPT !.at = "message", !.guest = g, !.guests = @ \ {g}]
  <2>1. /\ runner' = [runner EXCEPT ![r].at = "message", ![r].guest = g, ![r].guests = @ \ {g}]
        /\ recorded' = recorded \cup {event}
        /\ gifts' = IF Points(event) > 0 THEN [gifts EXCEPT ![event] = @ + 1] ELSE gifts
        /\ UNCHANGED <<clock, messages>>
    BY <1>1, <1>4 DEF Greet, New
  <2>2. /\ work \in LifecycleRun /\ work.at = "message" /\ work.guest = g
        /\ work.stage = runner[r].stage /\ work.today = runner[r].today
    BY <1>2 DEF LifecycleRun
  <2>3. runner' = [runner EXCEPT ![r] = work]
    BY <1>2, <2>1 DEF LifecycleRun, LifecycleInv, LifecycleTyped
  <2> HIDE DEF work
  <2>4. /\ runner' \in [Runners -> LifecycleRun] /\ runner'[r] = work
        /\ \A q \in Runners \ {r} : runner'[q] = runner[q]
    BY <2>2, <2>3 DEF LifecycleInv, LifecycleTyped
  <2>5. gifts[event] = 0 /\ messages[event] = 0
    BY <1>4 DEF LifecycleInv, LifecycleTyped, GreetedOnce
  <2>6. /\ gifts' \in [Happenings -> Nat]
        /\ gifts'[event] = IF Points(event) > 0 THEN 1 ELSE 0
        /\ \A e \in Happenings \ {event} : gifts'[e] = gifts[e]
    <3>1. CASE Points(event) > 0
      BY <2>1, <2>5, <3>1 DEF LifecycleInv, LifecycleTyped
    <3>2. CASE ~(Points(event) > 0)
      BY <2>1, <2>5, <3>2 DEF LifecycleInv, LifecycleTyped
    <3> QED BY <3>1, <3>2
  <2>7. LifecycleTyped'
    BY <2>1, <2>4, <2>6 DEF LifecycleInv, LifecycleTyped
  <2>8. GreetedOnce'
    <3>1. ASSUME NEW e \in Happenings
          PROVE  /\ gifts'[e] = IF e \in recorded' /\ Points(e) > 0 THEN 1 ELSE 0
                 /\ messages'[e] <= IF e \in recorded' THEN 1 ELSE 0
      <4>1. CASE e = event
        BY <2>1, <2>5, <2>6, <4>1
      <4>2. CASE e # event
        BY <2>1, <2>6, <4>2 DEF LifecycleInv, GreetedOnce
      <4> QED BY <4>1, <4>2
    <3>2. \A e \in Happenings : Points(e)' = Points(e)
      BY DEF Points
    <3> QED BY <3>1, <3>2 DEF GreetedOnce
  <2>9. Event(r, runner[r].guest)' = event
    BY <1>1, <2>2, <2>4 DEF Event
  <2>10. \A q \in Runners \ {r} : Event(q, runner[q].guest)' = Event(q, runner[q].guest)
    BY <2>4 DEF Event
  <2>11. RunsFit'
    <3>1. RunFits(r)'
      BY <1>2, <2>1, <2>2, <2>4, <2>5, <2>9 DEF RunFits
    <3>2. ASSUME NEW q \in Runners \ {r} PROVE RunFits(q)'
      BY <2>1, <2>4, <2>10 DEF LifecycleInv, RunsFit, RunFits
    <3> QED BY <3>1, <3>2 DEF RunsFit
  <2>12. EventsDiffer'
    <3>1. \A q \in Runners \ {r} :
            runner[q].at = "message" => Event(q, runner[q].guest) # event
      BY <1>4 DEF LifecycleInv, RunsFit, RunFits
    <3> QED BY <2>4, <2>9, <2>10, <3>1 DEF LifecycleInv, EventsDiffer
  <2> QED BY <2>7, <2>8, <2>11, <2>12 DEF LifecycleInv
<1> QED BY <1>3, <1>4

LEMMA MessageKeeps ==
  ASSUME LifecycleInv, NEW r \in Runners, Message(r)
  PROVE  LifecycleInv'
<1>1. PICK event : event = Event(r, runner[r].guest)
  OBVIOUS
<1>2. /\ runner[r] \in LifecycleRun /\ runner[r].at = "message" /\ runner[r].stage \in 1..3
      /\ event \in Happenings /\ event \in recorded /\ messages[event] = 0
  BY <1>1 DEF LifecycleInv, LifecycleTyped, RunsFit, RunFits, Message
<1> DEFINE work == [runner[r] EXCEPT !.at = "next", !.guest = Nobody]
<1>3. work \in LifecycleRun /\ work.at = "next" /\ work.stage \in 1..3
  BY <1>2 DEF LifecycleRun
<1>4. runner' = [runner EXCEPT ![r] = work] /\ UNCHANGED <<clock, recorded, gifts>>
  BY <1>2 DEF Message, LifecycleRun, LifecycleInv, LifecycleTyped
<1> HIDE DEF work
<1>5. CASE messages' = messages
  <2>1. clock' \in 0..LastClock
    BY <1>4 DEF LifecycleInv, LifecycleTyped
  <2> QED BY <1>3, <1>4, <1>5, <2>1, RunMoves
<1>6. CASE messages' = [messages EXCEPT ![event] = @ + 1]
  <2>1. /\ runner' \in [Runners -> LifecycleRun] /\ runner'[r] = work
        /\ \A q \in Runners \ {r} : runner'[q] = runner[q]
    BY <1>3, <1>4 DEF LifecycleInv, LifecycleTyped
  <2>2. /\ messages' \in [Happenings -> Nat] /\ messages'[event] = 1
        /\ \A e \in Happenings \ {event} : messages'[e] = messages[e]
    BY <1>2, <1>6 DEF LifecycleInv, LifecycleTyped
  <2>3. LifecycleTyped'
    BY <1>4, <2>1, <2>2 DEF LifecycleInv, LifecycleTyped
  <2>4. GreetedOnce'
    BY <1>2, <1>4, <2>2 DEF LifecycleInv, GreetedOnce, Points
  <2>5. \A q \in Runners \ {r} : Event(q, runner[q].guest)' = Event(q, runner[q].guest)
    BY <2>1 DEF Event
  <2>6. \A q \in Runners \ {r} :
          runner[q].at = "message" => Event(q, runner[q].guest) # event
    BY <1>1, <1>2 DEF LifecycleInv, EventsDiffer
  <2>7. RunsFit'
    <3>1. RunFits(r)'
      BY <1>3, <2>1 DEF RunFits
    <3>2. ASSUME NEW q \in Runners \ {r} PROVE RunFits(q)'
      <4>1. CASE runner[q].at = "message"
        <5>1. /\ Event(q, runner[q].guest) \in recorded /\ Event(q, runner[q].guest) # event
              /\ Event(q, runner[q].guest) \in Happenings
              /\ messages[Event(q, runner[q].guest)] = 0
          BY <2>6, <4>1 DEF LifecycleInv, LifecycleTyped, RunsFit, RunFits
        <5> QED BY <1>4, <2>1, <2>2, <2>5, <5>1 DEF LifecycleInv, RunsFit, RunFits
      <4>2. CASE runner[q].at # "message"
        BY <2>1, <4>2 DEF LifecycleInv, RunsFit, RunFits
      <4> QED BY <4>1, <4>2
    <3> QED BY <3>1, <3>2 DEF RunsFit
  <2>8. EventsDiffer'
    BY <1>3, <2>1, <2>5 DEF LifecycleInv, EventsDiffer
  <2> QED BY <2>3, <2>4, <2>7, <2>8 DEF LifecycleInv
<1> QED BY <1>1, <1>5, <1>6 DEF Message

LEMMA LifecycleStepsKeep ==
  ASSUME LifecycleInv, [LifecycleNext]_lifecycleVars
  PROVE  LifecycleInv'
<1>1. ASSUME UNCHANGED <<recorded, gifts, messages, runner>>, clock' \in 0..LastClock
      PROVE  LifecycleInv'
  BY <1>1 DEF LifecycleInv, LifecycleTyped, RunsFit, RunFits, EventsDiffer, Event,
              GreetedOnce, Points
<1>2. CASE NextDay
  <2>1. clock' \in 0..LastClock
    BY <1>2, ClockAssumption DEF NextDay, LifecycleInv, LifecycleTyped
  <2> QED BY <1>1, <1>2, <2>1 DEF NextDay
<1>3. CASE UNCHANGED lifecycleVars
  BY <1>1, <1>3 DEF lifecycleVars, LifecycleInv, LifecycleTyped
<1> QED BY <1>2, <1>3, ReadTodayKeeps, SelectKeeps, MessageKeeps, StopRunKeeps, GreetKeeps
        DEF LifecycleNext

-----------------------------------------------------------------------------
(* The theorems.                                                           *)

\* The inductive invariant holds in every reachable state.
THEOREM LifecycleInvAlways == LifecycleSpec => []LifecycleInv
<1> QED BY LifecycleAtFirst, LifecycleStepsKeep, PTL DEF LifecycleSpec

\* However many runs of the automation overlap, whenever they stop, start
\* again or cross midnight: an event brings its bonus exactly once, and at most
\* one message, never before it is recorded.  The insertion that does nothing
\* on a conflict gives every event one owner, who alone may send.
THEOREM GreetedOnceCorrect == LifecycleSpec => []GreetedOnce
<1>1. LifecycleInv => GreetedOnce
  BY DEF LifecycleInv
<1> QED BY <1>1, LifecycleInvAlways, PTL

-----------------------------------------------------------------------------
(***************************************************************************)
(* Proofs about the tier of a customer: it is in the history, and where    *)
(* tiers are kept for life it is never below what was reached.             *)
(***************************************************************************)

(* The inductive invariant.                                                *)

TiersTyped ==
  /\ existing \subseteq Levels
  /\ DOMAIN job = Workers
  /\ \A w \in Workers : Doing(w, "delete") => job[w].to \in Levels

\* Tiers are kept for life, and none has been deleted.
Lifelong == ~situation.rolling /\ situation.tiered /\ existing = Levels

\* The levels that p points reach, if all exist.
LevelsFor(p) == {t \in Levels : TierMin[t] <= p}

\* The award has found the tier that its points need.
AwardFits(w) ==
  /\ job[w].to = NoTier => \A t \in LevelsFor(job[w].points) : t <= held
  /\ job[w].to # NoTier =>
       job[w].to \in Levels /\ \A t \in LevelsFor(job[w].points) : t <= job[w].to

\* Then the customer has the highest tier reached, so that nobody has anything
\* to do about it, except the one award that holds the balance.
Settled ==
  /\ held \in Levels
  /\ \A t \in LevelsFor(balance) : t <= held
  /\ \A w \in Workers : job[w].op \in {"none", "award", "delete"}
  /\ \A w \in Workers : Doing(w, "award") => AwardFits(w)
  /\ \A w, v \in Workers : Doing(w, "award") /\ Doing(v, "award") => w = v

TiersInv == TiersTyped /\ HistoryCovers /\ (Lifelong => Settled)

-----------------------------------------------------------------------------
(* The highest of some levels.                                             *)

LEMMA LevelsAre ==
  /\ Levels = 1..Len(TierMin) /\ Len(TierMin) \in Nat /\ 1 \in Levels
  /\ Levels \subseteq Nat /\ 0 \notin Levels /\ NoTier \notin Levels
BY TierAssumption DEF Levels

LEMMA HighestExists ==
  ASSUME NEW S \in SUBSET Levels, S # {}
  PROVE  Highest(S) \in S /\ \A t \in S : t <= Highest(S)
<1> DEFINE Bounded == {n \in Nat : \A T \in SUBSET (1..n) :
                         T # {} => \E t \in T : \A u \in T : u <= t}
<1>1. 0 \in Bounded
  BY 1..0 = {}
<1>2. ASSUME NEW n \in Nat, n \in Bounded PROVE n + 1 \in Bounded
  <2>1. ASSUME NEW T \in SUBSET (1..(n + 1)), T # {} PROVE \E t \in T : \A u \in T : u <= t
    <3>1. CASE n + 1 \in T
      BY <3>1
    <3>2. CASE n + 1 \notin T
      <4>1. T \in SUBSET (1..n)
        BY <3>2
      <4> QED BY <1>2, <2>1, <4>1
    <3> QED BY <3>1, <3>2
  <2> QED BY <2>1
<1> HIDE DEF Bounded
<1>3. Len(TierMin) \in Bounded
  BY <1>1, <1>2, SetInduction, LevelsAre
<1>4. \E t \in S : \A u \in S : u <= t
  BY <1>3, LevelsAre DEF Bounded
<1> QED BY <1>4 DEF Highest

\* What a promotion leaves behind.
LEMMA PromotionHighest ==
  ASSUME existing = Levels, held \in Levels, NEW p
  PROVE  /\ Promotion(p) = NoTier => \A t \in LevelsFor(p) : t <= held
         /\ Promotion(p) # NoTier =>
              Promotion(p) \in Levels /\ \A t \in LevelsFor(p) : t <= Promotion(p)
<1> DEFINE above == {t \in Reached(p) : t > LevelOf(held)}
<1>1. LevelOf(held) = held /\ held \in Nat /\ Reached(p) = LevelsFor(p)
  BY LevelsAre DEF LevelOf, Reached, LevelsFor
<1>2. CASE above = {}
  <2>1. Promotion(p) = NoTier
    BY <1>2 DEF Promotion
  <2>2. \A t \in LevelsFor(p) : t <= held
    BY <1>1, <1>2, LevelsAre DEF LevelsFor
  <2> QED BY <2>1, <2>2
<1>3. CASE above # {}
  <2>1. Promotion(p) = Highest(above)
    BY <1>3 DEF Promotion
  <2>2. above \in SUBSET Levels
    BY <1>1 DEF LevelsFor
  <2>3. Highest(above) \in above /\ \A t \in above : t <= Highest(above)
    BY <1>3, <2>2, HighestExists
  <2>4. Highest(above) \in Levels /\ Highest(above) > held /\ Highest(above) \in Nat
    BY <1>1, <2>3, LevelsAre DEF LevelsFor
  <2>5. \A t \in LevelsFor(p) : t <= Highest(above)
    BY <1>1, <2>3, <2>4, LevelsAre DEF LevelsFor
  <2> QED BY <2>1, <2>4, <2>5, LevelsAre DEF LevelsFor
<1> QED BY <1>2, <1>3

-----------------------------------------------------------------------------
(* The steps.                                                              *)

LEMMA TiersAtFirst ==
  ASSUME TiersInit
  PROVE  TiersInv
<1>1. TiersTyped
  BY DEF TiersInit, TiersTyped, Doing, NoJob
<1>2. HistoryCovers
  BY LevelsAre DEF TiersInit, HistoryCovers
<1>3. ASSUME Lifelong PROVE Settled
  <2>1. held = 1 /\ balance = 0
    BY <1>3 DEF Lifelong, TiersInit
  <2>2. \A t \in LevelsFor(balance) : t <= held
    BY <2>1, TierAssumption, LevelsAre DEF LevelsFor, Levels
  <2>3. \A w \in Workers : job[w].op = "none" /\ ~Doing(w, "award")
    BY DEF TiersInit, NoJob, Doing
  <2> QED BY <2>1, <2>2, <2>3, LevelsAre DEF Settled
<1> QED BY <1>1, <1>2, <1>3 DEF TiersInv

\* A worker takes up something; the tables stay.
LEMMA TakesUp ==
  ASSUME TiersInv, NEW w \in Workers, NEW op, NEW to, NEW p, Reads(w, op, to, p),
         op = "delete" => to \in Levels,
         Lifelong => op \in {"award", "delete"},
         op = "award" => to = Promotion(p) /\ \A v \in Workers : ~Doing(v, "award")
  PROVE  TiersInv'
<1>1. /\ DOMAIN job' = Workers /\ job'[w].op = op /\ job'[w].to = to /\ job'[w].points = p
      /\ \A v \in Workers \ {w} : job'[v] = job[v]
      /\ UNCHANGED <<balance, held, logged, existing, situation>>
  BY DEF Reads, TiersInv, TiersTyped
<1>2. TiersTyped' /\ HistoryCovers'
  BY <1>1 DEF TiersInv, TiersTyped, HistoryCovers, Doing
<1>3. ASSUME Lifelong' PROVE Settled'
  <2>1. Lifelong /\ Settled /\ op \in {"award", "delete"}
    BY <1>1, <1>3 DEF Lifelong, TiersInv
  <2>2. \A v \in Workers \ {w} : (Doing(v, "award")' <=> Doing(v, "award"))
                              /\ (AwardFits(v)' <=> AwardFits(v))
    BY <1>1 DEF Doing, AwardFits
  <2>3. Doing(w, "award")' <=> op = "award"
    BY <1>1 DEF Doing
  <2>4. ASSUME op = "award" PROVE AwardFits(w)'
    <3>1. existing = Levels /\ held \in Levels /\ to = Promotion(p)
      BY <2>1, <2>4 DEF Lifelong, Settled
    <3> QED BY <1>1, <3>1, PromotionHighest DEF AwardFits
  <2> QED BY <1>1, <2>1, <2>2, <2>3, <2>4 DEF Settled
<1> QED BY <1>2, <1>3 DEF TiersInv

LEMMA BeginsKeeps ==
  ASSUME TiersInv, NEW w \in Workers, Begins(w)
  PROVE  TiersInv'
<1>1. CASE StartAward(w)
  <2>1. PICK gain \in Gains : Reads(w, "award", Promotion(balance + gain), balance + gain)
    BY <1>1 DEF StartAward
  <2> QED BY <1>1, <2>1, TakesUp DEF StartAward
<1>2. CASE StartCheck(w)
  <2>1. ASSUME Lifelong PROVE FALSE
    <3>1. \A t \in LevelsFor(balance) : t <= held /\ t \in Nat
      BY <2>1, LevelsAre DEF TiersInv, Settled, LevelsFor
    <3>2. LevelOf(held) = held /\ held \in Nat
      BY <2>1, LevelsAre DEF TiersInv, Settled, LevelOf
    <3>3. Reached(balance) = LevelsFor(balance)
      BY <2>1 DEF Lifelong, Reached, LevelsFor
    <3>4. {t \in Reached(balance) : t > LevelOf(held)} = {}
      BY <3>1, <3>2, <3>3
    <3> QED BY <1>2, <3>4 DEF StartCheck, Promotion
  <2> QED BY <1>2, <2>1, TakesUp DEF StartCheck
<1>3. CASE StartSweep(w)
  <2>1. PICK rolling : Reads(w, "sweep", RetentionTier(rolling), 0)
    BY <1>3 DEF StartSweep
  <2>2. ~Lifelong
    BY <1>3 DEF StartSweep, Lifelong
  <2> QED BY <2>1, <2>2, TakesUp
<1>4. CASE StartLook(w)
  <2>1. ~Lifelong
    BY <1>4, LevelsAre DEF StartLook, TiersInv, Settled
  <2> QED BY <1>4, <2>1, TakesUp DEF StartLook
<1>5. CASE StartDelete(w)
  <2>1. PICK t \in existing : Reads(w, "delete", t, 0)
    BY <1>5 DEF StartDelete
  <2>2. t \in Levels
    BY DEF TiersInv, TiersTyped
  <2> QED BY <2>1, <2>2, TakesUp
<1> QED BY <1>1, <1>2, <1>3, <1>4, <1>5 DEF Begins

\* What the end of a job leaves of the others.
LEMMA JobEnds ==
  ASSUME TiersInv, NEW w \in Workers, JobDone(w)
  PROVE  /\ DOMAIN job' = Workers /\ job'[w].op = "none" /\ situation' = situation
         /\ \A v \in Workers \ {w} : job'[v] = job[v]
BY DEF TiersInv, TiersTyped, JobDone, NoJob

\* A job ends without a change of what tiers there are; it is not the award's,
\* or the award's after which the customer has what was found.
LEMMA JobWrites ==
  ASSUME TiersInv, NEW w \in Workers, JobDone(w), existing' = existing, HistoryCovers',
         Lifelong => /\ held' \in Levels
                     /\ \A t \in LevelsFor(balance') : t <= held'
                     /\ \A v \in Workers \ {w} : ~Doing(v, "award") \/ held' = held
  PROVE  TiersInv'
<1>1. /\ DOMAIN job' = Workers /\ job'[w].op = "none" /\ situation' = situation
      /\ \A v \in Workers \ {w} : job'[v] = job[v]
  BY JobEnds
<1>2. TiersTyped'
  BY <1>1 DEF TiersInv, TiersTyped, Doing
<1>3. ASSUME Lifelong' PROVE Settled'
  <2>1. Lifelong /\ Settled
    BY <1>1, <1>3 DEF Lifelong, TiersInv
  <2>2. \A v \in Workers \ {w} : Doing(v, "award")' <=> Doing(v, "award")
    BY <1>1 DEF Doing
  <2>3. ~Doing(w, "award")'
    BY <1>1 DEF Doing
  <2>4. ASSUME NEW v \in Workers \ {w}, Doing(v, "award") PROVE AwardFits(v)'
    <3>1. AwardFits(v) /\ held' = held
      BY <2>1, <2>4 DEF Settled
    <3> QED BY <1>1, <3>1 DEF AwardFits
  <2> QED BY <1>1, <2>1, <2>2, <2>3, <2>4 DEF Settled
<1> QED BY <1>2, <1>3 DEF TiersInv

LEMMA CommitAwardKeeps ==
  ASSUME TiersInv, NEW w \in Workers, CommitAward(w)
  PROVE  TiersInv'
<1>1. Doing(w, "award") /\ balance' = job[w].points /\ JobDone(w) /\ existing' = existing
  BY DEF CommitAward
<1>2. CASE job[w].to = NoTier
  <2>1. held' = held /\ logged' = logged
    BY <1>2 DEF CommitAward
  <2>2. HistoryCovers'
    BY <2>1 DEF TiersInv, HistoryCovers
  <2>3. ASSUME Lifelong PROVE held' \in Levels /\ \A t \in LevelsFor(balance') : t <= held'
    <3>1. held \in Levels /\ AwardFits(w)
      BY <1>1, <2>3 DEF TiersInv, Settled
    <3> QED BY <1>1, <1>2, <2>1, <3>1 DEF AwardFits
  <2> QED BY <1>1, <2>1, <2>2, <2>3, JobWrites
<1>3. CASE job[w].to # NoTier
  <2>1. held' = job[w].to /\ logged' = logged \cup {job[w].to}
    BY <1>3 DEF CommitAward, Logs
  <2>2. HistoryCovers'
    BY <2>1 DEF HistoryCovers
  <2>3. ASSUME Lifelong
        PROVE  /\ held' \in Levels
               /\ \A t \in LevelsFor(balance') : t <= held'
               /\ \A v \in Workers \ {w} : ~Doing(v, "award")
    <3>1. AwardFits(w) /\ \A v \in Workers \ {w} : ~Doing(v, "award")
      BY <1>1, <2>3 DEF TiersInv, Settled
    <3> QED BY <1>1, <1>3, <2>1, <3>1 DEF AwardFits
  <2> QED BY <1>1, <2>2, <2>3, JobWrites
<1> QED BY <1>2, <1>3

\* The check, the sweep and the look write a tier; for life nobody does.
LEMMA OthersWrite ==
  ASSUME TiersInv, NEW w \in Workers,
         CommitCheck(w) \/ Bootstrap(w) \/ Move(w) \/ Assign(w)
  PROVE  TiersInv'
<1>1. JobDone(w) /\ existing' = existing /\ job[w].op \in {"check", "sweep", "look"}
  BY DEF CommitCheck, Bootstrap, Move, Assign, Doing
<1>2. ~Lifelong
  BY <1>1 DEF TiersInv, Settled
<1>3. HistoryCovers'
  <2>1. CASE CommitCheck(w) \/ Move(w)
    BY <2>1 DEF CommitCheck, Move, Logs, HistoryCovers
  <2>2. CASE Bootstrap(w)
    BY <2>2 DEF Bootstrap, Logs, HistoryCovers, TiersInv
  <2>3. CASE Assign(w)
    BY <2>3 DEF Assign, HistoryCovers
  <2> QED BY <2>1, <2>2, <2>3
<1> QED BY <1>1, <1>2, <1>3, JobWrites

\* A job ends and has changed nothing.
LEMMA KeepTierKeeps ==
  ASSUME TiersInv, NEW w \in Workers, KeepTier(w)
  PROVE  TiersInv'
<1>1. JobDone(w) /\ UNCHANGED <<balance, held, logged, existing>>
  BY DEF KeepTier
<1>2. HistoryCovers'
  BY <1>1 DEF TiersInv, HistoryCovers
<1>3. Lifelong => held' \in Levels /\ \A t \in LevelsFor(balance') : t <= held'
  BY <1>1 DEF TiersInv, Settled
<1> QED BY <1>1, <1>2, <1>3, JobWrites

LEMMA DeleteKeeps ==
  ASSUME TiersInv, NEW w \in Workers, Delete(w)
  PROVE  TiersInv'
<1>1. /\ DOMAIN job' = Workers /\ job'[w].op = "none"
      /\ \A v \in Workers \ {w} : job'[v] = job[v]
  BY JobEnds DEF Delete
<1>2. job[w].to \in Levels /\ existing' = existing \ {job[w].to}
  BY DEF Delete, TiersInv, TiersTyped
<1>3. TiersTyped'
  BY <1>1, <1>2 DEF TiersInv, TiersTyped, Doing
<1>4. HistoryCovers'
  BY LevelsAre DEF TiersInv, HistoryCovers, Delete
<1>5. ~Lifelong'
  BY <1>2 DEF Lifelong
<1> QED BY <1>3, <1>4, <1>5 DEF TiersInv

LEMMA TiersStepsKeep ==
  ASSUME TiersInv, [TiersNext]_tierVars
  PROVE  TiersInv'
<1>1. CASE UNCHANGED tierVars
  BY <1>1 DEF tierVars, TiersInv, TiersTyped, HistoryCovers, Lifelong, Settled, AwardFits, Doing
<1>2. ASSUME NEW w \in Workers, Spare(w) \/ FailJob(w) PROVE TiersInv'
  BY <1>2, KeepTierKeeps DEF Spare, FailJob
<1> QED BY <1>1, <1>2, BeginsKeeps, CommitAwardKeeps, OthersWrite, DeleteKeeps DEF TiersNext

-----------------------------------------------------------------------------
(* The theorems.                                                           *)

\* The inductive invariant holds in every reachable state.
THEOREM TiersInvAlways == TiersSpec => []TiersInv
<1> QED BY TiersAtFirst, TiersStepsKeep, PTL DEF TiersSpec

\* Whatever overtakes what: a tier above the lowest is in the history, and
\* where tiers are kept for life the customer has every tier that was reached.
\* The second holds because the award writes the tier with the balance, which
\* leaves the hook, the sweep and the look of others nothing to write.
THEOREM TiersCorrect == TiersSpec => []TiersSound
<1>1. TiersInv => TiersSound
  <2>1. SUFFICES ASSUME TiersInv PROVE TiersSound
    OBVIOUS
  <2>2. ASSUME Lifelong PROVE \A t \in Reached(balance) : t <= held
    BY <2>1, <2>2 DEF TiersInv, Settled, Lifelong, Reached, LevelsFor
  <2> QED BY <2>1, <2>2 DEF TiersInv, TiersSound, KeptForLife, Lifelong
<1> QED BY <1>1, TiersInvAlways, PTL

-----------------------------------------------------------------------------
(***************************************************************************)
(* Proof that awards of the staff and refunds leave totals and a streak    *)
(* that are those of the rows.                                             *)
(***************************************************************************)

(* The inductive invariant.                                                *)

\* What transactions are for.
Purposes == Kinds \cup {"refund"}

HistoryRow == [kind : Purposes, date : Nat, visits : {0, 1}, reversed : BOOLEAN]

SessionTyped(x) ==
  /\ DOMAIN x = {"kind", "step", "date", "visits", "of", "row", "held", "totals", "streak"}
  /\ x.kind \in Purposes \cup {NoRow}
  /\ x.step \in Nat /\ x.date \in Nat /\ x.visits \in {0, 1} /\ x.row \in BOOLEAN

StateTyped ==
  /\ history \in Seq(HistoryRow)
  /\ date \in Nat
  /\ DOMAIN session = Sessions
  /\ \A s \in Sessions : SessionTyped(session[s])

\* customer_ltv is locked by every derivation, and stays so.
LocksWhatItDerives(s) ==
  \A i \in 1..5 :
    /\ i < session[s].step /\ i \in DOMAIN Script(session[s].kind)
    /\ Script(session[s].kind)[i] = "derive"
    => "ltv" \in session[s].held

\* What was refreshed is what the rows say, with those the transaction wrote.
IsRefreshed(s) ==
  session[s].kind \in {"award", "refund"} /\ session[s].step > 4 =>
    /\ session[s].totals = TotalsOf(Written(s))
    /\ session[s].streak = StreakOf(VisitDates(Written(s)))

SessionFits(s) == session[s].kind # NoRow => LocksWhatItDerives(s) /\ IsRefreshed(s)

OneDerives ==
  \A s, o \in Sessions : "ltv" \in session[s].held /\ "ltv" \in session[o].held => s = o

StateInv == StateTyped /\ (\A s \in Sessions : SessionFits(s)) /\ OneDerives

-----------------------------------------------------------------------------
(* Scripts and sessions.                                                   *)

LEMMA Scripts ==
  ASSUME NEW kind \in Purposes
  PROVE  /\ Len(Script(kind)) \in 3..5 /\ DOMAIN Script(kind) = 1..Len(Script(kind))
         /\ \E i \in 1..5 : i \in DOMAIN Script(kind) /\ Script(kind)[i] = "derive"
         /\ kind \in {"award", "refund"} => Len(Script(kind)) = 4 /\ Script(kind)[4] = "refresh"
<1>1. kind \in {"award", "external", "redeem", "refund", "settle", "expire"}
  BY KindsAssumption DEF Purposes
<1>2. CASE kind = "award"
  <2>1. Script(kind) = <<"post", "derive", "balance", "refresh">>
    BY <1>2 DEF Script
  <2> QED BY <1>2, <2>1
<1>3. CASE kind = "external"
  <2>1. Script(kind) = <<"post", "derive", "balance">>
    BY <1>3 DEF Script
  <2> QED BY <1>3, <2>1
<1>4. CASE kind = "redeem"
  <2>1. Script(kind) = <<"balance", "post", "derive">>
    BY <1>4 DEF Script
  <2> QED BY <1>4, <2>1
<1>5. CASE kind = "refund"
  <2>1. Script(kind) = <<"balance", "post", "derive", "refresh">>
    BY <1>5 DEF Script
  <2> QED BY <1>5, <2>1
<1>6. CASE kind = "settle"
  <2>1. Script(kind) = <<"touch", "derive", "balance">>
    BY <1>6 DEF Script
  <2> QED BY <1>6, <2>1
<1>7. CASE kind = "expire"
  <2>1. Script(kind) = <<"touch", "derive", "balance", "post", "derive">>
    BY <1>7 DEF Script
  <2> QED BY <1>7, <2>1
<1> QED BY <1>1, <1>2, <1>3, <1>4, <1>5, <1>6, <1>7

LEMMA FreeType == SessionTyped(Free) /\ Free.kind = NoRow /\ "ltv" \notin Free.held
BY DEF SessionTyped, Free

\* Fields of a session are written one after the other.
LEMMA TotalsWritten ==
  ASSUME NEW x, SessionTyped(x), NEW totals
  PROVE  SessionTyped([x EXCEPT !.totals = totals])
BY DEF SessionTyped

LEMMA StreakWritten ==
  ASSUME NEW x, SessionTyped(x), NEW new
  PROVE  SessionTyped([x EXCEPT !.streak = new])
BY DEF SessionTyped

LEMMA DerivedSession ==
  ASSUME NEW x, SessionTyped(x), NEW locks, NEW new
  PROVE  SessionTyped([x EXCEPT !.held = locks, !.streak = new])
<1> DEFINE y == [x EXCEPT !.held = locks]
<1>1. SessionTyped(y)
  BY DEF SessionTyped
<1>2. [x EXCEPT !.held = locks, !.streak = new] = [y EXCEPT !.streak = new]
  OBVIOUS
<1> HIDE DEF y
<1> QED BY <1>1, <1>2, StreakWritten

LEMMA PostedSession ==
  ASSUME NEW x, SessionTyped(x), NEW totals
  PROVE  SessionTyped([[x EXCEPT !.row = TRUE] EXCEPT !.totals = totals])
<1> DEFINE y == [x EXCEPT !.row = TRUE]
<1>1. SessionTyped(y)
  BY DEF SessionTyped
<1> HIDE DEF y
<1>2. SessionTyped([y EXCEPT !.totals = totals])
  BY <1>1, TotalsWritten
<1> QED BY <1>2 DEF y

LEMMA RefreshedSession ==
  ASSUME NEW x, SessionTyped(x), NEW totals, NEW new
  PROVE  SessionTyped([x EXCEPT !.totals = totals, !.streak = new])
<1> DEFINE y == [x EXCEPT !.totals = totals]
<1>1. SessionTyped(y)
  BY TotalsWritten
<1>2. [x EXCEPT !.totals = totals, !.streak = new] = [y EXCEPT !.streak = new]
  OBVIOUS
<1> HIDE DEF y
<1> QED BY <1>1, <1>2, StreakWritten

\* A transaction that is through with its script holds customer_ltv.
LEMMA FinishedHolds ==
  ASSUME StateInv, NEW s \in Sessions, session[s].kind # NoRow,
         session[s].step > Len(Script(session[s].kind))
  PROVE  "ltv" \in session[s].held
<1>1. session[s].kind \in Purposes /\ session[s].step \in Nat /\ LocksWhatItDerives(s)
  BY DEF StateInv, StateTyped, SessionTyped, SessionFits
<1>2. PICK kind \in Purposes : kind = session[s].kind
  BY <1>1
<1>3. PICK i \in 1..5 : i \in DOMAIN Script(kind) /\ Script(kind)[i] = "derive"
  BY Scripts
<1>4. i < session[s].step
  BY <1>1, <1>2, <1>3, Scripts
<1> QED BY <1>1, <1>2, <1>3, <1>4 DEF LocksWhatItDerives

LEMMA MarkedType ==
  ASSUME StateInv, NEW s \in Sessions
  PROVE  Marked(s) \in Seq(HistoryRow)
<1>1. history \in Seq(HistoryRow)
  BY DEF StateInv, StateTyped
<1> DEFINE i == session[s].of
           marked == [history EXCEPT ![i].reversed = TRUE]
<1>2. CASE i \in DOMAIN history
  <2> DEFINE row == [history[i] EXCEPT !.reversed = TRUE]
  <2>1. history[i] \in HistoryRow
    BY <1>1, <1>2
  <2>2. row \in HistoryRow
    BY <2>1 DEF HistoryRow
  <2>3. marked = [history EXCEPT ![i] = row]
    BY <1>2
  <2> HIDE DEF row
  <2>4. [history EXCEPT ![i] = row] \in Seq(HistoryRow)
    BY <1>1, <1>2, <2>2
  <2> QED BY <1>1, <2>3, <2>4 DEF Marked
<1>3. CASE i \notin DOMAIN history
  <2>1. marked = history
    BY <1>1, <1>3
  <2> QED BY <1>1, <2>1 DEF Marked
<1> QED BY <1>2, <1>3

\* What a commit puts in the place of the rows.
LEMMA WrittenType ==
  ASSUME StateInv, NEW s \in Sessions, session[s].kind # NoRow
  PROVE  /\ Written(s) \in Seq(HistoryRow)
         /\ ~session[s].row => Written(s) = history
         /\ session[s].row => Written(s)[Len(Written(s))].kind = session[s].kind
<1> DEFINE row == [kind |-> session[s].kind, date |-> session[s].date,
                   visits |-> session[s].visits, reversed |-> FALSE]
<1>1. row \in HistoryRow /\ row.kind = session[s].kind /\ session[s].row \in BOOLEAN
  BY DEF StateInv, StateTyped, SessionTyped, HistoryRow
<1>2. Written(s) = IF ~session[s].row THEN history ELSE Append(Marked(s), row)
  BY DEF Written
<1>3. Marked(s) \in Seq(HistoryRow) /\ history \in Seq(HistoryRow)
  BY MarkedType DEF StateInv, StateTyped
<1> HIDE DEF row
<1>4. Append(Marked(s), row) \in Seq(HistoryRow)
  BY <1>1, <1>3
<1>5. Append(Marked(s), row)[Len(Append(Marked(s), row))] = row
  BY <1>1, <1>3
<1> QED BY <1>1, <1>2, <1>3, <1>4, <1>5

-----------------------------------------------------------------------------
(* The steps.                                                              *)

LEMMA StateAtFirst ==
  ASSUME StateInit
  PROVE  StateInv
<1>1. StateTyped
  BY FreeType, EmptySeq DEF StateInit, StateTyped
<1>2. \A s \in Sessions : session[s] = Free
  BY DEF StateInit
<1> QED BY <1>1, <1>2, FreeType DEF StateInv, SessionFits, OneDerives

\* A session becomes x; the tables stay.
LEMMA SessionMoves ==
  ASSUME StateInv, NEW s \in Sessions, NEW x, SessionTyped(x),
         session' = [session EXCEPT ![s] = x], UNCHANGED <<history, date>>, SessionFits(s)',
         "ltv" \in x.held => \A o \in Sessions \ {s} : "ltv" \notin session[o].held
  PROVE  StateInv'
<1>1. /\ DOMAIN session' = Sessions /\ session'[s] = x
      /\ \A o \in Sessions \ {s} : session'[o] = session[o]
  BY DEF StateInv, StateTyped
<1>2. StateTyped'
  BY <1>1 DEF StateInv, StateTyped
<1>3. ASSUME NEW o \in Sessions \ {s} PROVE SessionFits(o)'
  <2>1. SessionFits(o) /\ session'[o] = session[o] /\ history' = history
    BY <1>1 DEF StateInv
  <2> QED BY <2>1 DEF SessionFits, LocksWhatItDerives, IsRefreshed, Written, Marked
<1>4. OneDerives'
  BY <1>1 DEF StateInv, OneDerives
<1> QED BY <1>2, <1>3, <1>4 DEF StateInv

LEMMA BeginKeeps ==
  ASSUME StateInv, NEW s \in Sessions, NEW kind \in Purposes, NEW visits \in {0, 1}, NEW of,
         Begin(s, kind, visits, of)
  PROVE  StateInv'
<1> DEFINE x == [Free EXCEPT !.kind = kind, !.step = 1, !.date = date, !.visits = visits, !.of = of]
<1>1. session' = [session EXCEPT ![s] = x] /\ UNCHANGED <<history, date>>
  BY DEF Begin
<1>2. SessionTyped(x) /\ x.step = 1 /\ "ltv" \notin x.held
  <2>1. date \in Nat
    BY DEF StateInv, StateTyped
  <2> QED BY <2>1 DEF Free, SessionTyped
<1> HIDE DEF x
<1>3. session'[s] = x
  BY <1>1 DEF StateInv, StateTyped
<1>4. SessionFits(s)'
  BY <1>2, <1>3 DEF SessionFits, LocksWhatItDerives, IsRefreshed
<1> QED BY <1>1, <1>2, <1>4, SessionMoves

LEMMA AbortKeeps ==
  ASSUME StateInv, NEW s \in Sessions, Abort(s)
  PROVE  StateInv'
<1>1. session' = [session EXCEPT ![s] = Free] /\ UNCHANGED <<history, date>>
  BY DEF Abort
<1>2. session'[s] = Free
  BY <1>1 DEF StateInv, StateTyped
<1>3. SessionFits(s)'
  BY <1>2, FreeType DEF SessionFits
<1> QED BY <1>1, <1>3, FreeType, SessionMoves

\* The next statement of a script has run and left the session as work.
LEMMA StatementKeeps ==
  ASSUME StateInv, NEW s \in Sessions, NEW name, AtStep(s, name), NEW work,
         Advances(s, work), SessionTyped(work),
         work.kind = session[s].kind, work.step = session[s].step,
         session[s].held \subseteq work.held,
         name = "derive" => "ltv" \in work.held,
         "ltv" \in work.held =>
           "ltv" \in session[s].held \/ \A o \in Sessions \ {s} : "ltv" \notin session[o].held,
         name = "refresh" =>
           /\ work.row = session[s].row /\ work.date = session[s].date
           /\ work.visits = session[s].visits /\ work.of = session[s].of
           /\ work.totals = TotalsOf(Written(s))
           /\ work.streak = StreakOf(VisitDates(Written(s)))
  PROVE  StateInv'
<1> DEFINE x == [work EXCEPT !.step = @ + 1]
<1>1. session' = [session EXCEPT ![s] = x] /\ UNCHANGED <<history, date>>
  BY DEF Advances
<1>2. /\ SessionTyped(x) /\ x.kind = session[s].kind /\ x.step = session[s].step + 1
      /\ x.held = work.held /\ x.row = work.row /\ x.date = work.date
      /\ x.visits = work.visits /\ x.of = work.of
      /\ x.totals = work.totals /\ x.streak = work.streak
  BY DEF SessionTyped
<1> HIDE DEF x
<1>3. session'[s] = x
  BY <1>1 DEF StateInv, StateTyped
<1>4. PICK kind \in Purposes : kind = session[s].kind
  BY DEF AtStep, StateInv, StateTyped, SessionTyped
<1>5. PICK step \in Nat : step = session[s].step
  BY DEF StateInv, StateTyped, SessionTyped
<1>6. SessionFits(s) /\ step <= Len(Script(kind)) /\ Script(kind)[step] = name
  BY <1>4, <1>5 DEF AtStep, StateInv
<1>7. LocksWhatItDerives(s)'
  <2>1. ASSUME NEW i \in 1..5, i < step + 1, i \in DOMAIN Script(kind),
               Script(kind)[i] = "derive"
        PROVE  "ltv" \in x.held
    <3>1. CASE i < step
      BY <1>2, <1>4, <1>5, <1>6, <2>1, <3>1, KindsAssumption
         DEF SessionFits, LocksWhatItDerives, Purposes
    <3>2. CASE i = step
      BY <1>2, <1>6, <2>1, <3>2
    <3> QED BY <2>1, <3>1, <3>2
  <2> QED BY <1>2, <1>3, <1>4, <1>5, <2>1 DEF LocksWhatItDerives
<1>8. IsRefreshed(s)'
  <2>1. SUFFICES ASSUME kind \in {"award", "refund"}, step + 1 > 4
                 PROVE  /\ x.totals = TotalsOf(Written(s))'
                        /\ x.streak = StreakOf(VisitDates(Written(s)))'
    BY <1>2, <1>3, <1>4, <1>5 DEF IsRefreshed
  <2>2. name = "refresh"
    <3>1. Len(Script(kind)) = 4 /\ Script(kind)[4] = "refresh"
      BY <2>1, Scripts
    <3> QED BY <1>6, <2>1, <3>1
  <2>3. /\ history' = history /\ session'[s].kind = session[s].kind
        /\ session'[s].row = session[s].row /\ session'[s].date = session[s].date
        /\ session'[s].visits = session[s].visits /\ session'[s].of = session[s].of
    BY <1>1, <1>2, <1>3, <2>2
  <2>4. Written(s)' = Written(s)
    BY <2>3 DEF Written, Marked
  <2> QED BY <1>2, <2>2, <2>4
<1>9. "ltv" \in x.held => \A o \in Sessions \ {s} : "ltv" \notin session[o].held
  BY <1>2 DEF StateInv, OneDerives
<1>10. SessionFits(s)'
  BY <1>7, <1>8 DEF SessionFits
<1> QED BY <1>1, <1>2, <1>9, <1>10, SessionMoves

LEMMA StatementsKeep ==
  ASSUME StateInv, NEW s \in Sessions,
         TouchRow(s) \/ Post(s) \/ Derive(s) \/ TakeBalance(s) \/ Refresh(s)
  PROVE  StateInv'
<1>1. SessionTyped(session[s])
  BY DEF StateInv, StateTyped
<1>2. CASE TouchRow(s)
  <2> DEFINE work == [session[s] EXCEPT !.totals = TotalsOf(history)]
  <2>1. AtStep(s, "touch") /\ Advances(s, work)
    BY <1>2 DEF TouchRow
  <2>2. /\ SessionTyped(work) /\ work.kind = session[s].kind /\ work.step = session[s].step
        /\ work.held = session[s].held
    BY <1>1 DEF SessionTyped
  <2> HIDE DEF work
  <2> QED BY <2>1, <2>2, StatementKeeps
<1>3. CASE Post(s)
  <2>1. PICK totals : Advances(s, [[session[s] EXCEPT !.row = TRUE] EXCEPT !.totals = totals])
    BY <1>3 DEF Post
  <2> DEFINE work == [[session[s] EXCEPT !.row = TRUE] EXCEPT !.totals = totals]
  <2>2. AtStep(s, "post") /\ Advances(s, work)
    BY <1>3, <2>1 DEF Post
  <2>3. SessionTyped(work)
    BY <1>1, PostedSession
  <2>4. work.kind = session[s].kind /\ work.step = session[s].step /\ work.held = session[s].held
    BY <1>1 DEF SessionTyped
  <2> HIDE DEF work
  <2> QED BY <2>2, <2>3, <2>4, StatementKeeps
<1>4. CASE Derive(s)
  <2>1. PICK streaks :
          Advances(s, [session[s] EXCEPT !.held = @ \cup {"ltv"}, !.streak = streaks])
    BY <1>4 DEF Derive
  <2> DEFINE work == [session[s] EXCEPT !.held = @ \cup {"ltv"}, !.streak = streaks]
  <2>2. AtStep(s, "derive") /\ Advances(s, work) /\ ~LtvHeld(s)
    BY <1>4, <2>1 DEF Derive
  <2>3. SessionTyped(work)
    BY <1>1, DerivedSession
  <2>4. /\ work.kind = session[s].kind /\ work.step = session[s].step
        /\ work.held = session[s].held \cup {"ltv"}
    BY <1>1 DEF SessionTyped
  <2> HIDE DEF work
  <2> QED BY <2>2, <2>3, <2>4, StatementKeeps DEF LtvHeld
<1>5. CASE TakeBalance(s)
  <2> DEFINE work == [session[s] EXCEPT !.held = @ \cup {"balance"}]
  <2>1. AtStep(s, "balance") /\ Advances(s, work)
    BY <1>5 DEF TakeBalance
  <2>2. /\ SessionTyped(work) /\ work.kind = session[s].kind /\ work.step = session[s].step
        /\ work.held = session[s].held \cup {"balance"}
    BY <1>1 DEF SessionTyped
  <2> HIDE DEF work
  <2> QED BY <2>1, <2>2, StatementKeeps
<1>6. CASE Refresh(s)
  <2> DEFINE work == [session[s] EXCEPT !.totals = TotalsOf(Written(s)),
                                        !.streak = StreakOf(VisitDates(Written(s)))]
  <2>1. AtStep(s, "refresh") /\ Advances(s, work)
    BY <1>6 DEF Refresh
  <2>2. PICK totals, streaks :
          totals = TotalsOf(Written(s)) /\ streaks = StreakOf(VisitDates(Written(s)))
    OBVIOUS
  <2>3. work = [session[s] EXCEPT !.totals = totals, !.streak = streaks]
    BY <2>2
  <2> HIDE DEF work
  <2>4. SessionTyped(work)
    BY <1>1, <2>3, RefreshedSession
  <2>5. /\ work.kind = session[s].kind /\ work.step = session[s].step
        /\ work.held = session[s].held /\ work.row = session[s].row
        /\ work.date = session[s].date /\ work.visits = session[s].visits
        /\ work.of = session[s].of /\ work.totals = totals /\ work.streak = streaks
    BY <1>1, <2>3 DEF SessionTyped
  <2> QED BY <2>1, <2>2, <2>4, <2>5, StatementKeeps
<1> QED BY <1>2, <1>3, <1>4, <1>5, <1>6

\* Whoever commits a row holds customer_ltv: nobody else has been refreshed.
LEMMA CommitKeeps ==
  ASSUME StateInv, NEW s \in Sessions, Commit(s)
  PROVE  StateInv'
<1>1. /\ session[s].kind # NoRow /\ session[s].step > Len(Script(session[s].kind))
      /\ history' = Written(s) /\ session' = [session EXCEPT ![s] = Free] /\ date' = date
  BY DEF Commit
<1>2. /\ DOMAIN session' = Sessions /\ session'[s] = Free
      /\ \A o \in Sessions \ {s} : session'[o] = session[o]
  BY <1>1 DEF StateInv, StateTyped
<1>3. StateTyped'
  BY <1>1, <1>2, FreeType, WrittenType DEF StateInv, StateTyped
<1>4. ASSUME NEW o \in Sessions \ {s} PROVE SessionFits(o)'
  <2>1. SessionFits(o) /\ session'[o] = session[o]
    BY <1>2 DEF StateInv
  <2>2. CASE session[s].row
    <3>1. "ltv" \notin session[o].held
      BY <1>1, FinishedHolds DEF StateInv, OneDerives
    <3>2. ASSUME session[o].kind # NoRow, session[o].kind \in {"award", "refund"},
                 session[o].step > 4
          PROVE  FALSE
      <4>1. session[o].kind \in Purposes
        BY <3>2 DEF StateInv, StateTyped, SessionTyped
      <4>2. session[o].step > Len(Script(session[o].kind))
        BY <3>2, <4>1, Scripts
      <4> QED BY <3>1, <3>2, <4>2, FinishedHolds
    <3> QED BY <2>1, <3>2 DEF SessionFits, LocksWhatItDerives, IsRefreshed
  <2>3. CASE ~session[s].row
    <3>1. history' = history
      BY <1>1, <2>3, WrittenType
    <3> QED BY <2>1, <3>1 DEF SessionFits, LocksWhatItDerives, IsRefreshed, Written, Marked
  <2> QED BY <2>2, <2>3
<1>5. SessionFits(s)'
  BY <1>2, FreeType DEF SessionFits
<1>6. OneDerives'
  BY <1>2, FreeType DEF StateInv, OneDerives
<1> QED BY <1>3, <1>4, <1>5, <1>6 DEF StateInv

LEMMA StateStepsKeep ==
  ASSUME StateInv, [StateNext]_stateVars
  PROVE  StateInv'
<1>1. ASSUME UNCHANGED <<history, session>>, date' \in Nat PROVE StateInv'
  <2>1. StateTyped' /\ OneDerives'
    BY <1>1 DEF StateInv, StateTyped, OneDerives
  <2>2. ASSUME NEW s \in Sessions PROVE SessionFits(s)'
    BY <1>1 DEF StateInv, SessionFits, LocksWhatItDerives, IsRefreshed, Written, Marked
  <2> QED BY <2>1, <2>2 DEF StateInv
<1>2. CASE UNCHANGED stateVars
  BY <1>1, <1>2 DEF stateVars, StateInv, StateTyped
<1>3. CASE Midnight
  BY <1>1, <1>3 DEF Midnight, StateInv, StateTyped
<1>4. ASSUME NEW s \in Sessions, StartSession(s) PROVE StateInv'
  BY <1>4, BeginKeeps DEF StartSession, Purposes
<1>5. ASSUME NEW s \in Sessions, NEW i \in DOMAIN history, StartRefund(s, i) PROVE StateInv'
  BY <1>5, BeginKeeps DEF StartRefund, Purposes
<1>6. ASSUME NEW s \in Sessions, Works(s) PROVE StateInv'
  BY <1>6, StatementsKeep, CommitKeeps, AbortKeeps DEF Works
<1> QED BY <1>2, <1>3, <1>4, <1>5, <1>6 DEF StateNext

-----------------------------------------------------------------------------
(* The theorems.                                                           *)

\* The inductive invariant holds in every reachable state.
THEOREM StateInvAlways == StateSpec => []StateInv
<1> QED BY StateAtFirst, StateStepsKeep, PTL DEF StateSpec

\* What one step does when the latest row is an award or a refund.
LEMMA RefreshedStep ==
  ASSUME StateInv, [StateNext]_stateVars, history' # history,
         history'[Len(history')].kind \in {"award", "refund"}
  PROVE  ltv' = TotalsOf(history') /\ streak' = StreakOf(VisitDates(history'))
<1>1. PICK s \in Sessions : Commit(s)
  BY DEF StateNext, stateVars, StartSession, StartRefund, Begin, Works, Midnight, Abort,
         TouchRow, Post, Derive, TakeBalance, Refresh, Advances
<1>2. /\ session[s].kind # NoRow /\ session[s].step > Len(Script(session[s].kind))
      /\ history' = Written(s) /\ ltv' = session[s].totals /\ streak' = session[s].streak
  BY <1>1 DEF Commit
<1>3. session[s].kind \in {"award", "refund"} /\ session[s].kind \in Purposes
  BY <1>2, WrittenType DEF StateInv, StateTyped, SessionTyped
<1>4. session[s].step > 4 /\ IsRefreshed(s)
  BY <1>2, <1>3, Scripts DEF StateInv, SessionFits
<1> QED BY <1>2, <1>3, <1>4 DEF IsRefreshed

\* Whatever commits in between, is rolled back or crosses midnight: when an
\* award of the staff or a refund commits, the totals and the streak are those
\* of the rows.  Every transaction with a row holds customer_ltv when it
\* commits, so that no row comes between the computation and the commit.
THEOREM RefreshCorrect == StateSpec => RefreshRestores
<1>1. StateInv /\ [StateNext]_stateVars =>
        [history' # history /\ history'[Len(history')].kind \in {"award", "refund"} =>
           /\ ltv' = TotalsOf(history')
           /\ streak' = StreakOf(VisitDates(history'))]_stateVars
  BY RefreshedStep
<1> QED BY <1>1, StateInvAlways, PTL DEF StateSpec, RefreshRestores

-----------------------------------------------------------------------------
(***************************************************************************)
(* Proofs about achievements and challenges: what is paid and taken back   *)
(* is the balance, and nothing is earned by what has been refunded.        *)
(***************************************************************************)

(* The inductive invariant.                                                *)

Sale == [points : Int, visits : Int, spend : Int, items : Int]

\* What a payment is for.
Earnable == DOMAIN Badge \cup DOMAIN Challenge

Transaction ==
  [kind : {"PURCHASE", "ACHIEVEMENT", "CHALLENGE"}, of : Earnable \cup {NoValue}, source : Nat,
   sale : Sale, window : Nat, original : Nat, reversed : BOOLEAN]

EarnedRow == [source : Nat, reward : Nat]

Entry == [source : Nat, reward : Nat, window : Nat]

CourseRow ==
  [progress : Int, completed : BOOLEAN, on : Nat \cup {NoValue}, times : Int, history : Seq(Entry)]

EarnedRows == [DOMAIN Badge -> EarnedRow \cup {NoValue}]
CourseRows == [DOMAIN Challenge -> CourseRow \cup {NoValue}]

DeskJob ==
  [at : {"idle", "check", "begin", "look", "pay", "write", "refund"}, source : Nat, part : 0..4,
   stats : Sale, badge : Nat, paid : Seq(DOMAIN Badge), seen : CourseRow \cup CourseRows]

RewardsTyped ==
  /\ rows \in Seq(Transaction)
  /\ points \in Int
  /\ earned \in EarnedRows
  /\ course \in CourseRows
  /\ desk \in [Desks -> DeskJob]
  /\ window \in Nat

\* A row that was reversed has one row that names it, with as many points.
Paired(rs) ==
  /\ \A k \in DOMAIN rs : rs[k].original # 0 =>
       /\ rs[k].original \in DOMAIN rs
       /\ rs[rs[k].original].reversed
       /\ rs[k].sale.points = -rs[rs[k].original].sale.points
  /\ \A i \in DOMAIN rs : rs[i].reversed => \E k \in DOMAIN rs : rs[k].original = i
  /\ \A k, l \in DOMAIN rs : rs[k].original # 0 /\ rs[k].original = rs[l].original => k = l

Kept(rs, n) == n = SumOver(rs, DOMAIN rs, "points") /\ Paired(rs)

\* Achievements and completions name payments.
IsPayment(rs, i) == i \in DOMAIN rs /\ rs[i].kind # "PURCHASE"

EarnedNames(es, rs) == \A b \in DOMAIN Badge : es[b] # NoValue => IsPayment(rs, es[b].reward)

HistoryNames(entries, rs) == \A n \in DOMAIN entries : IsPayment(rs, entries[n].reward)

CourseNames(cs, rs) ==
  \A m \in DOMAIN Challenge : cs[m] # NoValue => HistoryNames(cs[m].history, rs)

Locking == {"look", "pay", "write", "refund"}

HoldsPoints(doing) == doing.at = "refund" \/ doing.paid # <<>>

\* Whoever holds the row of an award relies on it not being reversed.
JobFits(doing, rs) ==
  /\ doing.at # "idle" => doing.source \in DOMAIN rs
  /\ doing.at \notin {"idle", "refund"} => rs[doing.source].kind = "PURCHASE"
  /\ doing.at \in Locking => ~rs[doing.source].reversed
  /\ doing.at = "refund" => doing.seen \in CourseRows /\ CourseNames(doing.seen, rs)
  /\ doing.at = "write" => /\ doing.seen \in CourseRow
                         /\ doing.part \in 1..4 /\ Metrics[doing.part] \in DOMAIN Challenge
  /\ doing.at \in {"look", "pay"} => doing.badge > 0
  /\ doing.at = "pay" => doing.badge \in DOMAIN Badge
  /\ doing.paid # <<>> => doing.at \in {"look", "pay"}

\* Each lock has one holder.
Apart(doing, other) ==
  /\ doing.at \in Locking /\ other.at \in Locking => doing.source # other.source
  /\ ~(HoldsPoints(doing) /\ HoldsPoints(other))

DesksFit == \A d \in Desks : JobFits(desk[d], rows)

DesksDiffer == \A d, o \in Desks : d # o => Apart(desk[d], desk[o])

RewardsInv ==
  /\ RewardsTyped
  /\ Kept(rows, points)
  /\ EarnedNames(earned, rows) /\ CourseNames(course, rows)
  /\ DesksFit /\ DesksDiffer

-----------------------------------------------------------------------------
(* Loops: a function that is defined step by step exists, and what each    *)
(* step keeps is kept to the end.                                          *)

Steps(u, start, step, n) ==
  u = [i \in 0..n |-> IF i = 0 THEN start ELSE step[i][u[i - 1]]]

LEMMA LoopExists ==
  ASSUME NEW D, NEW start \in D, NEW n \in Nat, NEW step \in [1..n -> [D -> D]]
  PROVE  \E u \in [0..n -> D] : Steps(u, start, step, n)
<1> DEFINE S == {k \in Nat : k <= n => \E u \in [0..k -> D] : Steps(u, start, step, k)}
<1>1. 0 \in S
  <2> DEFINE u == [i \in 0..0 |-> start]
  <2>1. u \in [0..0 -> D] /\ Steps(u, start, step, 0)
    BY DEF Steps
  <2> QED BY <2>1
<1>2. ASSUME NEW k \in Nat, k \in S PROVE k + 1 \in S
  <2>1. SUFFICES ASSUME k + 1 <= n
        PROVE  \E u \in [0..(k + 1) -> D] : Steps(u, start, step, k + 1)
    OBVIOUS
  <2>2. PICK v \in [0..k -> D] : Steps(v, start, step, k)
    BY <1>2, <2>1
  <2>3. step[k + 1] \in [D -> D] /\ v[k] \in D
    BY <2>1
  <2> DEFINE u == [i \in 0..(k + 1) |-> IF i = k + 1 THEN step[k + 1][v[k]] ELSE v[i]]
  <2>4. u \in [0..(k + 1) -> D]
    BY <2>3
  <2>5. \A i \in 0..(k + 1) : u[i] = IF i = 0 THEN start ELSE step[i][u[i - 1]]
    <3> TAKE i \in 0..(k + 1)
    <3>1. CASE i = k + 1
      BY <3>1
    <3>2. CASE i # k + 1
      <4>1. i \in 0..k /\ u[i] = v[i] /\ (i # 0 => i - 1 \in 0..k /\ u[i - 1] = v[i - 1])
        BY <3>2
      <4>2. v[i] = IF i = 0 THEN start ELSE step[i][v[i - 1]]
        BY <4>1, <2>2 DEF Steps
      <4> HIDE DEF u
      <4> QED BY <4>1, <4>2
    <3> QED BY <3>1, <3>2
  <2>6. u = [i \in 0..(k + 1) |-> IF i = 0 THEN start ELSE step[i][u[i - 1]]]
    BY <2>4, <2>5
  <2>7. Steps(u, start, step, k + 1)
    BY <2>6 DEF Steps
  <2> QED BY <2>4, <2>7
<1>3. n \in S
  <2> HIDE DEF S
  <2> QED BY <1>1, <1>2, SetInduction
<1> QED BY <1>3

LEMMA LoopStays ==
  ASSUME NEW D, NEW n \in Nat, NEW u, u[0] \in D,
         \A k \in 1..n : u[k - 1] \in D => u[k] \in D
  PROVE  u[n] \in D
<1> DEFINE S == {k \in Nat : k <= n => u[k] \in D}
<1>1. 0 \in S
  OBVIOUS
<1>2. ASSUME NEW k \in Nat, k \in S PROVE k + 1 \in S
  <2>1. SUFFICES ASSUME k + 1 <= n PROVE u[k + 1] \in D
    OBVIOUS
  <2>2. k + 1 \in 1..n /\ (k + 1) - 1 = k /\ u[k] \in D
    BY <1>2, <2>1
  <2> QED BY <2>2
<1>3. n \in S
  <2> HIDE DEF S
  <2> QED BY <1>1, <1>2, SetInduction
<1> QED BY <1>3

-----------------------------------------------------------------------------
(* Sequences and sets.                                                     *)

\* The entries of a history that are in a set are entries of the history.
LEMMA AmongThose ==
  ASSUME NEW E, NEW entries \in Seq(E), NEW S
  PROVE  Among(entries, S) \in Seq(E)
<1> DEFINE n == Len(entries)
           step == [i \in 1..n |-> [x \in Seq(E) |->
                     IF entries[i] \in S THEN Append(x, entries[i]) ELSE x]]
           w == CHOOSE x : x = [i \in 0..n |->
                  IF i = 0 THEN <<>>
                  ELSE IF entries[i] \in S THEN Append(x[i - 1], entries[i]) ELSE x[i - 1]]
<1>1. n \in Nat /\ \A i \in 1..n : entries[i] \in E
  OBVIOUS
<1>2. \A i \in 1..n : [x \in Seq(E) |-> IF entries[i] \in S THEN Append(x, entries[i]) ELSE x]
                        \in [Seq(E) -> Seq(E)]
  BY <1>1
<1>3. step \in [1..n -> [Seq(E) -> Seq(E)]] /\ <<>> \in Seq(E)
  BY <1>2
<1>4. PICK u \in [0..n -> Seq(E)] : Steps(u, <<>>, step, n)
  <2> HIDE DEF step
  <2> QED BY <1>1, <1>3, LoopExists
<1>5. \A i \in 1..n : u[i - 1] \in Seq(E)
  BY <1>1, <1>4
<1>6. u = [i \in 0..n |->
             IF i = 0 THEN <<>>
             ELSE IF entries[i] \in S THEN Append(u[i - 1], entries[i]) ELSE u[i - 1]]
  <2>1. \A i \in 1..n : step[i][u[i - 1]] =
          IF entries[i] \in S THEN Append(u[i - 1], entries[i]) ELSE u[i - 1]
    BY <1>5
  <2>2. \A i \in 0..n : i # 0 => i \in 1..n
    BY <1>1
  <2> HIDE DEF step, n
  <2> QED BY <1>4, <2>1, <2>2 DEF Steps
<1>7. w = [i \in 0..n |->
             IF i = 0 THEN <<>>
             ELSE IF entries[i] \in S THEN Append(w[i - 1], entries[i]) ELSE w[i - 1]]
  BY <1>6
<1>8. w[n] \in Seq(E)
  <2> HIDE DEF w, n
  <2>1. w[0] \in Seq(E)
    <3>1. w[0] = <<>>
      BY <1>1, <1>7
    <3> QED BY <3>1
  <2>2. ASSUME NEW k \in 1..n, w[k - 1] \in Seq(E) PROVE w[k] \in Seq(E)
    <3>1. w[k] = IF entries[k] \in S THEN Append(w[k - 1], entries[k]) ELSE w[k - 1]
      <4>1. k \in 0..n /\ k # 0
        BY <1>1
      <4>2. \A i \in 0..n : w[i] =
             IF i = 0 THEN <<>>
             ELSE IF entries[i] \in S THEN Append(w[i - 1], entries[i]) ELSE w[i - 1]
        BY <1>7
      <4> QED BY <4>1, <4>2
    <3> QED BY <3>1, <2>2, <1>1
  <2> QED BY <1>1, <2>1, <2>2, LoopStays
<1> QED BY <1>8 DEF Among

LEMMA WithoutThose ==
  ASSUME NEW E, NEW entries \in Seq(E), NEW gone
  PROVE  Without(entries, gone) \in Seq(E)
BY AmongThose DEF Without

LEMMA ReverseThose ==
  ASSUME NEW E, NEW s \in Seq(E)
  PROVE  Reverse(s) \in Seq(E)
<1>1. \A i \in 1..Len(s) : s[(Len(s) - i) + 1] \in E
  OBVIOUS
<1> QED BY <1>1 DEF Reverse

\* A set of numbers below a bound has a largest one.
LEMMA LargestExists ==
  ASSUME NEW n \in Nat, NEW S \in SUBSET (1..n), S # {}
  PROVE  \E x \in S : \A y \in S : x >= y
<1> DEFINE T == {k \in Nat : \A R \in SUBSET (1..k) :
                               R # {} => \E x \in R : \A y \in R : x >= y}
<1>1. 0 \in T
  BY 1..0 = {}
<1>2. ASSUME NEW k \in Nat, k \in T PROVE k + 1 \in T
  <2>1. SUFFICES ASSUME NEW R \in SUBSET (1..(k + 1)), R # {}
        PROVE  \E x \in R : \A y \in R : x >= y
    OBVIOUS
  <2>2. CASE k + 1 \in R
    BY <2>2
  <2>3. CASE k + 1 \notin R
    <3>1. R \in SUBSET (1..k)
      BY <2>3
    <3> QED BY <3>1, <1>2, <2>1
  <2> QED BY <2>2, <2>3
<1>3. n \in T
  <2> HIDE DEF T
  <2> QED BY <1>1, <1>2, SetInduction
<1> QED BY <1>3

LEMMA LargestIn ==
  ASSUME NEW n \in Nat, NEW S \in SUBSET (1..n), S # {}
  PROVE  Max(S) \in S
BY LargestExists DEF Max

-----------------------------------------------------------------------------
(* The constants, and what is read from the rows.                          *)

LEMMA ConstantFacts ==
  /\ ToSet(Metrics) = {"points", "visits", "spend", "items"}
  /\ DOMAIN Challenge \subseteq {"points", "visits", "spend", "items"}
  /\ Len(Badge) \in Nat /\ DOMAIN Badge = 1..Len(Badge)
  /\ \A b \in DOMAIN Badge : /\ Badge[b].metric \in {"points", "visits", "spend", "items"}
                             /\ Badge[b].need \in Nat /\ Badge[b].reward \in Nat \ {0}
  /\ \A m \in DOMAIN Challenge :
       /\ Challenge[m].need \in Nat \ {0} /\ Challenge[m].reward \in Nat \ {0}
       /\ Challenge[m].recurring \in BOOLEAN /\ Challenge[m].max \in Nat \cup {NoValue}
<1>1. ToSet(Metrics) = {Metrics[i] : i \in 1..4}
  BY DEF ToSet, Metrics
<1>2. 1..4 = {1, 2, 3, 4}
  OBVIOUS
<1>3. ToSet(Metrics) = {"points", "visits", "spend", "items"}
  BY <1>1, <1>2 DEF Metrics
<1> DEFINE B == [metric : ToSet(Metrics), need : Nat \ {0}, reward : Nat \ {0}]
<1>5. Badge \in Seq(B)
  BY RewardAssumption
<1>4. /\ Len(Badge) \in Nat /\ DOMAIN Badge = 1..Len(Badge)
      /\ \A b \in DOMAIN Badge : Badge[b] \in B
  <2> HIDE DEF B
  <2> QED BY <1>5
<1> QED BY <1>3, <1>4, RewardAssumption

LEMMA TransactionFields ==
  ASSUME NEW rs \in Seq(Transaction), NEW i \in DOMAIN rs
  PROVE  /\ i \in 1..Len(rs) /\ i \in Nat \ {0}
         /\ rs[i] \in Transaction
         /\ rs[i].reversed \in BOOLEAN /\ rs[i].original \in Nat
         /\ rs[i].sale \in Sale /\ rs[i].sale.points \in Int
<1>1. i \in 1..Len(rs) /\ i \in Nat \ {0} /\ rs[i] \in Transaction
  OBVIOUS
<1> QED BY <1>1 DEF Transaction, Sale

LEMMA SumOverInt ==
  ASSUME NEW rs \in Seq(Transaction), NEW S,
         NEW m \in {"points", "visits", "spend", "items"}
  PROVE  SumOver(rs, S, m) \in Int
<1> DEFINE f == [i \in DOMAIN rs |-> IF i \in S THEN rs[i].sale[m] ELSE 0]
<1>1. Len(rs) \in Nat /\ DOMAIN rs = 1..Len(rs)
  OBVIOUS
<1>2. \A i \in 1..Len(rs) : rs[i].sale \in Sale
  BY <1>1, TransactionFields
<1>3. \A i \in 1..Len(rs) : rs[i].sale[m] \in Int
  BY <1>2 DEF Sale
<1>4. \A i \in 1..Len(rs) : f[i] \in Int
  BY <1>1, <1>3
<1>5. Total(f, Len(rs)) \in Int
  <2> HIDE DEF f
  <2> QED BY <1>1, <1>4, TotalType
<1> QED BY <1>5 DEF SumOver

LEMMA StatsTyped ==
  ASSUME NEW rs \in Seq(Transaction), NEW n \in Int, NEW heard
  PROVE  StatsWith(rs, n, heard) \in Sale
BY SumOverInt DEF StatsWith, Sale

\* The sum of the points.
PointsIn(rs) == SumOver(rs, DOMAIN rs, "points")

LEMMA SumIs ==
  ASSUME NEW rs \in Seq(Transaction)
  PROVE  /\ PointsIn(rs) = Total([i \in 1..Len(rs) |-> rs[i].sale.points], Len(rs))
         /\ Len(rs) \in Nat
         /\ \A i \in 1..Len(rs) : rs[i].sale.points \in Int
<1>1. DOMAIN rs = 1..Len(rs) /\ Len(rs) \in Nat
  OBVIOUS
<1>2. \A i \in 1..Len(rs) : rs[i].sale.points \in Int
  BY <1>1, TransactionFields
<1>3. [i \in DOMAIN rs |-> IF i \in DOMAIN rs THEN rs[i].sale["points"] ELSE 0]
        = [i \in 1..Len(rs) |-> rs[i].sale.points]
  BY <1>1
<1> QED BY <1>1, <1>2, <1>3 DEF PointsIn, SumOver

\* Rows are as many points as before when their sales are.
LEMMA SumSame ==
  ASSUME NEW rs \in Seq(Transaction), NEW qs \in Seq(Transaction), Len(rs) = Len(qs),
         \A i \in 1..Len(rs) : rs[i].sale.points = qs[i].sale.points
  PROVE  PointsIn(rs) = PointsIn(qs)
<1>1. [i \in 1..Len(rs) |-> rs[i].sale.points] = [i \in 1..Len(qs) |-> qs[i].sale.points]
  OBVIOUS
<1> QED BY <1>1, SumIs

LEMMA TotalJoined ==
  ASSUME NEW a \in Nat, NEW n \in Nat, NEW f, NEW g, NEW h,
         \A i \in 1..a : f[i] \in Int /\ h[i] = f[i],
         \A i \in 1..n : g[i] \in Int /\ h[a + i] = g[i]
  PROVE  Total(h, a + n) = Total(f, a) + Total(g, n)
<1>0. \A i \in 1..(a + n) : h[i] \in Int
  <2> SUFFICES ASSUME NEW i \in 1..(a + n) PROVE h[i] \in Int
    OBVIOUS
  <2>1. CASE i <= a
    BY <2>1
  <2>2. CASE i > a
    <3>1. i - a \in 1..n /\ a + (i - a) = i
      BY <2>2
    <3> QED BY <3>1
  <2> QED BY <2>1, <2>2
<1> DEFINE S == {k \in Nat : k <= n => Total(h, a + k) = Total(f, a) + Total(g, k)}
<1>1. 0 \in S
  <2>1. Total(h, a) = Total(f, a)
    BY TotalEqual
  <2>2. Total(f, a) \in Int
    BY TotalType
  <2> QED BY <2>1, <2>2, TotalEmpty
<1>2. ASSUME NEW k \in Nat, k \in S PROVE k + 1 \in S
  <2>1. SUFFICES ASSUME k + 1 <= n
        PROVE  Total(h, a + (k + 1)) = Total(f, a) + Total(g, k + 1)
    OBVIOUS
  <2>2. Total(h, a + k) = Total(f, a) + Total(g, k)
    BY <1>2, <2>1
  <2>3. Total(g, k + 1) = Total(g, k) + g[k + 1]
    BY <2>1, TotalNext
  <2>4. Total(h, (a + k) + 1) = Total(h, a + k) + h[(a + k) + 1]
    BY <1>0, <2>1, TotalNext, a + k \in Nat
  <2>5. h[(a + k) + 1] = g[k + 1] /\ g[k + 1] \in Int
    <3>1. k + 1 \in 1..n /\ a + (k + 1) = (a + k) + 1
      BY <2>1
    <3> QED BY <3>1
  <2>6. Total(f, a) \in Int /\ Total(g, k) \in Int
    BY <2>1, TotalType
  <2>7. a + (k + 1) = (a + k) + 1
    OBVIOUS
  <2> QED BY <2>2, <2>3, <2>4, <2>5, <2>6, <2>7
<1>3. n \in S
  <2> HIDE DEF S
  <2> QED BY <1>1, <1>2, SetInduction
<1> QED BY <1>3

LEMMA SumJoined ==
  ASSUME NEW rs \in Seq(Transaction), NEW new \in Seq(Transaction)
  PROVE  PointsIn(rs \o new) = PointsIn(rs) + PointsIn(new)
<1> DEFINE a == Len(rs)
           n == Len(new)
           f == [i \in 1..a |-> rs[i].sale.points]
           g == [i \in 1..n |-> new[i].sale.points]
           h == [i \in 1..Len(rs \o new) |-> (rs \o new)[i].sale.points]
<1>1. /\ rs \o new \in Seq(Transaction)
      /\ Len(rs \o new) = a + n
      /\ a \in Nat /\ n \in Nat
      /\ \A i \in 1..(a + n) : (rs \o new)[i] = IF i <= a THEN rs[i] ELSE new[i - a]
  BY ConcatProperties
<1>2. \A i \in 1..a : f[i] \in Int /\ h[i] = f[i]
  <2> SUFFICES ASSUME NEW i \in 1..a PROVE f[i] \in Int /\ h[i] = f[i]
    OBVIOUS
  <2>1. i \in 1..(a + n) /\ i <= a
    BY <1>1
  <2>2. (rs \o new)[i] = rs[i]
    BY <1>1, <2>1
  <2> QED BY <1>1, <2>1, <2>2, SumIs
<1>3. \A i \in 1..n : g[i] \in Int /\ h[a + i] = g[i]
  <2> SUFFICES ASSUME NEW i \in 1..n PROVE g[i] \in Int /\ h[a + i] = g[i]
    OBVIOUS
  <2>1. a + i \in 1..(a + n) /\ ~(a + i <= a) /\ (a + i) - a = i
    BY <1>1
  <2>2. (rs \o new)[a + i] = new[i]
    BY <1>1, <2>1
  <2> QED BY <1>1, <2>1, <2>2, SumIs
<1>4. Total(h, a + n) = Total(f, a) + Total(g, n)
  <2>1. a \in Nat /\ n \in Nat
    BY <1>1
  <2> HIDE DEF f, g, h, a, n
  <2> QED BY <2>1, <1>2, <1>3, TotalJoined
<1> QED BY <1>1, <1>4, SumIs

LEMMA SumOne ==
  ASSUME NEW r \in Transaction
  PROVE  /\ <<r>> \in Seq(Transaction)
         /\ PointsIn(<<r>>) = r.sale.points
<1>1. <<r>> \in Seq(Transaction) /\ Len(<<r>>) = 1
  OBVIOUS
<1> DEFINE f == [i \in 1..1 |-> <<r>>[i].sale.points]
<1>2. PointsIn(<<r>>) = Total(f, 1) /\ f[1] = r.sale.points /\ f[1] \in Int
  <2>1. r.sale.points \in Int /\ <<r>>[1] = r
    BY DEF Transaction, Sale
  <2>2. f[1] = r.sale.points
    BY <2>1
  <2>3. PointsIn(<<r>>) = Total(f, 1)
    BY <1>1, SumIs
  <2> QED BY <2>1, <2>2, <2>3
<1>3. Total(f, 1) = f[1]
  <2> HIDE DEF f
  <2> QED BY <1>2, TotalSingle, 1 \in 1..1
<1> QED BY <1>1, <1>2, <1>3

\* Rows that are all worth the same.
LEMMA SumEven ==
  ASSUME NEW new \in Seq(Transaction), NEW c \in Int,
         \A i \in 1..Len(new) : new[i].sale.points = c
  PROVE  PointsIn(new) = Len(new) * c
<1> DEFINE n == Len(new)
           f == [i \in 1..n |-> new[i].sale.points]
           S == {k \in Nat : k <= n => Total(f, k) = k * c}
<1>1. n \in Nat /\ PointsIn(new) = Total(f, n) /\ \A i \in 1..n : f[i] = c
  BY SumIs
<1>2. 0 \in S
  BY TotalEmpty
<1>3. ASSUME NEW k \in Nat, k \in S PROVE k + 1 \in S
  <2>1. SUFFICES ASSUME k + 1 <= n PROVE Total(f, k + 1) = (k + 1) * c
    OBVIOUS
  <2> HIDE DEF f
  <2>2. Total(f, k + 1) = Total(f, k) + c
    BY <1>1, <2>1, TotalNext
  <2>3. Total(f, k) = k * c
    BY <1>3, <2>1
  <2>4. (k + 1) * c = k * c + c
    OBVIOUS
  <2> QED BY <2>2, <2>3, <2>4
<1>4. n \in S
  <2> HIDE DEF S
  <2> QED BY <1>1, <1>2, <1>3, SetInduction
<1> QED BY <1>1, <1>4

-----------------------------------------------------------------------------
(* What is added and taken back.                                           *)

Plain(new) == \A i \in DOMAIN new : new[i].original = 0 /\ ~new[i].reversed

\* New rows that are not reversals add their points.
LEMMA KeptMore ==
  ASSUME NEW rs \in Seq(Transaction), NEW new \in Seq(Transaction), NEW n \in Int,
         Kept(rs, n), Plain(new)
  PROVE  Kept(rs \o new, n + PointsIn(new))
<1> DEFINE all == rs \o new
<1>1. /\ all \in Seq(Transaction) /\ Len(all) = Len(rs) + Len(new)
      /\ \A i \in 1..(Len(rs) + Len(new)) :
           all[i] = IF i <= Len(rs) THEN rs[i] ELSE new[i - Len(rs)]
      /\ Len(rs) \in Nat /\ Len(new) \in Nat
      /\ DOMAIN rs = 1..Len(rs) /\ DOMAIN new = 1..Len(new) /\ DOMAIN all = 1..Len(all)
  BY ConcatProperties
<1>2. n + PointsIn(new) = SumOver(all, DOMAIN all, "points")
  BY SumJoined DEF Kept, PointsIn
<1> HIDE DEF all
<1>3. \A i \in DOMAIN rs : i \in DOMAIN all /\ all[i] = rs[i]
  BY <1>1
<1>4. \A i \in DOMAIN all \ DOMAIN rs : all[i].original = 0 /\ ~all[i].reversed
  <2> SUFFICES ASSUME NEW i \in DOMAIN all \ DOMAIN rs
      PROVE  all[i].original = 0 /\ ~all[i].reversed
    OBVIOUS
  <2>1. i - Len(rs) \in DOMAIN new /\ all[i] = new[i - Len(rs)]
    BY <1>1
  <2> QED BY <2>1 DEF Plain
<1>5. Paired(rs)
  BY DEF Kept
<1>6. \A k \in DOMAIN all : all[k].original # 0 => k \in DOMAIN rs
  BY <1>4
<1>7. \A i \in DOMAIN all : all[i].reversed => i \in DOMAIN rs
  BY <1>4
<1>8. Paired(all)
  <2>1. \A k \in DOMAIN all : all[k].original # 0 =>
          /\ all[k].original \in DOMAIN all
          /\ all[all[k].original].reversed
          /\ all[k].sale.points = -all[all[k].original].sale.points
    BY <1>3, <1>5, <1>6 DEF Paired
  <2>2. \A i \in DOMAIN all : all[i].reversed => \E k \in DOMAIN all : all[k].original = i
    BY <1>3, <1>5, <1>7 DEF Paired
  <2>3. \A k, l \in DOMAIN all : all[k].original # 0 /\ all[k].original = all[l].original => k = l
    BY <1>3, <1>5, <1>6 DEF Paired
  <2> QED BY <2>1, <2>2, <2>3 DEF Paired
<1> QED BY <1>2, <1>8 DEF Kept, all

TakenBack(rs, k, back) == Append([rs EXCEPT ![k].reversed = TRUE], back)

LEMMA TakenBackRows ==
  ASSUME NEW rs \in Seq(Transaction), NEW k \in DOMAIN rs, NEW back \in Transaction
  PROVE  /\ TakenBack(rs, k, back) \in Seq(Transaction)
         /\ Len(TakenBack(rs, k, back)) = Len(rs) + 1
         /\ \A i \in DOMAIN rs :
              TakenBack(rs, k, back)[i] = IF i = k THEN [rs[k] EXCEPT !.reversed = TRUE] ELSE rs[i]
         /\ TakenBack(rs, k, back)[Len(rs) + 1] = back
<1>1. k \in 1..Len(rs) /\ DOMAIN rs = 1..Len(rs)
  OBVIOUS
<1>2. [rs[k] EXCEPT !.reversed = TRUE] \in Transaction
  <2>1. rs[k] \in Transaction
    BY <1>1
  <2> QED BY <2>1 DEF Transaction
<1> DEFINE e == [rs[k] EXCEPT !.reversed = TRUE]
           qs == [rs EXCEPT ![k] = e]
<1>3. [rs EXCEPT ![k].reversed = TRUE] = qs
  OBVIOUS
<1>4. /\ qs \in Seq(Transaction) /\ Len(qs) = Len(rs)
      /\ \A j \in 1..Len(rs) : qs[j] = IF j = k THEN e ELSE rs[j]
  <2> HIDE DEF e
  <2> QED BY <1>1, <1>2, ExceptSeq DEF e
<1>5. TakenBack(rs, k, back) = Append(qs, back)
  BY <1>3 DEF TakenBack
<1> HIDE DEF qs
<1>6. /\ Append(qs, back) \in Seq(Transaction)
      /\ Len(Append(qs, back)) = Len(qs) + 1
      /\ \A i \in 1..Len(qs) : Append(qs, back)[i] = qs[i]
      /\ Append(qs, back)[Len(qs) + 1] = back
  BY <1>4, AppendProperties
<1> QED BY <1>1, <1>4, <1>5, <1>6

\* Taking back a row that stands keeps the books.
LEMMA TakenBackKept ==
  ASSUME NEW rs \in Seq(Transaction), NEW n \in Int, Kept(rs, n),
         NEW k \in DOMAIN rs, ~rs[k].reversed,
         NEW back \in Transaction, back.original = k, ~back.reversed,
         back.sale.points = -rs[k].sale.points
  PROVE  Kept(TakenBack(rs, k, back), n - rs[k].sale.points)
<1> DEFINE all == TakenBack(rs, k, back)
           e   == [rs[k] EXCEPT !.reversed = TRUE]
           qs  == [rs EXCEPT ![k] = e]
           x   == Len(rs) + 1
<1>0. k \in 1..Len(rs) /\ DOMAIN rs = 1..Len(rs) /\ Len(rs) \in Nat
  OBVIOUS
<1>1. /\ all \in Seq(Transaction) /\ Len(all) = x /\ DOMAIN all = 1..x
      /\ \A i \in DOMAIN rs : all[i] = IF i = k THEN e ELSE rs[i]
      /\ all[x] = back
  BY TakenBackRows
<1>2. /\ e.sale.points = rs[k].sale.points /\ e.original = rs[k].original
      /\ e.reversed /\ e \in Transaction
  <2>1. rs[k] \in Transaction
    BY <1>0
  <2> QED BY <2>1 DEF Transaction
<1>3. n - rs[k].sale.points = SumOver(all, DOMAIN all, "points")
  <2>1. qs \in Seq(Transaction) /\ Len(qs) = Len(rs)
        /\ \A j \in 1..Len(rs) : qs[j] = IF j = k THEN e ELSE rs[j]
    <3> HIDE DEF e
    <3> QED BY <1>0, <1>2, ExceptSeq
  <2>2. all = qs \o <<back>>
    <3>1. all = Append(qs, back)
      <4>1. [rs EXCEPT ![k].reversed = TRUE] = qs
        OBVIOUS
      <4> QED BY <4>1 DEF TakenBack
    <3> HIDE DEF qs, all
    <3> QED BY <3>1, <2>1, AppendIsConcat
  <2>3. PointsIn(qs) = PointsIn(rs)
    <3> HIDE DEF e, qs
    <3>1. \A j \in 1..Len(rs) : qs[j].sale.points = rs[j].sale.points
      BY <1>2, <2>1
    <3> QED BY <2>1, <3>1, SumSame
  <2>4. PointsIn(<<back>>) = back.sale.points /\ <<back>> \in Seq(Transaction)
    BY SumOne
  <2> HIDE DEF qs, all
  <2>5. PointsIn(all) = PointsIn(qs) + PointsIn(<<back>>)
    BY <2>1, <2>2, <2>4, SumJoined
  <2>6. rs[k].sale.points \in Int
    BY <1>0, SumIs
  <2> QED BY <2>3, <2>4, <2>5, <2>6 DEF Kept, PointsIn
<1> HIDE DEF all, e
<1>4. Paired(rs)
  BY DEF Kept
<1>5. \A i \in DOMAIN rs : i \in DOMAIN all /\ i # x /\ all[i].original = rs[i].original
                           /\ all[i].sale.points = rs[i].sale.points
                           /\ (all[i].reversed <=> rs[i].reversed \/ i = k)
  BY <1>0, <1>1, <1>2
<1>6. \A i \in DOMAIN all : i \in DOMAIN rs \/ i = x
  BY <1>0, <1>1
<1>7. x \in DOMAIN all /\ all[x].original = k /\ k # 0 /\ ~all[x].reversed
      /\ all[x].sale.points = -rs[k].sale.points
  BY <1>0, <1>1
<1>8. \A i \in DOMAIN rs : rs[i].original # k
  BY <1>4, <1>7 DEF Paired
<1>9. \A i \in DOMAIN all : all[i].original # 0 =>
        /\ all[i].original \in DOMAIN all
        /\ all[all[i].original].reversed
        /\ all[i].sale.points = -all[all[i].original].sale.points
  <2> TAKE i \in DOMAIN all
  <2>1. CASE i = x
    BY <2>1, <1>5, <1>7
  <2>2. CASE i \in DOMAIN rs
    BY <2>2, <1>4, <1>5 DEF Paired
  <2> QED BY <1>6, <2>1, <2>2
<1>10. \A i \in DOMAIN all : all[i].reversed => \E j \in DOMAIN all : all[j].original = i
  <2> SUFFICES ASSUME NEW i \in DOMAIN all, all[i].reversed
      PROVE  \E j \in DOMAIN all : all[j].original = i
    OBVIOUS
  <2>1. CASE i = k
    BY <2>1, <1>7
  <2>2. CASE i # k
    <3>1. i \in DOMAIN rs /\ rs[i].reversed
      BY <2>2, <1>5, <1>6, <1>7
    <3>2. PICK j \in DOMAIN rs : rs[j].original = i
      BY <3>1, <1>4 DEF Paired
    <3> QED BY <3>2, <1>5
  <2> QED BY <2>1, <2>2
<1>11. \A i, j \in DOMAIN all : all[i].original # 0 /\ all[i].original = all[j].original => i = j
  BY <1>4, <1>5, <1>6, <1>7, <1>8 DEF Paired
<1>12. Paired(all)
  BY <1>9, <1>10, <1>11 DEF Paired
<1> QED BY <1>3, <1>12 DEF Kept, all

-----------------------------------------------------------------------------
(* A refund computes a database from the current one.  In all of them the  *)
(* balance is kept, of the purchases only the refunded one is reversed,    *)
(* and what is earned is still named.                                      *)

\* Rows are added, and of the purchases only i changes.
Grows(rs, qs, i) ==
  /\ Len(rs) <= Len(qs)
  /\ \A k \in DOMAIN rs :
       /\ qs[k].kind = rs[k].kind
       /\ rs[k].kind = "PURCHASE" /\ k # i => qs[k].reversed = rs[k].reversed

NoneEarned(rs, qs) == \A k \in DOMAIN qs \ DOMAIN rs : qs[k].source = 0

Databases(i) ==
  {db \in [rows : Seq(Transaction), points : Int, earned : EarnedRows] :
     /\ Kept(db.rows, db.points)
     /\ Grows(rows, db.rows, i) /\ NoneEarned(rows, db.rows)
     /\ EarnedNames(db.earned, rows)}

LEMMA PaymentStays ==
  ASSUME NEW rs \in Seq(Transaction), NEW qs \in Seq(Transaction), NEW i, Grows(rs, qs, i),
         NEW k, IsPayment(rs, k)
  PROVE  IsPayment(qs, k)
<1>1. DOMAIN rs = 1..Len(rs) /\ DOMAIN qs = 1..Len(qs) /\ Len(rs) \in Nat /\ Len(qs) \in Nat
  OBVIOUS
<1> QED BY <1>1 DEF IsPayment, Grows

RowKinds == {"PURCHASE", "ACHIEVEMENT", "CHALLENGE"}

\* What is earned, or nothing, as rows name it.
Named == Earnable \cup {NoValue}

RowFits(row, kind, source, n) ==
  /\ row \in Transaction /\ row.kind = kind /\ row.source = source
  /\ row.sale.points = n /\ row.original = 0 /\ ~row.reversed

LEMMA RowTyped ==
  ASSUME NEW kind \in RowKinds, NEW of \in Named, NEW source \in Nat, NEW n \in Int,
         window \in Nat
  PROVE  RowFits(RewardRow(kind, of, source, n), kind, source, n)
<1> DEFINE s == [Nothing EXCEPT !.points = n]
           r == Row(kind, of, source, s)
<1>1. s \in Sale /\ s.points = n
  BY DEF Nothing, Sale
<1>2. RewardRow(kind, of, source, n) = r
  BY DEF RewardRow
<1> HIDE DEF s
<1>3. RowFits(r, kind, source, n)
  BY <1>1 DEF Row, Transaction, RowKinds, Named, RowFits
<1> QED BY <1>2, <1>3

\* Taking back a payment, or the refunded purchase, gives another database.
LEMMA ReversedStays ==
  ASSUME NEW i, rows \in Seq(Transaction), window \in Nat,
         NEW db \in Databases(i), NEW k \in DOMAIN db.rows, ~db.rows[k].reversed,
         db.rows[k].kind # "PURCHASE" \/ k = i,
         NEW kind \in RowKinds
  PROVE  Reversed(db, k, kind) \in Databases(i)
<1> DEFINE n    == db.rows[k].sale.points
           minus == -n
           row  == RewardRow(kind, NoValue, 0, minus)
           back == [row EXCEPT !.original = k]
           rs   == TakenBack(db.rows, k, back)
<1>1. /\ db.rows \in Seq(Transaction) /\ db.points \in Int /\ db.earned \in EarnedRows
      /\ Kept(db.rows, db.points) /\ Grows(rows, db.rows, i) /\ NoneEarned(rows, db.rows)
      /\ EarnedNames(db.earned, rows)
      /\ db \in [rows : Seq(Transaction), points : Int, earned : EarnedRows]
  BY DEF Databases
<1>2. n \in Int /\ k \in 1..Len(db.rows) /\ k \in Nat \ {0}
      /\ DOMAIN db.rows = 1..Len(db.rows) /\ Len(db.rows) \in Nat
  BY <1>1, TransactionFields
<1>3. /\ row \in Transaction /\ row.sale.points = -n /\ row.original = 0 /\ ~row.reversed
      /\ row.kind = kind /\ row.source = 0
  <2>1. minus \in Int /\ NoValue \in Named /\ 0 \in Nat
    BY <1>2 DEF Named
  <2> HIDE DEF minus, n
  <2>2. RowFits(row, kind, 0, minus)
    BY <2>1, RowTyped
  <2> HIDE DEF row
  <2> QED BY <2>2 DEF minus, RowFits
<1>4. /\ back \in Transaction /\ back.sale.points = -n /\ back.original = k /\ ~back.reversed
      /\ back.source = 0
  <2> HIDE DEF row, n
  <2> QED BY <1>2, <1>3 DEF Transaction
<1>5. Reversed(db, k, kind) = [db EXCEPT !.rows = rs, !.points = @ - n]
  BY DEF Reversed, RewardRow, TakenBack
<1> DEFINE r == Reversed(db, k, kind)
<1>6. /\ r \in [rows : {rs}, points : {db.points - n}, earned : {db.earned}]
      /\ r.rows = rs /\ r.points = db.points - n /\ r.earned = db.earned
  <2> HIDE DEF rs, n
  <2> QED BY <1>1, <1>5
<1>7. /\ rs \in Seq(Transaction) /\ Len(rs) = Len(db.rows) + 1
      /\ \A j \in DOMAIN db.rows : rs[j] = IF j = k THEN [db.rows[k] EXCEPT !.reversed = TRUE]
                                           ELSE db.rows[j]
      /\ rs[Len(db.rows) + 1] = back
  <2> HIDE DEF rs, back
  <2> QED BY <1>1, <1>4, TakenBackRows DEF rs
<1>8. Kept(rs, db.points - n)
  <2> HIDE DEF back
  <2> QED BY <1>1, <1>4, TakenBackKept
<1> HIDE DEF rs, back, n, r
<1>9. db.rows[k] \in Transaction
  BY <1>1, <1>2
<1>10. [db.rows[k] EXCEPT !.reversed = TRUE].kind = db.rows[k].kind
       /\ [db.rows[k] EXCEPT !.reversed = TRUE].source = db.rows[k].source
  BY <1>9 DEF Transaction
<1>11. DOMAIN rows = 1..Len(rows) /\ Len(rows) \in Nat /\ DOMAIN rs = 1..Len(rs)
  BY <1>7
<1>12. \A j \in DOMAIN rows : j \in DOMAIN db.rows
  BY <1>1, <1>2, <1>11 DEF Grows
<1>13. Grows(rows, rs, i)
  <2>1. Len(rows) <= Len(rs)
    BY <1>1, <1>2, <1>7, <1>11 DEF Grows
  <2>2. ASSUME NEW j \in DOMAIN rows
        PROVE  /\ rs[j].kind = rows[j].kind
               /\ rows[j].kind = "PURCHASE" /\ j # i => rs[j].reversed = rows[j].reversed
    <3>1. CASE j = k
      BY <3>1, <1>1, <1>7, <1>10, <1>12 DEF Grows
    <3>2. CASE j # k
      BY <3>2, <1>1, <1>7, <1>12 DEF Grows
    <3> QED BY <3>1, <3>2
  <2> QED BY <2>1, <2>2 DEF Grows
<1>14. NoneEarned(rows, rs)
  <2> SUFFICES ASSUME NEW j \in DOMAIN rs \ DOMAIN rows PROVE rs[j].source = 0
    BY DEF NoneEarned
  <2>1. CASE j = Len(db.rows) + 1
    BY <2>1, <1>4, <1>7
  <2>2. CASE j # Len(db.rows) + 1
    <3>1. j \in DOMAIN db.rows \ DOMAIN rows
      BY <2>2, <1>2, <1>7, <1>11
    <3> QED BY <3>1, <1>1, <1>7, <1>10 DEF NoneEarned
  <2> QED BY <2>1, <2>2
<1>15. db.points - n \in Int
  BY <1>1, <1>2
<1> QED BY <1>1, <1>6, <1>7, <1>8, <1>13, <1>14, <1>15 DEF Databases, r

\* A payment that stands, or nothing.
IsStanding(rs, p) == p \in DOMAIN rs /\ ~rs[p].reversed /\ rs[p].kind # "PURCHASE"

LEMMA LatestFound ==
  ASSUME NEW rs \in Seq(Transaction), NEW kind \in {"ACHIEVEMENT", "CHALLENGE"}, NEW of, NEW source
  PROVE  LET p == LatestOf(Rewards(rs, kind, of, source)) IN p = 0 \/ IsStanding(rs, p)
<1> DEFINE S == Rewards(rs, kind, of, source)
<1>1. S \in SUBSET (1..Len(rs)) /\ Len(rs) \in Nat
  BY DEF Rewards
<1>2. \A p \in S : IsStanding(rs, p)
  BY DEF Rewards, Standing, IsStanding
<1>3. CASE S = {}
  BY <1>3 DEF LatestOf
<1>4. CASE S # {}
  <2> HIDE DEF S
  <2>1. Max(S) \in S
    BY <1>1, <1>4, LargestIn
  <2> QED BY <2>1, <1>2, <1>4 DEF LatestOf, S
<1> QED BY <1>3, <1>4

LEMMA PaymentFound ==
  ASSUME NEW rs \in Seq(Transaction), NEW kind \in {"ACHIEVEMENT", "CHALLENGE"}, NEW of, NEW source,
         NEW named, IsPayment(rs, named)
  PROVE  LET p == PaymentOf(rs, kind, of, named, source) IN p = 0 \/ IsStanding(rs, p)
<1>1. CASE named \in DOMAIN rs /\ Standing(rs, named)
  BY <1>1 DEF PaymentOf, IsPayment, IsStanding, Standing
<1>2. CASE ~(named \in DOMAIN rs /\ Standing(rs, named))
  BY <1>2, LatestFound DEF PaymentOf
<1> QED BY <1>1, <1>2

LEMMA DatabaseIs ==
  ASSUME NEW i, NEW db \in Databases(i)
  PROVE  /\ db.rows \in Seq(Transaction) /\ db.points \in Int /\ db.earned \in EarnedRows
         /\ Kept(db.rows, db.points)
         /\ Grows(rows, db.rows, i) /\ NoneEarned(rows, db.rows)
         /\ EarnedNames(db.earned, rows)
BY DEF Databases

LEMMA TakeBackStays ==
  ASSUME NEW i, rows \in Seq(Transaction), window \in Nat,
         NEW db \in Databases(i), NEW p, p = 0 \/ IsPayment(db.rows, p)
  PROVE  /\ TakeBack(db, p) \in Databases(i)
         /\ \A k : IsPayment(db.rows, k) => IsPayment(TakeBack(db, p).rows, k)
<1>1. CASE p = 0 \/ ~Standing(db.rows, p)
  BY <1>1 DEF TakeBack
<1>2. CASE ~(p = 0 \/ ~Standing(db.rows, p))
  <2>1. TakeBack(db, p) = Reversed(db, p, "CHALLENGE")
    BY <1>2 DEF TakeBack
  <2>2. p \in DOMAIN db.rows /\ ~db.rows[p].reversed /\ db.rows[p].kind # "PURCHASE"
    BY <1>2 DEF Standing, IsPayment
  <2>3. Reversed(db, p, "CHALLENGE") \in Databases(i)
    BY <2>2, ReversedStays DEF RowKinds
  <2>4. ASSUME NEW k, IsPayment(db.rows, k)
        PROVE  IsPayment(Reversed(db, p, "CHALLENGE").rows, k)
    <3> DEFINE s == [Nothing EXCEPT !.points = -db.rows[p].sale.points]
               back == [Row("CHALLENGE", NoValue, 0, s) EXCEPT !.original = p]
               qs == [db.rows EXCEPT ![p].reversed = TRUE]
    <3>1. /\ db.rows \in Seq(Transaction)
          /\ db \in [rows : Seq(Transaction), points : Int, earned : EarnedRows]
      BY DEF Databases
    <3>2. Reversed(db, p, "CHALLENGE").rows = Append(qs, back)
      <4> HIDE DEF qs, back
      <4>1. Reversed(db, p, "CHALLENGE") = [db EXCEPT !.rows = Append(qs, back),
                                                      !.points = @ - db.rows[p].sale.points]
        BY DEF Reversed, qs, back
      <4> QED BY <4>1, <3>1
    <3>3. k \in 1..Len(db.rows) /\ db.rows[k].kind # "PURCHASE" /\ p \in 1..Len(db.rows)
          /\ \A j \in 1..Len(db.rows) : db.rows[j] \in Transaction
      BY <3>1, <2>2, <2>4 DEF IsPayment
    <3>4. qs[k].kind = db.rows[k].kind /\ Len(qs) = Len(db.rows) /\ DOMAIN qs = DOMAIN db.rows
      <4>1. db.rows[p] \in Transaction
        BY <3>3
      <4>2. [db.rows[p] EXCEPT !.reversed = TRUE].kind = db.rows[p].kind
        BY <4>1 DEF Transaction
      <4>3. qs[k] = IF k = p THEN [db.rows[p] EXCEPT !.reversed = TRUE] ELSE db.rows[k]
        BY <3>1, <3>3
      <4> QED BY <3>1, <3>3, <4>2, <4>3
    <3>5. Append(qs, back)[k] = qs[k] /\ k \in DOMAIN Append(qs, back)
      <4>1. qs \in Seq(Transaction)
        <5>1. [db.rows[p] EXCEPT !.reversed = TRUE] \in Transaction
          BY <3>3 DEF Transaction
        <5> QED BY <3>1, <3>3, <5>1
      <4> HIDE DEF back, qs
      <4> QED BY <3>3, <3>4, <4>1
    <3> HIDE DEF qs, back
    <3> QED BY <3>2, <3>3, <3>4, <3>5 DEF IsPayment
  <2> QED BY <2>1, <2>3, <2>4
<1> QED BY <1>1, <1>2

LEMMA RevokeStays ==
  ASSUME NEW i, rows \in Seq(Transaction), window \in Nat, NEW refunded,
         NEW db \in Databases(i), NEW b \in DOMAIN Badge, db.earned[b] # NoValue
  PROVE  RevokeBadge(db, b, refunded) \in Databases(i)
<1> DEFINE near == PaymentOf(db.rows, "ACHIEVEMENT", b, db.earned[b].reward, refunded)
           paying == IF near # 0 THEN near ELSE LatestOf(Rewards(db.rows, "ACHIEVEMENT", b, 0))
           gone == [db EXCEPT !.earned[b] = NoValue]
<1>1. IsPayment(db.rows, db.earned[b].reward)
  BY DatabaseIs, PaymentStays DEF EarnedNames
<1>2. paying = 0 \/ IsStanding(db.rows, paying)
  <2>1. near = 0 \/ IsStanding(db.rows, near)
    BY <1>1, DatabaseIs, PaymentFound
  <2>2. LET p == LatestOf(Rewards(db.rows, "ACHIEVEMENT", b, 0)) IN p = 0 \/ IsStanding(db.rows, p)
    BY DatabaseIs, LatestFound
  <2> HIDE DEF near
  <2> QED BY <2>1, <2>2
<1>3. gone \in Databases(i) /\ gone.rows = db.rows
  <2>1. db \in [rows : Seq(Transaction), points : Int, earned : EarnedRows]
    BY DEF Databases
  <2>2. [db.earned EXCEPT ![b] = NoValue] \in EarnedRows
        /\ EarnedNames([db.earned EXCEPT ![b] = NoValue], rows)
    BY DatabaseIs DEF EarnedRows, EarnedNames
  <2> DEFINE es == [db.earned EXCEPT ![b] = NoValue]
  <2>3. gone = [db EXCEPT !.earned = es]
    OBVIOUS
  <2> HIDE DEF es, gone
  <2>4. gone \in [rows : Seq(Transaction), points : Int, earned : EarnedRows]
        /\ gone.rows = db.rows /\ gone.points = db.points /\ gone.earned = es
    BY <2>1, <2>2, <2>3 DEF es
  <2> QED BY <2>2, <2>4, DatabaseIs DEF Databases, es
<1>4. CASE paying = 0
  BY <1>3, <1>4 DEF RevokeBadge
<1>5. CASE paying # 0
  <2>1. RevokeBadge(db, b, refunded) = Reversed(gone, paying, "ACHIEVEMENT")
    BY <1>5 DEF RevokeBadge
  <2> HIDE DEF paying, gone
  <2> QED BY <2>1, <1>2, <1>3, <1>5, ReversedStays DEF IsStanding, RowKinds
<1> QED BY <1>4, <1>5

LEMMA BadgesStay ==
  ASSUME NEW i, rows \in Seq(Transaction), window \in Nat, NEW refunded,
         NEW db \in Databases(i)
  PROVE  ReconcileBadges(db, refunded) \in Databases(i)
<1> DEFINE D == Databases(i)
           n == Len(Badge)
           next(x) == IF Unreached(x) = {} THEN x ELSE RevokeBadge(x, Max(Unreached(x)), refunded)
           step == [k \in 1..n |-> [x \in D |-> next(x)]]
           w == CHOOSE x : x = [k \in 0..n |->
                  IF k = 0 THEN db
                  ELSE IF Unreached(x[k - 1]) = {} THEN x[k - 1]
                  ELSE RevokeBadge(x[k - 1], Max(Unreached(x[k - 1])), refunded)]
<1>1. n \in Nat
  BY ConstantFacts
<1>2. \A x \in D : next(x) \in D
  <2> SUFFICES ASSUME NEW x \in D PROVE next(x) \in D
    OBVIOUS
  <2>1. CASE Unreached(x) = {}
    BY <2>1
  <2>2. CASE Unreached(x) # {}
    <3>1. Unreached(x) \in SUBSET (1..n)
      BY ConstantFacts DEF Unreached
    <3>2. Max(Unreached(x)) \in Unreached(x)
      BY <1>1, <2>2, <3>1, LargestIn
    <3>3. Max(Unreached(x)) \in DOMAIN Badge /\ x.earned[Max(Unreached(x))] # NoValue
      BY <3>2 DEF Unreached
    <3> QED BY <2>2, <3>3, RevokeStays
  <2> QED BY <2>1, <2>2
<1>3. step \in [1..n -> [D -> D]]
  <2> HIDE DEF D, n, next
  <2> QED BY <1>2
<1>4. PICK u \in [0..n -> D] : Steps(u, db, step, n)
  <2> HIDE DEF step, D, n
  <2> QED BY <1>1, <1>3, LoopExists DEF D
<1>5. u = [k \in 0..n |->
             IF k = 0 THEN db
             ELSE IF Unreached(u[k - 1]) = {} THEN u[k - 1]
             ELSE RevokeBadge(u[k - 1], Max(Unreached(u[k - 1])), refunded)]
  <2>1. \A k \in 1..n : step[k][u[k - 1]] = next(u[k - 1])
    <3>1. \A k \in 1..n : u[k - 1] \in D
      BY <1>1
    <3> HIDE DEF D, n, next
    <3> QED BY <3>1
  <2>2. \A k \in 0..n : k # 0 => k \in 1..n
    BY <1>1
  <2> HIDE DEF step, n
  <2> QED BY <1>4, <2>1, <2>2 DEF Steps
<1>6. w = [k \in 0..n |->
             IF k = 0 THEN db
             ELSE IF Unreached(w[k - 1]) = {} THEN w[k - 1]
             ELSE RevokeBadge(w[k - 1], Max(Unreached(w[k - 1])), refunded)]
  BY <1>5
<1>7. w[n] \in D
  <2>0. w[0] = db /\ \A k \in 1..n : w[k] = next(w[k - 1])
    <3> HIDE DEF w, n
    <3>1. \A k \in 0..n : w[k] =
             IF k = 0 THEN db
             ELSE IF Unreached(w[k - 1]) = {} THEN w[k - 1]
             ELSE RevokeBadge(w[k - 1], Max(Unreached(w[k - 1])), refunded)
      BY <1>6
    <3>2. 0 \in 0..n /\ \A k \in 1..n : k \in 0..n /\ k # 0
      BY <1>1
    <3> QED BY <3>1, <3>2
  <2> HIDE DEF w, n, next, D
  <2>1. w[0] \in D
    BY <2>0 DEF D
  <2>2. ASSUME NEW k \in 1..n, w[k - 1] \in D PROVE w[k] \in D
    BY <2>0, <2>2, <1>2
  <2> QED BY <1>1, <2>1, <2>2, LoopStays
<1> QED BY <1>7 DEF ReconcileBadges

\* The entries of a history that name payments.
Names(rs) == {e \in Entry : IsPayment(rs, e.reward)}

LEMMA NamesStay ==
  ASSUME NEW i, rows \in Seq(Transaction), NEW db \in Databases(i), NEW e \in Names(rows), NEW m
  PROVE  Payment(db.rows, m, e) = 0 \/ IsPayment(db.rows, Payment(db.rows, m, e))
<1>1. IsPayment(db.rows, e.reward)
  BY DatabaseIs, PaymentStays DEF Names
<1>2. LET p == Payment(db.rows, m, e) IN p = 0 \/ IsStanding(db.rows, p)
  BY <1>1, DatabaseIs, PaymentFound DEF Payment
<1> QED BY <1>2 DEF IsStanding, IsPayment

\* The payments of some completions are taken back, each looked for in its turn.
LEMMA InTurnStays ==
  ASSUME NEW i, rows \in Seq(Transaction), window \in Nat, NEW db \in Databases(i), NEW m,
         NEW gone \in Seq(Names(rows))
  PROVE  TakeInTurn(db, m, gone) \in Databases(i)
<1> DEFINE D == Databases(i)
           n == Len(gone)
           next(x, k) == TakeBack(x, Payment(x.rows, m, gone[k]))
           step == [k \in 1..n |-> [x \in D |-> next(x, k)]]
           w == CHOOSE x : x = [k \in 0..n |->
                 IF k = 0 THEN db
                 ELSE TakeBack(x[k - 1], Payment(x[k - 1].rows, m, gone[k]))]
<1>1. n \in Nat /\ db \in D
  OBVIOUS
<1>2. \A x \in D, k \in 1..n : next(x, k) \in D
  <2> SUFFICES ASSUME NEW x \in D, NEW k \in 1..n PROVE next(x, k) \in D
    OBVIOUS
  <2>1. gone[k] \in Names(rows)
    OBVIOUS
  <2>2. Payment(x.rows, m, gone[k]) = 0 \/ IsPayment(x.rows, Payment(x.rows, m, gone[k]))
    BY <2>1, NamesStay
  <2> QED BY <2>2, TakeBackStays
<1>3. step \in [1..n -> [D -> D]]
  <2> HIDE DEF D, n, next
  <2> QED BY <1>2
<1>4. PICK u \in [0..n -> D] : Steps(u, db, step, n)
  <2> HIDE DEF step, D, n
  <2> QED BY <1>1, <1>3, LoopExists
<1>5. u = [k \in 0..n |->
      IF k = 0 THEN db
      ELSE TakeBack(u[k - 1], Payment(u[k - 1].rows, m, gone[k]))]
  <2>1. \A k \in 1..n : step[k][u[k - 1]] = next(u[k - 1], k)
    <3>1. \A k \in 1..n : u[k - 1] \in D
      BY <1>1
    <3> HIDE DEF D, n, next
    <3> QED BY <3>1
  <2>2. \A k \in 0..n : k # 0 => k \in 1..n
    BY <1>1
  <2> HIDE DEF step, n
  <2> QED BY <1>4, <2>1, <2>2 DEF Steps
<1>6. w = [k \in 0..n |->
      IF k = 0 THEN db
      ELSE TakeBack(w[k - 1], Payment(w[k - 1].rows, m, gone[k]))]
  BY <1>5
<1>7. w[n] \in D
  <2>0. w[0] = db /\ \A k \in 1..n : w[k] = next(w[k - 1], k)
    <3> HIDE DEF w, n
    <3>1. \A k \in 0..n : w[k] =
              IF k = 0 THEN db
              ELSE TakeBack(w[k - 1], Payment(w[k - 1].rows, m, gone[k]))
      BY <1>6
    <3>2. 0 \in 0..n /\ \A k \in 1..n : k \in 0..n /\ k # 0
      BY <1>1
    <3> QED BY <3>1, <3>2
  <2> HIDE DEF w, n, next, D
  <2>1. w[0] \in D
    BY <2>0, <1>1
  <2>2. ASSUME NEW k \in 1..n, w[k - 1] \in D PROVE w[k] \in D
    BY <2>0, <2>2, <1>2
  <2> QED BY <1>1, <2>1, <2>2, LoopStays
<1>8. TakeInTurn(db, m, gone) = w[n]
  BY DEF TakeInTurn
<1> HIDE DEF w
<1> QED BY <1>7, <1>8

\* The same, all of them looked for first.
LEMMA NamedStays ==
  ASSUME NEW i, rows \in Seq(Transaction), window \in Nat, NEW db \in Databases(i), NEW m,
         NEW gone \in Seq(Names(rows))
  PROVE  TakeNamed(db, m, gone) \in Databases(i)
<1> DEFINE D == {x \in Databases(i) : \A k : IsPayment(db.rows, k) => IsPayment(x.rows, k)}
           n == Len(gone)
           next(x, k) == TakeBack(x, Payment(db.rows, m, gone[k]))
           step == [k \in 1..n |-> [x \in D |-> next(x, k)]]
           w == CHOOSE x : x = [k \in 0..n |->
                 IF k = 0 THEN db
                 ELSE TakeBack(x[k - 1], Payment(db.rows, m, gone[k]))]
<1>1. n \in Nat /\ db \in D
  OBVIOUS
<1>2. \A x \in D, k \in 1..n : next(x, k) \in D
  <2> SUFFICES ASSUME NEW x \in D, NEW k \in 1..n PROVE next(x, k) \in D
    OBVIOUS
  <2>1. gone[k] \in Names(rows)
    OBVIOUS
  <2>2. Payment(db.rows, m, gone[k]) = 0 \/ IsPayment(x.rows, Payment(db.rows, m, gone[k]))
    BY <2>1, NamesStay
  <2>3. /\ next(x, k) \in Databases(i)
        /\ \A j : IsPayment(x.rows, j) => IsPayment(next(x, k).rows, j)
    BY <2>2, TakeBackStays
  <2> HIDE DEF next
  <2> QED BY <2>3
<1>3. step \in [1..n -> [D -> D]]
  <2> HIDE DEF D, n, next
  <2> QED BY <1>2
<1>4. PICK u \in [0..n -> D] : Steps(u, db, step, n)
  <2> HIDE DEF step, D, n
  <2> QED BY <1>1, <1>3, LoopExists
<1>5. u = [k \in 0..n |->
      IF k = 0 THEN db
      ELSE TakeBack(u[k - 1], Payment(db.rows, m, gone[k]))]
  <2>1. \A k \in 1..n : step[k][u[k - 1]] = next(u[k - 1], k)
    <3>1. \A k \in 1..n : u[k - 1] \in D
      BY <1>1
    <3> HIDE DEF D, n, next
    <3> QED BY <3>1
  <2>2. \A k \in 0..n : k # 0 => k \in 1..n
    BY <1>1
  <2> HIDE DEF step, n
  <2> QED BY <1>4, <2>1, <2>2 DEF Steps
<1>6. w = [k \in 0..n |->
      IF k = 0 THEN db
      ELSE TakeBack(w[k - 1], Payment(db.rows, m, gone[k]))]
  BY <1>5
<1>7. w[n] \in D
  <2>0. w[0] = db /\ \A k \in 1..n : w[k] = next(w[k - 1], k)
    <3> HIDE DEF w, n
    <3>1. \A k \in 0..n : w[k] =
              IF k = 0 THEN db
              ELSE TakeBack(w[k - 1], Payment(db.rows, m, gone[k]))
      BY <1>6
    <3>2. 0 \in 0..n /\ \A k \in 1..n : k \in 0..n /\ k # 0
      BY <1>1
    <3> QED BY <3>1, <3>2
  <2> HIDE DEF w, n, next, D
  <2>1. w[0] \in D
    BY <2>0, <1>1
  <2>2. ASSUME NEW k \in 1..n, w[k - 1] \in D PROVE w[k] \in D
    BY <2>0, <2>2, <1>2
  <2> QED BY <1>1, <2>1, <2>2, LoopStays
<1>8. TakeNamed(db, m, gone) = w[n]
  BY DEF TakeNamed
<1> HIDE DEF w
<1> QED BY <1>7, <1>8

\* The latest payments of a challenge are taken back.
LEMMA LatestStays ==
  ASSUME NEW i, rows \in Seq(Transaction), window \in Nat, NEW db \in Databases(i), NEW m,
         NEW number \in Nat
  PROVE  TakeLatest(db, m, number) \in Databases(i)
<1> DEFINE D == Databases(i)
           n == number
           next(x, k) == TakeBack(x, LatestOf(Rewards(x.rows, "CHALLENGE", m, 0)))
           step == [k \in 1..n |-> [x \in D |-> next(x, k)]]
           w == CHOOSE x : x = [k \in 0..n |->
                 IF k = 0 THEN db
                 ELSE TakeBack(x[k - 1], LatestOf(Rewards(x[k - 1].rows, "CHALLENGE", m, 0)))]
<1>1. n \in Nat /\ db \in D
  OBVIOUS
<1>2. \A x \in D, k \in 1..n : next(x, k) \in D
  <2> SUFFICES ASSUME NEW x \in D, NEW k \in 1..n PROVE next(x, k) \in D
    OBVIOUS
  <2>1. LET p == LatestOf(Rewards(x.rows, "CHALLENGE", m, 0)) IN p = 0 \/ IsStanding(x.rows, p)
    BY DatabaseIs, LatestFound
  <2> QED BY <2>1, TakeBackStays DEF IsStanding, IsPayment
<1>3. step \in [1..n -> [D -> D]]
  <2> HIDE DEF D, n, next
  <2> QED BY <1>2
<1>4. PICK u \in [0..n -> D] : Steps(u, db, step, n)
  <2> HIDE DEF step, D, n
  <2> QED BY <1>1, <1>3, LoopExists
<1>5. u = [k \in 0..n |->
      IF k = 0 THEN db
      ELSE TakeBack(u[k - 1], LatestOf(Rewards(u[k - 1].rows, "CHALLENGE", m, 0)))]
  <2>1. \A k \in 1..n : step[k][u[k - 1]] = next(u[k - 1], k)
    <3>1. \A k \in 1..n : u[k - 1] \in D
      BY <1>1
    <3> HIDE DEF D, n, next
    <3> QED BY <3>1
  <2>2. \A k \in 0..n : k # 0 => k \in 1..n
    BY <1>1
  <2> HIDE DEF step, n
  <2> QED BY <1>4, <2>1, <2>2 DEF Steps
<1>6. w = [k \in 0..n |->
      IF k = 0 THEN db
      ELSE TakeBack(w[k - 1], LatestOf(Rewards(w[k - 1].rows, "CHALLENGE", m, 0)))]
  BY <1>5
<1>7. w[n] \in D
  <2>0. w[0] = db /\ \A k \in 1..n : w[k] = next(w[k - 1], k)
    <3> HIDE DEF w, n
    <3>1. \A k \in 0..n : w[k] =
              IF k = 0 THEN db
              ELSE TakeBack(w[k - 1], LatestOf(Rewards(w[k - 1].rows, "CHALLENGE", m, 0)))
      BY <1>6
    <3>2. 0 \in 0..n /\ \A k \in 1..n : k \in 0..n /\ k # 0
      BY <1>1
    <3> QED BY <3>1, <3>2
  <2> HIDE DEF w, n, next, D
  <2>1. w[0] \in D
    BY <2>0, <1>1
  <2>2. ASSUME NEW k \in 1..n, w[k - 1] \in D PROVE w[k] \in D
    BY <2>0, <2>2, <1>2
  <2> QED BY <1>1, <2>1, <2>2, LoopStays
<1>8. TakeLatest(db, m, number) = w[n]
  BY DEF TakeLatest
<1> HIDE DEF w
<1> QED BY <1>7, <1>8

-----------------------------------------------------------------------------
(* The reconciliation of the challenges.                                   *)

LEMMA HistoryIs ==
  ASSUME NEW rs, NEW entries \in Seq(Entry)
  PROVE  HistoryNames(entries, rs) <=> entries \in Seq(Names(rs))
<1>1. Len(entries) \in Nat /\ DOMAIN entries = 1..Len(entries)
      /\ \A n \in 1..Len(entries) : entries[n] \in Entry
  OBVIOUS
<1>2. ASSUME HistoryNames(entries, rs) PROVE entries \in Seq(Names(rs))
  <2>1. \A n \in 1..Len(entries) : entries[n] \in Names(rs)
    BY <1>1, <1>2 DEF HistoryNames, Names
  <2> QED BY <1>1, <2>1
<1>3. ASSUME entries \in Seq(Names(rs)) PROVE HistoryNames(entries, rs)
  <2>1. \A n \in 1..Len(entries) : entries[n] \in Names(rs)
    BY <1>3
  <2> QED BY <1>1, <2>1 DEF HistoryNames, Names
<1> QED BY <1>2, <1>3

LEMMA NamesAreEntries ==
  ASSUME NEW rs, NEW entries \in Seq(Names(rs))
  PROVE  /\ entries \in Seq(Entry)
         /\ \A n \in 1..Len(entries) : entries[n].window \in Nat
<1>1. Names(rs) \subseteq Entry
  BY DEF Names
<1>2. entries \in Seq(Entry)
  BY <1>1, SeqMonotonic
<1>3. \A n \in 1..Len(entries) : entries[n] \in Entry
  BY <1>2
<1> QED BY <1>2, <1>3 DEF Entry

LEMMA MetricFacts ==
  ASSUME NEW rs \in Seq(Transaction), NEW m \in DOMAIN Challenge, NEW w
  PROVE  MetricOf(rs, m) \in Int /\ MetricIn(rs, m, w) \in Int
BY ConstantFacts, SumOverInt DEF MetricOf, MetricIn

LEMMA RecurringStays ==
  ASSUME NEW i, rows \in Seq(Transaction), window \in Nat, NEW db \in Databases(i),
         NEW m \in DOMAIN Challenge, NEW row \in CourseRow,
         row.history \in Seq(Names(rows)), NEW refunded
  PROVE  LET one == ReconcileRecurring(db, m, row, refunded)
         IN  /\ one.db \in Databases(i)
             /\ one.row \in CourseRow /\ one.row.history \in Seq(Names(rows))
<1> DEFINE gone == Among(row.history, {entry \in ToSet(row.history) :
                     /\ entry.source = refunded
                     /\ MetricIn(db.rows, m, entry.window) < Challenge[m].need})
           left == Without(row.history, gone)
           here == \E k \in DOMAIN left : left[k].window = window
           after == [progress |-> MetricIn(db.rows, m, window), completed |-> here,
                     on |-> IF here THEN window ELSE NoValue, times |-> Len(left), history |-> left]
<1>1. gone \in Seq(Names(rows))
  BY AmongThose
<1>2. left \in Seq(Names(rows))
  <2> HIDE DEF gone
  <2> QED BY WithoutThose
<1>3. TakeInTurn(db, m, gone) \in Databases(i)
  <2> HIDE DEF gone
  <2> QED BY <1>1, InTurnStays
<1>4. ReconcileRecurring(db, m, row, refunded) = [db |-> TakeInTurn(db, m, gone), row |-> after]
  BY DEF ReconcileRecurring
<1> HIDE DEF gone, left
<1>5. left \in Seq(Entry) /\ Len(left) \in Nat
  BY <1>2, NamesAreEntries
<1>6. MetricIn(db.rows, m, window) \in Int
  BY DatabaseIs, MetricFacts
<1>7. after \in CourseRow /\ after.history = left
  <2>1. here \in BOOLEAN /\ (IF here THEN window ELSE NoValue) \in Nat \cup {NoValue}
    OBVIOUS
  <2> HIDE DEF here
  <2> QED BY <2>1, <1>5, <1>6 DEF CourseRow
<1> HIDE DEF after
<1> QED BY <1>2, <1>3, <1>4, <1>7

LEMMA MilestonesStay ==
  ASSUME NEW i, rows \in Seq(Transaction), window \in Nat, NEW db \in Databases(i),
         NEW m \in DOMAIN Challenge, NEW row \in CourseRow,
         row.history \in Seq(Names(rows)), NEW refunded
  PROVE  LET one == ReconcileMilestones(db, m, row, refunded)
         IN  /\ one.db \in Databases(i)
             /\ one.row \in CourseRow /\ one.row.history \in Seq(Names(rows))
<1> DEFINE value    == MetricOf(db.rows, m)
           expected == AtMost(value \div Challenge[m].need, Challenge[m].max)
           excess   == Greatest(0, row.times - expected)
           latest   == Reverse(row.history)
           byIt     == {entry \in ToSet(latest) : entry.source = refunded}
           order    == Among(latest, byIt) \o Among(latest, ToSet(latest) \ byIt)
           gone     == SubSeq(order, 1, Least(excess, Len(order)))
           found    == {n \in DOMAIN gone : Payment(db.rows, m, gone[n]) # 0}
           named    == {Payment(db.rows, m, gone[n]) : n \in found}
           further  == IF Cardinality(found) >= excess THEN 0 ELSE excess - Cardinality(named)
           left     == Without(row.history, gone)
           on       == LastOf(left, IF expected > 0 THEN row.on ELSE NoValue)
           after    == [progress |-> value, completed |-> expected > 0, on |-> on,
                        times |-> expected, history |-> left]
<1>1. value \in Int
  BY DatabaseIs, MetricFacts
<1>2. expected \in Int
  <2>1. Challenge[m].need \in Nat \ {0} /\ Challenge[m].max \in Nat \cup {NoValue}
    BY ConstantFacts
  <2>2. value \div Challenge[m].need \in Int
    <3> HIDE DEF value
    <3> QED BY <1>1, <2>1
  <2> DEFINE q == value \div Challenge[m].need
             x == Challenge[m].max
  <2>3. q \in Int /\ x \in Nat \cup {NoValue}
    BY <2>1, <2>2
  <2> HIDE DEF q, x
  <2>4. AtMost(q, x) \in Int
    BY <2>3 DEF AtMost
  <2> QED BY <2>4 DEF q, x
<1>3. excess \in Nat
  <2>1. row.times \in Int
    BY DEF CourseRow
  <2> HIDE DEF expected
  <2> QED BY <1>2, <2>1 DEF Greatest
<1>4. order \in Seq(Names(rows))
  <2>1. latest \in Seq(Names(rows))
    BY ReverseThose
  <2> HIDE DEF latest
  <2>2. Among(latest, byIt) \in Seq(Names(rows))
        /\ Among(latest, ToSet(latest) \ byIt) \in Seq(Names(rows))
    BY <2>1, AmongThose
  <2> QED BY <2>2, ConcatProperties
<1>5. gone \in Seq(Names(rows))
  <2> HIDE DEF order, excess
  <2>1. Len(order) \in Nat
    BY <1>4
  <2> DEFINE z == Least(excess, Len(order))
  <2>2. z \in Nat /\ z <= Len(order)
    BY <2>1, <1>3 DEF Least
  <2> HIDE DEF z
  <2>3. \A n \in 1..z : order[n] \in Names(rows)
    BY <2>1, <2>2, <1>4
  <2>4. SubSeq(order, 1, z) \in Seq(Names(rows))
    BY <2>2, <2>3, SubSeqProperties
  <2> QED BY <2>4 DEF z
<1>6. further \in Nat
  <2> HIDE DEF gone, excess
  <2>1. IsFiniteSet(DOMAIN gone)
    <3>1. DOMAIN gone = 1..Len(gone) /\ Len(gone) \in Nat
      BY <1>5
    <3> QED BY <3>1, FS_Interval
  <2>2. IsFiniteSet(found)
    BY <2>1, FS_Subset
  <2> DEFINE f == [n \in found |-> Payment(db.rows, m, gone[n])]
  <2>3. f \in Surjection(found, named)
    <3>1. f \in [found -> named] /\ \A t \in named : \E s \in found : f[s] = t
      <4> HIDE DEF found
      <4> QED OBVIOUS
    <3> HIDE DEF f, found, named
    <3> QED BY <3>1 DEF Surjection
  <2> HIDE DEF f, found, named
  <2>4. IsFiniteSet(named) /\ Cardinality(named) <= Cardinality(found)
    BY <2>2, <2>3, FS_Surjection
  <2>5. Cardinality(found) \in Nat /\ Cardinality(named) \in Nat
    BY <2>2, <2>4, FS_CardinalityType
  <2> QED BY <2>4, <2>5, <1>3
<1>7. left \in Seq(Names(rows))
  <2> HIDE DEF gone
  <2> QED BY WithoutThose
<1>8. TakeNamed(db, m, gone) \in Databases(i)
  <2> HIDE DEF gone
  <2> QED BY <1>5, NamedStays
<1>9. TakeLatest(TakeNamed(db, m, gone), m, further) \in Databases(i)
  <2> HIDE DEF gone, further
  <2> QED BY <1>6, <1>8, LatestStays
<1>10. ReconcileMilestones(db, m, row, refunded)
         = [db |-> TakeLatest(TakeNamed(db, m, gone), m, further), row |-> after]
  BY DEF ReconcileMilestones
<1> HIDE DEF gone, further, left, expected, value
<1>11. left \in Seq(Entry) /\ Len(left) \in Nat
       /\ \A n \in 1..Len(left) : left[n].window \in Nat
  BY <1>7, NamesAreEntries
<1>12. on \in Nat \cup {NoValue}
  <2>1. row.on \in Nat \cup {NoValue}
    BY DEF CourseRow
  <2>2. CASE left = <<>>
    BY <2>1, <2>2 DEF LastOf
  <2>3. CASE left # <<>>
    <3>1. Len(left) \in 1..Len(left)
      BY <1>11, <2>3
    <3>2. on = left[Len(left)].window
      BY <2>3 DEF LastOf, Last
    <3> QED BY <1>11, <3>1, <3>2
  <2> QED BY <2>2, <2>3
<1>13. after \in CourseRow /\ after.history = left
  <2>1. (expected > 0) \in BOOLEAN
    OBVIOUS
  <2> HIDE DEF on
  <2> QED BY <2>1, <1>1, <1>2, <1>11, <1>12 DEF CourseRow
<1> HIDE DEF after
<1> QED BY <1>7, <1>9, <1>10, <1>13

Outcomes(i) == {a \in [db : Databases(i), course : CourseRows] : CourseNames(a.course, rows)}

LEMMA ChallengeStays ==
  ASSUME NEW i, rows \in Seq(Transaction), window \in Nat, NEW refunded,
         NEW acc \in Outcomes(i), NEW m,
         NEW read \in CourseRows, CourseNames(read, rows)
  PROVE  ReconcileChallenge(acc, m, read, refunded) \in Outcomes(i)
<1>1. DOMAIN read = DOMAIN Challenge
  BY DEF CourseRows
<1>2. CASE m \notin DOMAIN read \/ read[m] = NoValue
  BY <1>2 DEF ReconcileChallenge
<1>3. CASE ~(m \notin DOMAIN read \/ read[m] = NoValue)
  <2>1. m \in DOMAIN Challenge /\ read[m] \in CourseRow /\ HistoryNames(read[m].history, rows)
    BY <1>1, <1>3 DEF CourseRows, CourseNames
  <2>2. read[m].history \in Seq(Names(rows))
    <3>1. read[m].history \in Seq(Entry)
      BY <2>1 DEF CourseRow
    <3> QED BY <2>1, <3>1, HistoryIs
  <2>3. acc.db \in Databases(i) /\ acc.course \in CourseRows /\ CourseNames(acc.course, rows)
    BY DEF Outcomes
  <2> DEFINE one == Reconciled(acc.db, m, read[m], refunded)
  <2>4. /\ one.db \in Databases(i)
        /\ one.row \in CourseRow /\ one.row.history \in Seq(Names(rows))
    <3>1. CASE Challenge[m].recurring
      <4>1. one = ReconcileRecurring(acc.db, m, read[m], refunded)
        BY <3>1 DEF Reconciled
      <4> HIDE DEF one
      <4> QED BY <4>1, <2>1, <2>2, <2>3, RecurringStays
    <3>2. CASE ~Challenge[m].recurring
      <4>1. one = ReconcileMilestones(acc.db, m, read[m], refunded)
        BY <3>2 DEF Reconciled
      <4> HIDE DEF one
      <4> QED BY <4>1, <2>1, <2>2, <2>3, MilestonesStay
    <3> QED BY <3>1, <3>2
  <2>5. ReconcileChallenge(acc, m, read, refunded)
          = [db |-> one.db, course |-> [acc.course EXCEPT ![m] = one.row]]
    BY <1>3 DEF ReconcileChallenge
  <2> HIDE DEF one
  <2>6. HistoryNames(one.row.history, rows)
    <3>1. one.row.history \in Seq(Entry)
      BY <2>4 DEF CourseRow
    <3> QED BY <2>4, <3>1, HistoryIs
  <2>7. [acc.course EXCEPT ![m] = one.row] \in CourseRows
        /\ CourseNames([acc.course EXCEPT ![m] = one.row], rows)
    BY <2>1, <2>3, <2>4, <2>6 DEF CourseRows, CourseNames
  <2> QED BY <2>4, <2>5, <2>7 DEF Outcomes
<1> QED BY <1>2, <1>3

LEMMA ChallengesStay ==
  ASSUME NEW i, rows \in Seq(Transaction), window \in Nat, NEW refunded,
         NEW db \in Databases(i), NEW read \in CourseRows, CourseNames(read, rows),
         course \in CourseRows, CourseNames(course, rows)
  PROVE  ReconcileChallenges(db, read, refunded) \in Outcomes(i)
<1> DEFINE next(acc, m) == ReconcileChallenge(acc, m, read, refunded)
           a == [db |-> db, course |-> course]
           b == next(a, "points")
           c == next(b, "visits")
           e == next(c, "spend")
           f == next(e, "items")
<1>1. a \in Outcomes(i)
  BY DEF Outcomes
<1>2. ReconcileChallenges(db, read, refunded) = f
  BY DEF ReconcileChallenges
<1> HIDE DEF a, b, c, e, f
<1>3. b \in Outcomes(i)
  BY <1>1, ChallengeStays DEF b
<1>4. c \in Outcomes(i)
  BY <1>3, ChallengeStays DEF c
<1>5. e \in Outcomes(i)
  BY <1>4, ChallengeStays DEF e
<1>6. f \in Outcomes(i)
  BY <1>5, ChallengeStays DEF f
<1> QED BY <1>2, <1>6

-----------------------------------------------------------------------------
(* What a step leaves alone still fits.                                    *)

LEMMA NamesStillFit ==
  ASSUME NEW rs \in Seq(Transaction), NEW qs \in Seq(Transaction), NEW i, Grows(rs, qs, i)
  PROVE  /\ \A es : EarnedNames(es, rs) => EarnedNames(es, qs)
         /\ \A cs : CourseNames(cs, rs) => CourseNames(cs, qs)
BY PaymentStays DEF EarnedNames, CourseNames, HistoryNames

LEMMA JobStillFits ==
  ASSUME NEW rs \in Seq(Transaction), NEW qs \in Seq(Transaction), NEW i, Grows(rs, qs, i),
         NEW doing, JobFits(doing, rs),
         doing.at \in Locking => doing.source # i,
         doing.at = "refund" => ~qs[doing.source].reversed
  PROVE  JobFits(doing, qs)
<1>1. DOMAIN rs = 1..Len(rs) /\ DOMAIN qs = 1..Len(qs) /\ Len(rs) \in Nat /\ Len(qs) \in Nat
  OBVIOUS
<1>2. \A k \in DOMAIN rs : k \in DOMAIN qs
  BY <1>1 DEF Grows
<1>3. doing.at = "refund" => CourseNames(doing.seen, qs)
  BY NamesStillFit DEF JobFits
<1>4. doing.at \in Locking => ~qs[doing.source].reversed
  <2> SUFFICES ASSUME doing.at \in {"look", "pay", "write"} PROVE ~qs[doing.source].reversed
    BY DEF Locking
  <2>1. doing.source \in DOMAIN rs /\ rs[doing.source].kind = "PURCHASE" /\ ~rs[doing.source].reversed
        /\ doing.source # i
    BY DEF JobFits, Locking
  <2> QED BY <2>1 DEF Grows
<1>5. doing.at \notin {"idle", "refund"} => qs[doing.source].kind = "PURCHASE"
  BY DEF JobFits, Grows
<1> QED BY <1>2, <1>3, <1>4, <1>5 DEF JobFits

LEMMA ApartBoth ==
  ASSUME NEW doing, NEW other, Apart(doing, other)
  PROVE  Apart(other, doing)
BY DEF Apart

\* Who holds nothing is apart from everybody.
LEMMA FreeApart ==
  ASSUME NEW work, work.at \notin Locking, work.paid = <<>>, NEW other
  PROVE  Apart(work, other)
BY DEF Apart, HoldsPoints, Locking

LEMMA DesksAfter ==
  ASSUME desk \in [Desks -> DeskJob], DesksDiffer, NEW d \in Desks, NEW work \in DeskJob,
         Sets(d, work), JobFits(work, rows'),
         \A o \in Desks \ {d} : Apart(work, desk[o]) /\ JobFits(desk[o], rows')
  PROVE  desk' \in [Desks -> DeskJob] /\ DesksFit' /\ DesksDiffer'
<1>1. desk' \in [Desks -> DeskJob] /\ \A o \in Desks : desk'[o] = IF o = d THEN work ELSE desk[o]
  BY DEF Sets
<1>2. \A o \in Desks : JobFits(desk'[o], rows')
  BY <1>1
<1>3. \A o, p \in Desks : o # p => Apart(desk'[o], desk'[p])
  <2> SUFFICES ASSUME NEW o \in Desks, NEW p \in Desks, o # p PROVE Apart(desk'[o], desk'[p])
    OBVIOUS
  <2>1. CASE o = d
    BY <1>1, <2>1
  <2>2. CASE p = d
    <3>1. Apart(work, desk[o])
      BY <2>2
    <3>2. Apart(desk[o], work)
      BY <3>1, ApartBoth
    <3> QED BY <1>1, <2>2, <3>2
  <2>3. CASE o # d /\ p # d
    BY <1>1, <2>3 DEF DesksDiffer
  <2> QED BY <2>1, <2>2, <2>3
<1> QED BY <1>1, <1>2, <1>3 DEF DesksFit, DesksDiffer

\* A step that only changes what one process is doing.
LEMMA DeskOnly ==
  ASSUME RewardsInv, NEW d \in Desks, NEW work \in DeskJob, Sets(d, work),
         UNCHANGED <<rows, points, earned, course, window>>,
         JobFits(work, rows), \A o \in Desks \ {d} : Apart(work, desk[o])
  PROVE  RewardsInv'
<1>1. JobFits(work, rows') /\ \A o \in Desks : JobFits(desk[o], rows')
  BY DEF RewardsInv, DesksFit
<1>2. desk' \in [Desks -> DeskJob] /\ DesksFit' /\ DesksDiffer'
  BY <1>1, DesksAfter DEF RewardsInv, RewardsTyped
<1>3. RewardsTyped'
  BY <1>2 DEF RewardsInv, RewardsTyped
<1>4. Kept(rows, points)' /\ EarnedNames(earned, rows)' /\ CourseNames(course, rows)'
  BY DEF RewardsInv
<1> QED BY <1>2, <1>3, <1>4 DEF RewardsInv

LEMMA UnstartedTyped == Unstarted \in CourseRow
<1>1. <<>> \in Seq(Entry)
  OBVIOUS
<1> QED BY <1>1 DEF Unstarted, CourseRow

LEMMA AwayTyped ==
  /\ Away \in DeskJob
  /\ Away.at = "idle" /\ Away.paid = <<>>
  /\ \A rs : JobFits(Away, rs)
<1>1. Nothing \in Sale /\ <<>> \in Seq(DOMAIN Badge)
  BY DEF Nothing, Sale
<1>2. Away \in DeskJob
  BY <1>1, UnstartedTyped DEF Away, DeskJob
<1>3. Away.at = "idle" /\ Away.paid = <<>>
  BY DEF Away
<1> QED BY <1>2, <1>3 DEF JobFits, Locking

LEMMA RowOfTyped ==
  ASSUME course \in CourseRows, NEW m \in DOMAIN Challenge
  PROVE  RowOf(m) \in CourseRow
BY UnstartedTyped DEF RowOf, CourseRows

\* The hooks go on with a part of which nothing is held yet.
LEMMA ContinueFits ==
  ASSUME desk \in [Desks -> DeskJob], NEW d \in Desks, NEW part \in 1..5, Continue(d, part),
         NEW rs, desk[d].source \in DOMAIN rs, rs[desk[d].source].kind = "PURCHASE"
  PROVE  \E work \in DeskJob : /\ Sets(d, work) /\ JobFits(work, rs)
                               /\ work.at \notin Locking /\ work.paid = <<>>
<1>1. CASE part > Len(Metrics)
  <2>1. Sets(d, Away)
    BY <1>1 DEF Continue
  <2> QED BY <2>1, AwayTyped DEF Locking
<1>2. CASE ~(part > Len(Metrics))
  <2> DEFINE work == [Away EXCEPT !.at = IF part <= 1 THEN "check" ELSE "begin",
                                  !.source = desk[d].source, !.part = part]
  <2>1. Sets(d, work)
    BY <1>2 DEF Continue
  <2>2. part \in 0..4
    BY <1>2 DEF Metrics
  <2>3. desk[d].source \in Nat
    BY DEF DeskJob
  <2>4. /\ work \in DeskJob /\ work.at \in {"check", "begin"} /\ work.source = desk[d].source
        /\ work.paid = <<>>
    BY <2>2, <2>3, AwayTyped DEF DeskJob
  <2> HIDE DEF work
  <2>5. JobFits(work, rs)
    BY <2>4 DEF JobFits, Locking
  <2> QED BY <2>1, <2>4, <2>5 DEF Locking
<1> QED BY <1>1, <1>2

-----------------------------------------------------------------------------
(* The steps that only look.                                               *)

LEMMA DeskFacts ==
  ASSUME RewardsInv, NEW d \in Desks
  PROVE  /\ desk[d] \in DeskJob /\ JobFits(desk[d], rows)
         /\ \A o \in Desks \ {d} : Apart(desk[d], desk[o])
         /\ desk \in [Desks -> DeskJob]
BY DEF RewardsInv, RewardsTyped, DesksFit, DesksDiffer

LEMMA ContinueKeeps ==
  ASSUME RewardsInv, NEW d \in Desks, NEW part \in 1..5, Continue(d, part),
         desk[d].at \notin {"idle", "refund"},
         UNCHANGED <<rows, points, earned, course, window>>
  PROVE  RewardsInv'
<1>1. PICK work \in DeskJob : /\ Sets(d, work) /\ JobFits(work, rows)
                              /\ work.at \notin Locking /\ work.paid = <<>>
  BY ContinueFits, DeskFacts DEF JobFits
<1> QED BY <1>1, FreeApart, DeskOnly

LEMMA AwayKeeps ==
  ASSUME RewardsInv, NEW d \in Desks, Sets(d, Away),
         UNCHANGED <<rows, points, earned, course, window>>
  PROVE  RewardsInv'
<1>1. \A o \in Desks \ {d} : Apart(Away, desk[o])
  BY AwayTyped, FreeApart DEF Locking
<1> QED BY <1>1, AwayTyped, DeskOnly

LEMMA CheckSourceKeeps ==
  ASSUME RewardsInv, NEW d \in Desks, CheckSource(d)
  PROVE  RewardsInv'
<1>1. CASE Active(desk[d].source)
  <2> DEFINE doing == desk[d]
             work == [doing EXCEPT !.at = "begin"]
  <2>1. Sets(d, work) /\ doing.at = "check" /\ UNCHANGED <<rows, points, earned, course, window>>
    BY <1>1 DEF CheckSource
  <2>2. doing \in DeskJob /\ JobFits(doing, rows)
    BY DeskFacts
  <2> HIDE DEF doing
  <2>3. work \in DeskJob /\ work.at = "begin" /\ work.paid = doing.paid /\ work.source = doing.source
    BY <2>2 DEF DeskJob
  <2> HIDE DEF work
  <2>4. work.paid = <<>> /\ JobFits(work, rows)
    BY <2>1, <2>2, <2>3 DEF JobFits, Locking
  <2> QED BY <2>1, <2>3, <2>4, FreeApart, DeskOnly DEF Locking
<1>2. CASE ~Active(desk[d].source)
  BY <1>2, AwayKeeps DEF CheckSource
<1> QED BY <1>1, <1>2

\* Of the two locks, the row of an award: nobody else has it.
LEMMA RowFree ==
  ASSUME RewardsInv, NEW d \in Desks, NEW row, ~RowHeld(d, row)
  PROVE  \A o \in Desks \ {d} : desk[o].at \in Locking => desk[o].source # row
BY DEF RowHeld, Locks, Locking

LEMMA PointsFree ==
  ASSUME NEW d \in Desks, ~PointsHeld(d)
  PROVE  \A o \in Desks \ {d} : ~HoldsPoints(desk[o])
BY DEF PointsHeld, HoldsPoints

LEMMA BeginBadgesKeeps ==
  ASSUME RewardsInv, NEW d \in Desks, BeginBadges(d)
  PROVE  RewardsInv'
<1> DEFINE doing == desk[d]
<1>0. /\ doing.at = "begin" /\ doing.part = 0 /\ ~RowHeld(d, doing.source)
      /\ UNCHANGED <<rows, points, earned, course, window>>
  BY DEF BeginBadges
<1>1. CASE Active(doing.source)
  <2>0. PICK heard \in SUBSET Sold(rows) :
          Sets(d, [doing EXCEPT !.at = "look", !.badge = 1,
                                !.stats = StatsWith(rows, points, heard)])
    BY <1>1 DEF BeginBadges
  <2> DEFINE st == StatsWith(rows, points, heard)
             work == [doing EXCEPT !.at = "look", !.badge = 1, !.stats = st]
  <2>1. Sets(d, work)
    BY <2>0
  <2>2. doing \in DeskJob /\ JobFits(doing, rows)
    BY DeskFacts
  <2>3. st \in Sale
    BY StatsTyped DEF RewardsInv, RewardsTyped
  <2>4. \A o \in Desks \ {d} : desk[o].at \in Locking => desk[o].source # doing.source
    BY <1>0, RowFree
  <2>5. ~rows[doing.source].reversed
    BY <1>1 DEF Active
  <2> HIDE DEF doing, st
  <2>6. /\ work \in DeskJob /\ work.at = "look" /\ work.paid = doing.paid
        /\ work.source = doing.source /\ work.badge = 1
    BY <2>2, <2>3 DEF DeskJob
  <2> HIDE DEF work
  <2>7. work.paid = <<>> /\ JobFits(work, rows)
    BY <1>0, <2>2, <2>5, <2>6 DEF JobFits, Locking
  <2>8. \A o \in Desks \ {d} : Apart(work, desk[o])
    BY <2>4, <2>6, <2>7 DEF Apart, HoldsPoints
  <2> QED BY <1>0, <2>1, <2>6, <2>7, <2>8, DeskOnly
<1>2. CASE ~Active(doing.source)
  <2>1. Continue(d, 1)
    BY <1>2 DEF BeginBadges
  <2> QED BY <1>0, <2>1, ContinueKeeps
<1> QED BY <1>1, <1>2

LEMMA LookAtBadgeKeeps ==
  ASSUME RewardsInv, NEW d \in Desks, LookAtBadge(d)
  PROVE  RewardsInv'
<1> DEFINE doing == desk[d]
           pay == [doing EXCEPT !.at = "pay"]
           next == doing.badge + 1
           on  == [doing EXCEPT !.badge = next]
<1>1. /\ doing.at = "look" /\ doing.badge <= Len(Badge)
      /\ Sets(d, pay) \/ Sets(d, on)
      /\ UNCHANGED <<rows, points, earned, course, window>>
  BY DEF LookAtBadge
<1>2. doing \in DeskJob /\ JobFits(doing, rows) /\ \A o \in Desks \ {d} : Apart(doing, desk[o])
  BY DeskFacts
<1> HIDE DEF doing
<1>3. /\ doing.source \in DOMAIN rows /\ rows[doing.source].kind = "PURCHASE"
      /\ ~rows[doing.source].reversed /\ doing.badge > 0
  BY <1>1, <1>2 DEF JobFits, Locking
<1>4. CASE Sets(d, pay)
  <2>1. /\ pay \in DeskJob /\ pay.at = "pay" /\ pay.paid = doing.paid
        /\ pay.source = doing.source /\ pay.badge = doing.badge
    BY <1>2 DEF DeskJob
  <2>2. doing.badge \in DOMAIN Badge
    <3>1. doing.badge \in Nat
      BY <1>2 DEF DeskJob
    <3> QED BY <1>1, <1>3, <3>1, ConstantFacts
  <2> HIDE DEF pay
  <2>3. JobFits(pay, rows)
    BY <1>3, <2>1, <2>2 DEF JobFits, Locking
  <2>4. \A o \in Desks \ {d} : Apart(pay, desk[o])
    BY <1>1, <1>2, <2>1 DEF Apart, HoldsPoints, Locking
  <2> QED BY <1>1, <1>4, <2>1, <2>3, <2>4, DeskOnly
<1>5. CASE Sets(d, on)
  <2>0. next \in Nat /\ next > 0
    <3>1. doing.badge \in Nat
      BY <1>2 DEF DeskJob
    <3> QED BY <1>3, <3>1
  <2> HIDE DEF next
  <2>1. /\ on \in DeskJob /\ on.at = "look" /\ on.paid = doing.paid
        /\ on.source = doing.source /\ on.badge > 0
    BY <1>1, <1>2, <2>0 DEF DeskJob
  <2> HIDE DEF on
  <2>3. JobFits(on, rows)
    BY <1>3, <2>1 DEF JobFits, Locking
  <2>4. \A o \in Desks \ {d} : Apart(on, desk[o])
    BY <1>1, <1>2, <2>1 DEF Apart, HoldsPoints, Locking
  <2> QED BY <1>1, <1>5, <2>1, <2>3, <2>4, DeskOnly
<1> QED BY <1>1, <1>4, <1>5

LEMMA PayBadgeKeeps ==
  ASSUME RewardsInv, NEW d \in Desks, PayBadge(d)
  PROVE  RewardsInv'
<1> DEFINE doing  == desk[d]
           b    == doing.badge
           paying == Append(doing.paid, b)
           next == b + 1
           work == [doing EXCEPT !.at = "look", !.badge = next, !.paid = paying]
<1>1. /\ doing.at = "pay" /\ ~PointsHeld(d) /\ Sets(d, work)
      /\ UNCHANGED <<rows, points, earned, course, window>>
  BY DEF PayBadge
<1>2. doing \in DeskJob /\ JobFits(doing, rows) /\ \A o \in Desks \ {d} : Apart(doing, desk[o])
  BY DeskFacts
<1>3. \A o \in Desks \ {d} : ~HoldsPoints(desk[o])
  BY <1>1, PointsFree
<1> HIDE DEF doing
<1>4. /\ doing.source \in DOMAIN rows /\ rows[doing.source].kind = "PURCHASE"
      /\ ~rows[doing.source].reversed /\ b > 0 /\ b \in DOMAIN Badge
  BY <1>1, <1>2 DEF JobFits, Locking
<1>5. paying \in Seq(DOMAIN Badge) /\ next \in Nat /\ next > 0
  <2>1. doing.paid \in Seq(DOMAIN Badge) /\ b \in Nat
    BY <1>2 DEF DeskJob
  <2> QED BY <1>4, <2>1
<1> HIDE DEF paying, next
<1>6. /\ work \in DeskJob /\ work.at = "look" /\ work.source = doing.source /\ work.badge > 0
  BY <1>2, <1>4, <1>5 DEF DeskJob
<1> HIDE DEF work
<1>7. JobFits(work, rows)
  BY <1>4, <1>6 DEF JobFits, Locking
<1>8. \A o \in Desks \ {d} : Apart(work, desk[o])
  BY <1>1, <1>2, <1>3, <1>6 DEF Apart, Locking
<1> QED BY <1>1, <1>6, <1>7, <1>8, DeskOnly

LEMMA BeginChallengeKeeps ==
  ASSUME RewardsInv, NEW d \in Desks, BeginChallenge(d)
  PROVE  RewardsInv'
<1> DEFINE doing == desk[d]
<1>0. /\ doing.at = "begin" /\ doing.part > 0 /\ ~RowHeld(d, doing.source)
      /\ UNCHANGED <<rows, points, earned, course, window>>
  BY DEF BeginChallenge
<1>1. doing \in DeskJob /\ JobFits(doing, rows)
  BY DeskFacts
<1>2. doing.part \in 1..4 /\ doing.part + 1 \in 1..5
  BY <1>0, <1>1 DEF DeskJob
<1>3. CASE MetricConcerned(d) /\ Active(doing.source)
  <2> DEFINE seen == RowOf(MetricAt(d))
             work == [doing EXCEPT !.at = "write", !.seen = seen]
  <2>1. Sets(d, work)
    BY <1>3 DEF BeginChallenge
  <2>2. Metrics[doing.part] \in DOMAIN Challenge /\ MetricAt(d) \in DOMAIN Challenge
    BY <1>3 DEF MetricConcerned, MetricAt
  <2>3. seen \in CourseRow
    BY <2>2, RowOfTyped DEF RewardsInv, RewardsTyped
  <2>4. \A o \in Desks \ {d} : desk[o].at \in Locking => desk[o].source # doing.source
    BY <1>0, RowFree
  <2>5. ~rows[doing.source].reversed
    BY <1>3 DEF Active
  <2> HIDE DEF doing, seen
  <2>6. /\ work \in DeskJob /\ work.at = "write" /\ work.paid = doing.paid
        /\ work.source = doing.source /\ work.part = doing.part /\ work.seen = seen
    BY <1>1, <2>3 DEF DeskJob
  <2> HIDE DEF work
  <2>7. work.paid = <<>> /\ JobFits(work, rows)
    BY <1>0, <1>1, <1>2, <2>2, <2>3, <2>5, <2>6 DEF JobFits, Locking
  <2>8. \A o \in Desks \ {d} : Apart(work, desk[o])
    BY <2>4, <2>6, <2>7 DEF Apart, HoldsPoints
  <2> QED BY <1>0, <2>1, <2>6, <2>7, <2>8, DeskOnly
<1>4. CASE ~(MetricConcerned(d) /\ Active(doing.source))
  <2>1. Continue(d, doing.part + 1)
    BY <1>4 DEF BeginChallenge
  <2> QED BY <1>0, <1>2, <2>1, ContinueKeeps
<1> QED BY <1>3, <1>4

LEMMA RefundKeeps ==
  ASSUME RewardsInv, NEW d \in Desks, NEW i \in DOMAIN rows, Refund(d, i)
  PROVE  RewardsInv'
<1> DEFINE work == [Away EXCEPT !.at = "refund", !.source = i, !.seen = course]
<1>1. /\ Active(i) /\ ~RowHeld(d, i) /\ ~PointsHeld(d) /\ Sets(d, work)
      /\ UNCHANGED <<rows, points, earned, course, window>>
  BY DEF Refund
<1>2. rows \in Seq(Transaction) /\ course \in CourseRows /\ CourseNames(course, rows)
  BY DEF RewardsInv, RewardsTyped
<1>3. i \in Nat
  BY <1>2, TransactionFields
<1>4. /\ work \in DeskJob /\ work.at = "refund" /\ work.source = i /\ work.seen = course
      /\ work.paid = <<>>
  BY <1>2, <1>3, AwayTyped DEF DeskJob
<1> HIDE DEF work
<1>5. JobFits(work, rows)
  BY <1>1, <1>2, <1>4 DEF JobFits, Active
<1>6. \A o \in Desks \ {d} : Apart(work, desk[o])
  <2>1. \A o \in Desks \ {d} : desk[o].at \in Locking => desk[o].source # i
    BY <1>1, RowFree
  <2>2. \A o \in Desks \ {d} : ~HoldsPoints(desk[o])
    BY <1>1, PointsFree
  <2> QED BY <1>4, <2>1, <2>2 DEF Apart
<1> QED BY <1>1, <1>4, <1>5, <1>6, DeskOnly

LEMMA FailBadgesKeeps ==
  ASSUME RewardsInv, NEW d \in Desks, FailBadges(d)
  PROVE  RewardsInv'
BY ContinueKeeps DEF FailBadges

LEMMA AbandonDeskKeeps ==
  ASSUME RewardsInv, NEW d \in Desks, AbandonDesk(d)
  PROVE  RewardsInv'
BY AwayKeeps DEF AbandonDesk

LEMMA NextWindowKeeps ==
  ASSUME RewardsInv, NextWindow
  PROVE  RewardsInv'
<1>1. /\ window' \in Nat
      /\ rows' = rows /\ points' = points /\ earned' = earned /\ course' = course /\ desk' = desk
  BY DEF RewardsInv, RewardsTyped, NextWindow
<1>2. RewardsTyped'
  BY <1>1 DEF RewardsInv, RewardsTyped
<1>3. Kept(rows, points)' /\ EarnedNames(earned, rows)' /\ CourseNames(course, rows)'
  BY <1>1 DEF RewardsInv
<1>4. DesksFit' /\ DesksDiffer'
  BY <1>1 DEF RewardsInv, DesksFit, DesksDiffer
<1> QED BY <1>2, <1>3, <1>4 DEF RewardsInv

-----------------------------------------------------------------------------
(* The steps that add rows.                                                *)

EarnedStep ==
  \A i \in DOMAIN rows' \ DOMAIN rows :
    rows'[i].source # 0 => ~rows'[rows'[i].source].reversed

LEMMA RowsAdded ==
  ASSUME RewardsInv, NEW new \in Seq(Transaction), Plain(new),
         rows' = rows \o new, points' = points + PointsIn(new)
  PROVE  /\ rows' \in Seq(Transaction) /\ points' \in Int /\ Kept(rows', points')
         /\ Grows(rows, rows', 0)
         /\ \A k \in DOMAIN rows : k \in DOMAIN rows' /\ rows'[k] = rows[k]
         /\ \A k \in DOMAIN new : /\ Len(rows) + k \in DOMAIN rows'
                                  /\ rows'[Len(rows) + k] = new[k]
         /\ \A k \in DOMAIN rows' \ DOMAIN rows : \E j \in DOMAIN new : rows'[k] = new[j]
         /\ \A o \in Desks : JobFits(desk[o], rows')
<1>0. rows \in Seq(Transaction) /\ points \in Int /\ Kept(rows, points)
  BY DEF RewardsInv, RewardsTyped
<1>1. /\ rows' \in Seq(Transaction) /\ Len(rows') = Len(rows) + Len(new)
      /\ \A i \in 1..(Len(rows) + Len(new)) :
           rows'[i] = IF i <= Len(rows) THEN rows[i] ELSE new[i - Len(rows)]
      /\ Len(rows) \in Nat /\ Len(new) \in Nat
      /\ DOMAIN rows = 1..Len(rows) /\ DOMAIN new = 1..Len(new) /\ DOMAIN rows' = 1..Len(rows')
  <2> DEFINE all == rows \o new
  <2>1. /\ all \in Seq(Transaction) /\ Len(all) = Len(rows) + Len(new)
        /\ \A i \in 1..(Len(rows) + Len(new)) :
             all[i] = IF i <= Len(rows) THEN rows[i] ELSE new[i - Len(rows)]
        /\ DOMAIN all = 1..Len(all)
    BY <1>0, ConcatProperties
  <2> HIDE DEF all
  <2>2. rows' = all
    BY DEF all
  <2> QED BY <1>0, <2>1, <2>2
<1>2. points' \in Int
  <2>1. PointsIn(new) \in Int
    BY SumOverInt DEF PointsIn
  <2> QED BY <1>0, <2>1
<1>3. Kept(rows', points')
  BY <1>0, KeptMore
<1>4. \A k \in DOMAIN rows : k \in DOMAIN rows' /\ rows'[k] = rows[k]
  BY <1>1
<1>5. Grows(rows, rows', 0)
  BY <1>1, <1>4 DEF Grows
<1>6. \A k \in DOMAIN new : Len(rows) + k \in DOMAIN rows' /\ rows'[Len(rows) + k] = new[k]
  <2> SUFFICES ASSUME NEW k \in DOMAIN new
      PROVE  Len(rows) + k \in DOMAIN rows' /\ rows'[Len(rows) + k] = new[k]
    OBVIOUS
  <2>1. Len(rows) + k \in 1..(Len(rows) + Len(new)) /\ ~(Len(rows) + k <= Len(rows))
        /\ (Len(rows) + k) - Len(rows) = k
    BY <1>1
  <2> QED BY <1>1, <2>1
<1>7. \A k \in DOMAIN rows' \ DOMAIN rows : \E j \in DOMAIN new : rows'[k] = new[j]
  <2> SUFFICES ASSUME NEW k \in DOMAIN rows' \ DOMAIN rows
      PROVE  \E j \in DOMAIN new : rows'[k] = new[j]
    OBVIOUS
  <2>1. k - Len(rows) \in DOMAIN new /\ rows'[k] = new[k - Len(rows)]
    BY <1>1
  <2> QED BY <2>1
<1>8. ASSUME NEW o \in Desks PROVE JobFits(desk[o], rows')
  <2>1. JobFits(desk[o], rows)
    BY DEF RewardsInv, DesksFit
  <2>2. desk[o].at # "idle" => desk[o].source \in DOMAIN rows /\ desk[o].source # 0
    BY <1>1, <2>1 DEF JobFits
  <2>3. desk[o].at = "refund" => ~rows'[desk[o].source].reversed
    BY <1>4, <2>1, <2>2 DEF JobFits, Locking
  <2>4. desk[o].at \in Locking => desk[o].source # 0
    BY <2>2 DEF Locking
  <2> QED BY <1>0, <1>1, <1>5, <2>1, <2>3, <2>4, JobStillFits
<1> QED BY <1>1, <1>2, <1>3, <1>4, <1>5, <1>6, <1>7, <1>8

LEMMA MakeAwardKeeps ==
  ASSUME RewardsInv, NEW d \in Desks, NEW sale \in Purchases, MakeAward(d, sale)
  PROVE  RewardsInv' /\ EarnedStep
<1> DEFINE row  == Purchase(sale)
           work == [Away EXCEPT !.at = "check", !.source = Len(rows) + 1]
<1>1. /\ rows' = Append(rows, row) /\ points' = points + sale.points /\ Sets(d, work)
      /\ UNCHANGED <<earned, course, window>>
  BY DEF MakeAward
<1>2. rows \in Seq(Transaction) /\ window \in Nat /\ Len(rows) \in Nat
  BY DEF RewardsInv, RewardsTyped
<1>3. sale \in Sale
  BY RewardAssumption DEF Sale
<1>4. /\ row \in Transaction /\ row.sale.points = sale.points /\ row.original = 0
      /\ ~row.reversed /\ row.source = 0 /\ row.kind = "PURCHASE"
  BY <1>2, <1>3 DEF Purchase, Row, Transaction
<1> HIDE DEF row
<1> DEFINE new == <<row>>
<1>5. /\ new \in Seq(Transaction) /\ DOMAIN new = {1} /\ new[1] = row
      /\ PointsIn(new) = sale.points
  BY <1>4, SumOne
<1>6. rows' = rows \o new
  BY <1>1, <1>2, <1>4, AppendIsConcat
<1> HIDE DEF new
<1>7. Plain(new)
  BY <1>4, <1>5 DEF Plain
<1>8. /\ rows' \in Seq(Transaction) /\ points' \in Int /\ Kept(rows', points')
      /\ Grows(rows, rows', 0)
      /\ Len(rows) + 1 \in DOMAIN rows' /\ rows'[Len(rows) + 1] = row
      /\ \A k \in DOMAIN rows' \ DOMAIN rows : rows'[k] = row
      /\ \A o \in Desks : JobFits(desk[o], rows')
  BY <1>1, <1>5, <1>6, <1>7, RowsAdded
<1>9. Len(rows) + 1 \in Nat
  BY <1>2
<1>10. /\ work \in DeskJob /\ work.at = "check" /\ work.source = Len(rows) + 1
       /\ work.paid = <<>>
  BY <1>9, AwayTyped DEF DeskJob
<1> HIDE DEF work
<1>11. JobFits(work, rows')
  BY <1>4, <1>8, <1>10 DEF JobFits, Locking
<1>12. \A o \in Desks \ {d} : Apart(work, desk[o]) /\ JobFits(desk[o], rows')
  BY <1>8, <1>10, FreeApart DEF Locking
<1>13. desk' \in [Desks -> DeskJob] /\ DesksFit' /\ DesksDiffer'
  BY <1>1, <1>10, <1>11, <1>12, DesksAfter DEF RewardsInv, RewardsTyped
<1>14. RewardsTyped'
  BY <1>1, <1>8, <1>13 DEF RewardsInv, RewardsTyped
<1>15. EarnedNames(earned, rows)' /\ CourseNames(course, rows)'
  BY <1>1, <1>2, <1>8, NamesStillFit DEF RewardsInv
<1>16. EarnedStep
  BY <1>4, <1>8 DEF EarnedStep
<1> QED BY <1>8, <1>13, <1>14, <1>15, <1>16 DEF RewardsInv

\* The hooks add what they earn, and go on.
LEMMA HooksAdd ==
  ASSUME RewardsInv, NEW d \in Desks, NEW part \in 1..5, Continue(d, part),
         desk[d].at \in {"look", "write"},
         NEW new \in Seq(Transaction), Plain(new),
         \A i \in DOMAIN new : new[i].source = desk[d].source,
         rows' = rows \o new, points' = points + PointsIn(new)
  PROVE  desk' \in [Desks -> DeskJob] /\ DesksFit' /\ DesksDiffer' /\ EarnedStep
<1>1. /\ \A k \in DOMAIN rows : k \in DOMAIN rows' /\ rows'[k] = rows[k]
      /\ \A k \in DOMAIN rows' \ DOMAIN rows : \E j \in DOMAIN new : rows'[k] = new[j]
      /\ \A o \in Desks : JobFits(desk[o], rows')
  BY RowsAdded
<1>2. /\ desk[d].source \in DOMAIN rows /\ rows[desk[d].source].kind = "PURCHASE"
      /\ ~rows[desk[d].source].reversed
  BY DeskFacts DEF JobFits, Locking
<1>3. PICK work \in DeskJob : /\ Sets(d, work) /\ JobFits(work, rows')
                              /\ work.at \notin Locking /\ work.paid = <<>>
  <2>1. desk[d].source \in DOMAIN rows' /\ rows'[desk[d].source].kind = "PURCHASE"
    BY <1>1, <1>2
  <2> QED BY <2>1, ContinueFits DEF RewardsInv, RewardsTyped
<1>4. \A o \in Desks \ {d} : Apart(work, desk[o]) /\ JobFits(desk[o], rows')
  BY <1>1, <1>3, FreeApart
<1>5. desk' \in [Desks -> DeskJob] /\ DesksFit' /\ DesksDiffer'
  BY <1>3, <1>4, DesksAfter DEF RewardsInv, RewardsTyped
<1>6. EarnedStep
  BY <1>1, <1>2 DEF EarnedStep
<1> QED BY <1>5, <1>6

LEMMA CommitBadgesKeeps ==
  ASSUME RewardsInv, NEW d \in Desks, CommitBadges(d)
  PROVE  RewardsInv' /\ EarnedStep
<1> DEFINE doing == desk[d]
           new == RewardsOf(d)
           place(b) == Len(rows) + CHOOSE i \in DOMAIN doing.paid : doing.paid[i] = b
<1>1. /\ doing.at = "look" /\ rows' = rows \o new /\ points' = points + PointsIn(new)
      /\ earned' = [b \in DOMAIN earned |->
                      IF earned[b] = NoValue /\ b \in ToSet(doing.paid)
                      THEN [source |-> doing.source, reward |-> place(b)] ELSE earned[b]]
      /\ Continue(d, 1) /\ UNCHANGED <<course, window>>
  BY DEF CommitBadges, PointsIn
<1>2. /\ rows \in Seq(Transaction) /\ window \in Nat /\ Len(rows) \in Nat
      /\ earned \in EarnedRows /\ EarnedNames(earned, rows)
      /\ course \in CourseRows /\ CourseNames(course, rows)
  BY DEF RewardsInv, RewardsTyped
<1>3. doing \in DeskJob
  BY DeskFacts
<1>4. doing.paid \in Seq(DOMAIN Badge) /\ doing.source \in Nat
  BY <1>3 DEF DeskJob
<1>5. DOMAIN doing.paid = 1..Len(doing.paid) /\ Len(doing.paid) \in Nat
      /\ \A i \in DOMAIN doing.paid : doing.paid[i] \in DOMAIN Badge
  BY <1>4
<1>6. new = [i \in 1..Len(doing.paid) |->
               RewardRow("ACHIEVEMENT", doing.paid[i], doing.source, Badge[doing.paid[i]].reward)]
  BY <1>5 DEF RewardsOf
<1>7. ASSUME NEW i \in 1..Len(doing.paid)
      PROVE  /\ new[i] \in Transaction /\ new[i].original = 0 /\ ~new[i].reversed
             /\ new[i].source = doing.source /\ new[i].kind = "ACHIEVEMENT"
  <2> DEFINE b == doing.paid[i]
             c == Badge[b].reward
  <2>1. b \in DOMAIN Badge /\ new[i] = RewardRow("ACHIEVEMENT", b, doing.source, c)
    BY <1>5, <1>6
  <2>2. c \in Int /\ b \in Named
    BY <2>1, ConstantFacts DEF Earnable, Named
  <2>3. "ACHIEVEMENT" \in RowKinds
    BY DEF RowKinds
  <2> DEFINE s == doing.source
             r == RewardRow("ACHIEVEMENT", b, s, c)
  <2>4. s \in Nat /\ window \in Nat
    BY <1>2, <1>4
  <2>5. new[i] = r
    BY <2>1
  <2> HIDE DEF b, c, s, new
  <2>6. RowFits(r, "ACHIEVEMENT", s, c)
    BY <2>2, <2>3, <2>4, RowTyped
  <2> HIDE DEF r
  <2> QED BY <2>5, <2>6 DEF RowFits, s
<1>8. new \in Seq(Transaction) /\ DOMAIN new = 1..Len(doing.paid)
  <2> DEFINE e == [i \in 1..Len(doing.paid) |->
               RewardRow("ACHIEVEMENT", doing.paid[i], doing.source, Badge[doing.paid[i]].reward)]
  <2>1. new = e /\ DOMAIN e = 1..Len(doing.paid)
    BY <1>6
  <2>2. new \in [1..Len(doing.paid) -> Transaction]
    <3> HIDE DEF doing
    <3>1. \A i \in 1..Len(doing.paid) : e[i] \in Transaction
      BY <1>7, <2>1
    <3>2. e \in [1..Len(doing.paid) -> Transaction]
      BY <3>1
    <3> HIDE DEF new, e
    <3> QED BY <2>1, <3>2
  <2> HIDE DEF new, e, doing
  <2> QED BY <1>5, <2>1, <2>2
<1> HIDE DEF new
<1>9. Plain(new) /\ \A i \in DOMAIN new : new[i].source = doing.source
  BY <1>7, <1>8 DEF Plain
<1>10. desk' \in [Desks -> DeskJob] /\ DesksFit' /\ DesksDiffer' /\ EarnedStep
  <2>1. 1 \in 1..5 /\ desk[d].at \in {"look", "write"}
    BY <1>1
  <2>2. Continue(d, 1) /\ rows' = rows \o new /\ points' = points + PointsIn(new)
        /\ \A i \in DOMAIN new : new[i].source = desk[d].source
    BY <1>1, <1>9
  <2> HIDE DEF doing
  <2> QED BY <2>1, <2>2, <1>8, <1>9, HooksAdd
<1>11. /\ rows' \in Seq(Transaction) /\ points' \in Int /\ Kept(rows', points')
       /\ Grows(rows, rows', 0)
       /\ \A k \in DOMAIN new : Len(rows) + k \in DOMAIN rows' /\ rows'[Len(rows) + k] = new[k]
  BY <1>1, <1>8, <1>9, RowsAdded
<1> HIDE DEF doing
<1>12. EarnedNames(earned, rows') /\ CourseNames(course, rows')
  BY <1>2, <1>11, NamesStillFit
<1>13. ASSUME NEW b \in DOMAIN Badge
       PROVE  earned'[b] \in EarnedRow \cup {NoValue}
              /\ (earned'[b] # NoValue => IsPayment(rows', earned'[b].reward))
  <2>0. b \in DOMAIN earned
    BY <1>2 DEF EarnedRows
  <2>1. CASE earned[b] = NoValue /\ b \in ToSet(doing.paid)
    <3>1. earned'[b] = [source |-> doing.source, reward |-> place(b)]
      BY <1>1, <2>0, <2>1
    <3> DEFINE i == CHOOSE i \in DOMAIN doing.paid : doing.paid[i] = b
    <3>2. \E j \in DOMAIN doing.paid : doing.paid[j] = b
      BY <2>1 DEF ToSet
    <3>3. i \in DOMAIN doing.paid /\ place(b) = Len(rows) + i
      BY <3>2
    <3> HIDE DEF i, place
    <3>4. i \in 1..Len(doing.paid) /\ i \in DOMAIN new /\ i \in Nat
      BY <1>5, <1>8, <3>3
    <3>5. place(b) \in Nat
      BY <1>2, <3>3, <3>4
    <3>6. IsPayment(rows', place(b))
      BY <1>7, <1>11, <3>3, <3>4 DEF IsPayment
    <3> QED BY <3>1, <3>5, <3>6, <1>4 DEF EarnedRow
  <2>2. CASE ~(earned[b] = NoValue /\ b \in ToSet(doing.paid))
    <3>1. earned'[b] = earned[b]
      BY <1>1, <2>0, <2>2
    <3> QED BY <3>1, <1>2, <1>12 DEF EarnedNames, EarnedRows
  <2> QED BY <2>1, <2>2
<1>14. earned' \in EarnedRows /\ EarnedNames(earned, rows)'
  <2>1. DOMAIN earned' = DOMAIN Badge /\ earned' = [b \in DOMAIN earned' |-> earned'[b]]
    BY <1>1, <1>2 DEF EarnedRows
  <2> QED BY <1>13, <2>1 DEF EarnedRows, EarnedNames
<1>15. RewardsTyped'
  BY <1>1, <1>2, <1>10, <1>11, <1>14 DEF RewardsTyped
<1>16. CourseNames(course, rows)'
  BY <1>1, <1>12
<1> QED BY <1>10, <1>11, <1>14, <1>15, <1>16 DEF RewardsInv

\* What a completion writes, with payments that come after the rows.
LEMMA CompletedTyped ==
  ASSUME NEW row \in CourseRow, NEW n \in Nat, NEW source \in Nat, window \in Nat,
         rows \in Seq(Transaction), NEW rs \in Seq(Transaction),
         row.history \in Seq(Names(rs)),
         \A k \in 1..n : IsPayment(rs, Len(rows) + k)
  PROVE  /\ Completed(row, n, source) \in CourseRow
         /\ Completed(row, n, source).history \in Seq(Names(rs))
<1>1. CASE n = 0
  BY <1>1 DEF Completed
<1>2. CASE n # 0
  <2> DEFINE more  == [k \in 1..n |-> [source |-> source, reward |-> Len(rows) + k, window |-> window]]
             times == row.times + n
             all   == row.history \o more
             done  == [row EXCEPT !.completed = TRUE, !.on = window, !.times = times, !.history = all]
  <2>1. Completed(row, n, source) = done
    BY <1>2 DEF Completed
  <2>2. more \in Seq(Names(rs))
    <3>1. Len(rows) \in Nat
      OBVIOUS
    <3>2. ASSUME NEW k \in 1..n
          PROVE  [source |-> source, reward |-> Len(rows) + k, window |-> window] \in Names(rs)
      <4> DEFINE place == Len(rows) + k
      <4>0. IsPayment(rs, Len(rows) + k)
        BY Zenon
      <4>1. place \in Nat /\ IsPayment(rs, place)
        BY <3>1, <4>0
      <4> HIDE DEF place
      <4>2. [source |-> source, reward |-> place, window |-> window] \in Names(rs)
        BY <4>1 DEF Names, Entry
      <4> QED BY <4>2 DEF place
    <3> DEFINE N == Names(rs)
    <3>3. more \in [1..n -> N]
      BY <3>2
    <3> HIDE DEF N, more
    <3>4. more \in Seq(N)
      BY <3>3
    <3> QED BY <3>4 DEF N
  <2> HIDE DEF more
  <2>3. all \in Seq(Names(rs))
    BY <2>2, ConcatProperties
  <2>4. all \in Seq(Entry)
    BY <2>3, NamesAreEntries
  <2>5. times \in Int
    BY DEF CourseRow
  <2> HIDE DEF all, times
  <2>6. done \in CourseRow /\ done.history = all
    BY <2>4, <2>5 DEF CourseRow
  <2> HIDE DEF done
  <2> QED BY <2>1, <2>3, <2>6
<1> QED BY <1>1, <1>2

LEMMA WriteChallengeKeeps ==
  ASSUME RewardsInv, NEW d \in Desks, WriteChallenge(d)
  PROVE  RewardsInv' /\ EarnedStep
<1> DEFINE doing   == desk[d]
           m     == MetricAt(d)
           ch    == Challenge[m]
           reset == ch.recurring /\ doing.seen.completed
           now   == IF reset THEN [RowOf(m) EXCEPT !.completed = FALSE, !.on = NoValue] ELSE RowOf(m)
           progress == (IF reset THEN 0 ELSE doing.seen.progress) + Gain(d)
           n     == Completions(ch, doing.seen, progress)
           base  == [now EXCEPT !.progress = progress]
           after == Completed(base, n, doing.source)
           new   == [i \in 1..n |-> RewardRow("CHALLENGE", m, doing.source, ch.reward)]
<1>0. doing.at = "write" /\ Continue(d, doing.part + 1) /\ UNCHANGED <<earned, window>>
  BY DEF WriteChallenge
<1>1. doing \in DeskJob /\ JobFits(doing, rows)
  BY DeskFacts
<1>2. /\ rows \in Seq(Transaction) /\ window \in Nat /\ Len(rows) \in Nat
      /\ earned \in EarnedRows /\ EarnedNames(earned, rows)
      /\ course \in CourseRows /\ CourseNames(course, rows)
  BY DEF RewardsInv, RewardsTyped
<1>3. /\ doing.seen \in CourseRow /\ doing.part \in 1..4 /\ m \in DOMAIN Challenge
      /\ doing.source \in DOMAIN rows
  BY <1>0, <1>1 DEF JobFits, MetricAt
<1>4. doing.part + 1 \in 1..5 /\ doing.source \in Nat
  BY <1>2, <1>3, TransactionFields
<1>5. CASE Exhausted(ch, doing.seen)
  <2>1. UNCHANGED <<rows, points, course>>
    BY <1>5 DEF WriteChallenge
  <2>2. RewardsInv'
    BY <1>0, <1>4, <2>1, ContinueKeeps
  <2> QED BY <2>1, <2>2 DEF EarnedStep
<1>6. CASE ~Exhausted(ch, doing.seen)
  <2>1. /\ course' = [course EXCEPT ![m] = after]
        /\ rows' = rows \o new
        /\ points' = points + n * ch.reward
    BY <1>6 DEF WriteChallenge
  <2>2. /\ ch.need \in Nat \ {0} /\ ch.reward \in Nat
        /\ ch.recurring \in BOOLEAN /\ ch.max \in Nat \cup {NoValue}
    BY <1>3, ConstantFacts
  <2>3. progress \in Int
    <3>1. Gain(d) \in Int
      <4>1. rows[doing.source].sale \in Sale
        BY <1>2, <1>3, TransactionFields
      <4>2. m \in {"points", "visits", "spend", "items"}
        BY <1>3, ConstantFacts
      <4>3. rows[doing.source].sale[m] \in Int
        BY <4>1, <4>2 DEF Sale
      <4> QED BY <4>3 DEF Gain
    <3>2. doing.seen.progress \in Int
      BY <1>3 DEF CourseRow
    <3> HIDE DEF doing, reset
    <3> QED BY <3>1, <3>2
  <2>4. n \in Nat
    <3>1. doing.seen.times \in Int
      BY <1>3 DEF CourseRow
    <3> HIDE DEF progress, ch, doing
    <3> DEFINE q == progress \div ch.need
    <3>2. q \in Int
      BY <2>2, <2>3
    <3> HIDE DEF q
    <3>3. AtMost(q, ch.max) \in Int
      BY <2>2, <3>2 DEF AtMost
    <3>4. Greatest(0, AtMost(q, ch.max) - doing.seen.times) \in Nat
      BY <3>1, <3>3 DEF Greatest
    <3>5. n = IF ch.recurring THEN IF progress >= ch.need THEN 1 ELSE 0
              ELSE Greatest(0, AtMost(q, ch.max) - doing.seen.times)
      BY DEF Completions, q
    <3> QED BY <3>4, <3>5
  <2>5. /\ base \in CourseRow /\ base.history = RowOf(m).history
    <3> DEFINE row == RowOf(m)
    <3>1. row \in CourseRow
      BY <1>2, <1>3, RowOfTyped
    <3> HIDE DEF row, progress, reset
    <3>2. now = IF reset THEN [row EXCEPT !.completed = FALSE, !.on = NoValue] ELSE row
      BY DEF row
    <3> HIDE DEF now
    <3>3. now \in CourseRow /\ now.history = row.history
      BY <3>1, <3>2 DEF CourseRow
    <3>4. base \in CourseRow /\ base.history = row.history
      BY <2>3, <3>3 DEF CourseRow
    <3> QED BY <3>4 DEF row
  <2>6. RewardRow("CHALLENGE", m, doing.source, ch.reward) \in Transaction
        /\ RewardRow("CHALLENGE", m, doing.source, ch.reward).sale.points = ch.reward
        /\ RewardRow("CHALLENGE", m, doing.source, ch.reward).original = 0
        /\ ~RewardRow("CHALLENGE", m, doing.source, ch.reward).reversed
        /\ RewardRow("CHALLENGE", m, doing.source, ch.reward).kind = "CHALLENGE"
        /\ RewardRow("CHALLENGE", m, doing.source, ch.reward).source = doing.source
    <3>1. m \in Named /\ ch.reward \in Int
      BY <1>3, <2>2 DEF Earnable, Named
    <3>2. "CHALLENGE" \in RowKinds
      BY DEF RowKinds
    <3> DEFINE c == ch.reward
               s == doing.source
    <3>3. m \in Named /\ c \in Int /\ s \in Nat /\ window \in Nat
      BY <1>2, <1>4, <3>1
    <3> HIDE DEF m, c, s
    <3>4. RowFits(RewardRow("CHALLENGE", m, s, c), "CHALLENGE", s, c)
      BY <3>2, <3>3, RowTyped
    <3> QED BY <3>4 DEF c, s, RowFits
  <2> HIDE DEF n, base
  <2>7. new \in Seq(Transaction) /\ Len(new) = n /\ DOMAIN new = 1..n
        /\ \A i \in 1..n : new[i] = RewardRow("CHALLENGE", m, doing.source, ch.reward)
    <3> DEFINE r == RewardRow("CHALLENGE", m, doing.source, ch.reward)
    <3> HIDE DEF r
    <3>1. new = [i \in 1..n |-> r] /\ r \in Transaction
      BY <2>6 DEF r
    <3> HIDE DEF new
    <3>2. new \in Seq(Transaction) /\ Len(new) = n /\ DOMAIN new = 1..n
          /\ \A i \in 1..n : new[i] = r
      BY <2>4, <3>1
    <3> QED BY <3>2 DEF r
  <2> HIDE DEF new
  <2>8. Plain(new) /\ \A i \in DOMAIN new : new[i].source = doing.source
    BY <2>6, <2>7 DEF Plain
  <2>9. points' = points + PointsIn(new)
    <3>1. PointsIn(new) = Len(new) * ch.reward
      <4>1. \A i \in 1..Len(new) : new[i].sale.points = ch.reward
        BY <2>6, <2>7
      <4>2. ch.reward \in Int
        BY <2>2
      <4> HIDE DEF ch
      <4> QED BY <2>7, <4>1, <4>2, SumEven
    <3> QED BY <2>1, <2>7, <3>1
  <2>10. desk' \in [Desks -> DeskJob] /\ DesksFit' /\ DesksDiffer' /\ EarnedStep
    BY <1>0, <1>4, <2>1, <2>7, <2>8, <2>9, HooksAdd
  <2>11. /\ rows' \in Seq(Transaction) /\ points' \in Int /\ Kept(rows', points')
         /\ Grows(rows, rows', 0)
         /\ \A k \in DOMAIN new : Len(rows) + k \in DOMAIN rows' /\ rows'[Len(rows) + k] = new[k]
    BY <2>1, <2>7, <2>8, <2>9, RowsAdded
  <2>12. EarnedNames(earned, rows') /\ CourseNames(course, rows')
    BY <1>2, <2>11, NamesStillFit
  <2>13. base.history \in Seq(Names(rows'))
    <3>1. base.history \in Seq(Entry)
      BY <2>5 DEF CourseRow
    <3>2. HistoryNames(base.history, rows')
      <4>1. CASE course[m] = NoValue
        <5>1. base.history = <<>>
          BY <2>5, <4>1 DEF RowOf, Unstarted
        <5> QED BY <5>1 DEF HistoryNames
      <4>2. CASE course[m] # NoValue
        BY <1>3, <2>5, <2>12, <4>2 DEF RowOf, CourseNames
      <4> QED BY <4>1, <4>2
    <3> QED BY <3>1, <3>2, HistoryIs
  <2>14. \A k \in 1..n : IsPayment(rows', Len(rows) + k)
    BY <2>6, <2>7, <2>11 DEF IsPayment
  <2>15. after \in CourseRow /\ after.history \in Seq(Names(rows'))
    BY <1>2, <1>4, <2>4, <2>5, <2>11, <2>13, <2>14, CompletedTyped
  <2> HIDE DEF after
  <2>16. HistoryNames(after.history, rows')
    <3>1. after.history \in Seq(Entry)
      BY <2>15 DEF CourseRow
    <3> QED BY <2>15, <3>1, HistoryIs
  <2>17. course' \in CourseRows /\ CourseNames(course, rows)'
    BY <1>2, <1>3, <2>1, <2>12, <2>15, <2>16 DEF CourseRows, CourseNames
  <2>18. RewardsTyped'
    BY <1>0, <1>2, <2>10, <2>11, <2>17 DEF RewardsTyped
  <2>19. EarnedNames(earned, rows)'
    BY <1>0, <2>12
  <2> QED BY <2>10, <2>11, <2>17, <2>18, <2>19 DEF RewardsInv
<1> QED BY <1>5, <1>6

-----------------------------------------------------------------------------
(* The commit of a refund.                                                 *)

LEMMA CommitRefundKeeps ==
  ASSUME RewardsInv, NEW d \in Desks, CommitRefund(d)
  PROVE  RewardsInv' /\ EarnedStep
<1> DEFINE i       == desk[d].source
           current == [rows |-> rows, points |-> points, earned |-> earned]
           marked  == Reversed(current, i, "PURCHASE")
           badges  == ReconcileBadges(marked, i)
           outcome == ReconcileChallenges(badges, desk[d].seen, i)
<1>1. /\ desk[d].at = "refund"
      /\ rows' = outcome.db.rows /\ points' = outcome.db.points /\ earned' = outcome.db.earned
      /\ course' = outcome.course /\ Sets(d, Away) /\ window' = window
  BY DEF CommitRefund
<1>2. /\ rows \in Seq(Transaction) /\ points \in Int /\ window \in Nat
      /\ earned \in EarnedRows /\ EarnedNames(earned, rows)
      /\ course \in CourseRows /\ CourseNames(course, rows)
      /\ Kept(rows, points)
  BY DEF RewardsInv, RewardsTyped
<1>3. /\ i \in DOMAIN rows /\ ~rows[i].reversed
      /\ desk[d].seen \in CourseRows /\ CourseNames(desk[d].seen, rows)
  BY <1>1, DeskFacts DEF JobFits, Locking
<1>4. current \in Databases(i) /\ current.rows = rows
  <2>1. Grows(rows, rows, i) /\ NoneEarned(rows, rows)
    <3>1. Len(rows) \in Nat
      BY <1>2
    <3> QED BY <3>1 DEF Grows, NoneEarned
  <2> QED BY <1>2, <2>1 DEF Databases
<1>5. marked \in Databases(i)
  <2>1. "PURCHASE" \in RowKinds
    BY DEF RowKinds
  <2> HIDE DEF current, i
  <2> QED BY <1>2, <1>3, <1>4, <2>1, ReversedStays
<1> HIDE DEF marked
<1>6. badges \in Databases(i)
  BY <1>2, <1>5, BadgesStay
<1> HIDE DEF badges
<1>7. outcome \in Outcomes(i)
  BY <1>2, <1>3, <1>6, ChallengesStay
<1> HIDE DEF outcome
<1>8. outcome.db \in Databases(i) /\ outcome.course \in CourseRows /\ CourseNames(outcome.course, rows)
  BY <1>7 DEF Outcomes
<1>9. /\ rows' \in Seq(Transaction) /\ points' \in Int /\ earned' \in EarnedRows
      /\ Kept(rows', points') /\ Grows(rows, rows', i) /\ NoneEarned(rows, rows')
      /\ EarnedNames(earned', rows)
  <2> DEFINE db == outcome.db
  <2>1. /\ db.rows \in Seq(Transaction) /\ db.points \in Int /\ db.earned \in EarnedRows
        /\ Kept(db.rows, db.points) /\ Grows(rows, db.rows, i) /\ NoneEarned(rows, db.rows)
        /\ EarnedNames(db.earned, rows)
    BY <1>8, DatabaseIs
  <2> QED BY <1>1, <2>1
<1>10. EarnedNames(earned, rows)' /\ CourseNames(course, rows)' /\ course' \in CourseRows
  BY <1>1, <1>2, <1>8, <1>9, NamesStillFit
<1>11. \A o \in Desks \ {d} : Apart(Away, desk[o]) /\ JobFits(desk[o], rows')
  <2> TAKE o \in Desks \ {d}
  <2>1. Apart(Away, desk[o])
    BY AwayTyped, FreeApart DEF Locking
  <2>2. JobFits(desk[o], rows) /\ Apart(desk[d], desk[o])
    BY DeskFacts
  <2>3. desk[o].at \in Locking => desk[o].source # i
    BY <1>1, <2>2 DEF Apart, Locking
  <2>4. desk[o].at # "refund"
    BY <1>1, <2>2 DEF Apart, HoldsPoints
  <2>5. JobFits(desk[o], rows')
    BY <1>2, <1>9, <2>2, <2>3, <2>4, JobStillFits
  <2> QED BY <2>1, <2>5
<1>12. desk' \in [Desks -> DeskJob] /\ DesksFit' /\ DesksDiffer'
  BY <1>1, <1>11, AwayTyped, DesksAfter DEF RewardsInv, RewardsTyped
<1>13. RewardsTyped'
  BY <1>1, <1>2, <1>9, <1>10, <1>12 DEF RewardsTyped
<1>14. EarnedStep
  BY <1>9 DEF EarnedStep, NoneEarned
<1> QED BY <1>9, <1>10, <1>12, <1>13, <1>14 DEF RewardsInv

-----------------------------------------------------------------------------
(* The theorems.                                                           *)

LEMMA RewardsInvInitially == RewardsInit => RewardsInv
<1> SUFFICES ASSUME RewardsInit PROVE RewardsInv
  OBVIOUS
<1>1. /\ rows = <<>> /\ points = 0 /\ window = 0
      /\ earned = [b \in DOMAIN Badge |-> NoValue]
      /\ course = [m \in DOMAIN Challenge |-> NoValue]
      /\ desk = [d \in Desks |-> Away]
  BY DEF RewardsInit
<1>2. rows \in Seq(Transaction) /\ Len(rows) = 0 /\ DOMAIN rows = {}
  BY <1>1
<1>3. RewardsTyped
  <2>1. earned \in EarnedRows /\ course \in CourseRows
    BY <1>1 DEF EarnedRows, CourseRows
  <2>2. desk \in [Desks -> DeskJob]
    BY <1>1, AwayTyped
  <2> QED BY <1>1, <1>2, <2>1, <2>2 DEF RewardsTyped
<1>4. Kept(rows, points)
  <2>1. points = SumOver(rows, DOMAIN rows, "points")
    BY <1>1, <1>2, TotalEmpty DEF SumOver
  <2> QED BY <1>2, <2>1 DEF Kept, Paired
<1>5. EarnedNames(earned, rows) /\ CourseNames(course, rows)
  BY <1>1 DEF EarnedNames, CourseNames
<1>6. DesksFit /\ DesksDiffer
  <2>1. \A d \in Desks : JobFits(desk[d], rows)
    BY <1>1, AwayTyped
  <2>2. \A d, o \in Desks : Apart(desk[d], desk[o])
    BY <1>1, AwayTyped, FreeApart DEF Locking
  <2> QED BY <2>1, <2>2 DEF DesksFit, DesksDiffer
<1> QED BY <1>3, <1>4, <1>5, <1>6 DEF RewardsInv

LEMMA RewardsInvKept ==
  ASSUME RewardsInv, [RewardsNext]_rewardVars
  PROVE  RewardsInv' /\ (rows' # rows => EarnedStep)
<1>1. CASE UNCHANGED rewardVars
  <2>1. /\ rows' = rows /\ points' = points /\ earned' = earned /\ course' = course
        /\ desk' = desk /\ window' = window
    BY <1>1 DEF rewardVars
  <2>2. RewardsTyped' /\ Kept(rows, points)' /\ EarnedNames(earned, rows)' /\ CourseNames(course, rows)'
    BY <2>1 DEF RewardsInv, RewardsTyped
  <2>3. DesksFit' /\ DesksDiffer'
    BY <2>1 DEF RewardsInv, DesksFit, DesksDiffer
  <2> QED BY <2>1, <2>2, <2>3 DEF RewardsInv
<1>2. CASE NextWindow
  BY <1>2, NextWindowKeeps DEF NextWindow
<1>3. ASSUME NEW d \in Desks, NEW sale \in Purchases, MakeAward(d, sale)
      PROVE  RewardsInv' /\ EarnedStep
  BY <1>3, MakeAwardKeeps
<1>4. ASSUME NEW d \in Desks, NEW i \in DOMAIN rows, Refund(d, i)
      PROVE  RewardsInv' /\ rows' = rows
  BY <1>4, RefundKeeps DEF Refund
<1>5. ASSUME NEW d \in Desks, Hook(d)
      PROVE  RewardsInv' /\ (rows' # rows => EarnedStep)
  <2>1. CASE CheckSource(d)
    BY <2>1, CheckSourceKeeps DEF CheckSource
  <2>2. CASE BeginBadges(d)
    BY <2>2, BeginBadgesKeeps DEF BeginBadges
  <2>3. CASE LookAtBadge(d)
    BY <2>3, LookAtBadgeKeeps DEF LookAtBadge
  <2>4. CASE PayBadge(d)
    BY <2>4, PayBadgeKeeps DEF PayBadge
  <2>5. CASE CommitBadges(d)
    BY <2>5, CommitBadgesKeeps
  <2>6. CASE BeginChallenge(d)
    BY <2>6, BeginChallengeKeeps DEF BeginChallenge
  <2>7. CASE WriteChallenge(d)
    BY <2>7, WriteChallengeKeeps
  <2>8. CASE FailBadges(d)
    BY <2>8, FailBadgesKeeps DEF FailBadges
  <2> QED BY <1>5, <2>1, <2>2, <2>3, <2>4, <2>5, <2>6, <2>7, <2>8 DEF Hook
<1>6. ASSUME NEW d \in Desks, CommitRefund(d)
      PROVE  RewardsInv' /\ EarnedStep
  BY <1>6, CommitRefundKeeps
<1>7. ASSUME NEW d \in Desks, AbandonDesk(d)
      PROVE  RewardsInv' /\ rows' = rows
  BY <1>7, AbandonDeskKeeps DEF AbandonDesk
<1> QED BY <1>1, <1>2, <1>3, <1>4, <1>5, <1>6, <1>7 DEF RewardsNext

(* Types, the sum of the balance, a reversal for each reversed row, names  *)
(* that are payments, and locks with one holder: in every reachable state. *)
THEOREM RewardsInvAlways == RewardsSpec => []RewardsInv
<1>1. RewardsInv /\ [RewardsNext]_rewardVars => RewardsInv'
  BY RewardsInvKept
<1> QED BY <1>1, RewardsInvInitially, PTL DEF RewardsSpec

LEMMA MoneyFollows == RewardsInv => RewardMoneyKept
<1> SUFFICES ASSUME RewardsInv PROVE RewardMoneyKept
  OBVIOUS
<1>1. rows \in Seq(Transaction) /\ points = SumOver(rows, DOMAIN rows, "points") /\ Paired(rows)
  BY DEF RewardsInv, RewardsTyped, Kept
<1>2. ASSUME NEW i \in DOMAIN rows
      PROVE  LET backs == {k \in DOMAIN rows : rows[k].original = i}
             IN  /\ Cardinality(backs) = IF rows[i].reversed THEN 1 ELSE 0
                 /\ \A k \in backs : rows[k].sale.points = -rows[i].sale.points
  <2> DEFINE backs == {k \in DOMAIN rows : rows[k].original = i}
  <2>1. i # 0
    BY <1>1, TransactionFields
  <2>2. \A k \in backs : rows[k].sale.points = -rows[i].sale.points
    BY <1>1, <2>1 DEF Paired
  <2>3. CASE rows[i].reversed
    <3>1. PICK k \in DOMAIN rows : rows[k].original = i
      BY <1>1, <2>3 DEF Paired
    <3>2. backs = {k}
      BY <1>1, <2>1, <3>1 DEF Paired
    <3>3. Cardinality(backs) = 1
      BY <3>2, FS_Singleton
    <3> QED BY <2>2, <2>3, <3>3
  <2>4. CASE ~rows[i].reversed
    <3>1. backs = {}
      BY <1>1, <2>1, <2>4 DEF Paired
    <3>2. Cardinality(backs) = 0
      BY <3>1, FS_EmptySet
    <3> QED BY <2>2, <2>4, <3>2
  <2> QED BY <2>3, <2>4
<1> QED BY <1>1, <1>2 DEF RewardMoneyKept

(* Whatever hooks, revocations and refunds do at the same time: the balance*)
(* is the sum of the rows, and what was taken back was taken back once     *)
(* (reconciliation-service and the payments of the hooks).                 *)
THEOREM RewardMoneyCorrect == RewardsSpec => []RewardMoneyKept
BY RewardsInvAlways, MoneyFollows, PTL

(* What has been refunded earns nothing any more, although the hooks of an *)
(* award run after it, in transactions of their own.                       *)
THEOREM EarnedCorrect == RewardsSpec => EarnedWhileStanding
<1>1. RewardsInv /\ [RewardsNext]_rewardVars =>
        [\A i \in DOMAIN rows' \ DOMAIN rows :
           rows'[i].source # 0 => ~rows'[rows'[i].source].reversed]_rewardVars
  BY RewardsInvKept DEF EarnedStep
<1> QED BY <1>1, RewardsInvAlways, PTL DEF RewardsSpec, EarnedWhileStanding
=============================================================================
