---------------------------- MODULE PaymentsProofs ----------------------------
(***************************************************************************)
(* Proofs about gift cards, the events of the payment provider, and the    *)
(* awards a browser has kept while it was offline.                         *)
(***************************************************************************)
EXTENDS GiftCards, PaymentEvents, OfflineQueue, TotalsProofs, SequenceTheorems,
        FiniteSetTheorems

-----------------------------------------------------------------------------
(***************************************************************************)
(* Proofs of the gift cards: their money is kept, and the ledger view      *)
(* never reports more than is stored.                                      *)
(***************************************************************************)

(* The inductive invariant.                                                *)

GiftCard == [balance : Int, status : {"ACTIVE", "EXHAUSTED"}, expires : Expiries]

GiftRow ==
  [card : Nat, kind : {"ISSUE", "REDEEM"}, amount : Nat, after : Int, key : RequestIds]

TillJob ==
  [at : {"idle", "request", "card", "write", "rows"},
   kind : {"none", "ISSUE", "REDEEM", "VIEW"}, key : RequestIds \cup {Null}, card : Nat,
   amount : Nat, expires : Expiries \cup {Null}, seen : Int,
   report : {"none", "balanced", "short", "over"}]

GiftTyped ==
  /\ cards \in Seq(GiftCard)
  /\ cardRows \in Seq(GiftRow)
  /\ till \in [Tills -> TillJob]

\* A till that holds the lock of a requestId, and one that holds that of a card.
HasRequest(w) == till[w].at \in {"card", "write"}
HasCard(w)    == till[w].at = "write"

\* What the locks of a till protect is still as it was read.
TillFits(w) ==
  /\ till[w].at = "rows" =>
       /\ till[w].card \in DOMAIN cards
       /\ cards[till[w].card].balance <= till[w].seen
  /\ till[w].at = "request" =>
       /\ till[w].key \in RequestIds
       /\ till[w].kind = "REDEEM" => till[w].card \in DOMAIN cards
       /\ till[w].kind = "ISSUE" => till[w].expires \in Expiries
  /\ HasRequest(w) =>
       /\ till[w].key \in RequestIds
       /\ till[w].card \in DOMAIN cards
       /\ RowsOfRequest(till[w].key) = {}
  /\ HasCard(w) =>
       /\ till[w].seen = cards[till[w].card].balance
       /\ till[w].amount <= till[w].seen
  /\ till[w].report # "over"

TillsFit == \A w \in Tills : TillFits(w)

\* Each lock has one holder.
LocksFit ==
  \A w, v \in Tills : w # v =>
    /\ HasRequest(w) /\ HasRequest(v) => till[w].key # till[v].key
    /\ HasCard(w) /\ HasCard(v) => till[w].card # till[v].card

\* A card is issued by its first row.
IssuedFirst ==
  /\ \A i \in DOMAIN cardRows : cardRows[i].card \in DOMAIN cards
  /\ \A i, k \in DOMAIN cardRows :
       cardRows[i].kind = "ISSUE" /\ cardRows[k].card = cardRows[i].card => i <= k

GiftInv ==
  GiftTyped /\ TillsFit /\ LocksFit /\ IssuedFirst /\ CardIsItsRows /\ OncePerRequest

-----------------------------------------------------------------------------
(* What the rows say of a card.                                            *)

LEMMA SignedType ==
  ASSUME NEW row \in GiftRow
  PROVE  Signed(row) \in Int
<1>1. row.amount \in Nat
  BY DEF GiftRow
<1> QED BY <1>1 DEF Signed

LEMMA SaidType ==
  ASSUME cardRows \in Seq(GiftRow), NEW S
  PROVE  /\ \A i \in 1..Len(cardRows) : Signed(cardRows[i]) \in Int
         /\ Said(S) \in Int
<1>0. \A i \in 1..Len(cardRows) : cardRows[i] \in GiftRow
  OBVIOUS
<1>1. \A i \in 1..Len(cardRows) : Signed(cardRows[i]) \in Int
  BY <1>0, SignedType
<1> DEFINE f == [i \in 1..Len(cardRows) |-> IF i \in S THEN Signed(cardRows[i]) ELSE 0]
<1>2. \A i \in 1..Len(cardRows) : f[i] \in Int
  BY <1>1
<1>3. Len(cardRows) \in Nat
  OBVIOUS
<1>4. Total(f, Len(cardRows)) \in Int
  BY <1>2, <1>3, TotalType
<1> QED BY <1>1, <1>4 DEF Said

LEMMA CardType ==
  ASSUME GiftTyped, NEW c \in DOMAIN cards
  PROVE  c \in Nat /\ cards[c] \in GiftCard /\ cards[c].balance \in Int
<1>1. c \in Nat /\ cards[c] \in GiftCard
  BY DEF GiftTyped
<1> QED BY <1>1 DEF GiftCard

LEMMA OneMoreRow ==
  ASSUME cardRows \in Seq(GiftRow), NEW row \in GiftRow, cardRows' = Append(cardRows, row)
  PROVE  /\ cardRows' \in Seq(GiftRow)
         /\ Len(cardRows) \in Nat /\ Len(cardRows') = Len(cardRows) + 1
         /\ DOMAIN cardRows = 1..Len(cardRows)
         /\ DOMAIN cardRows' = DOMAIN cardRows \cup {Len(cardRows) + 1}
         /\ \A i \in DOMAIN cardRows : cardRows'[i] = cardRows[i] /\ i # Len(cardRows) + 1
         /\ cardRows'[Len(cardRows) + 1] = row
OBVIOUS

LEMMA SaidAppended ==
  ASSUME cardRows \in Seq(GiftRow), NEW row \in GiftRow, cardRows' = Append(cardRows, row), NEW c
  PROVE  Said(RowsOfCard(c))' =
           Said(RowsOfCard(c)) + (IF row.card = c THEN Signed(row) ELSE 0)
<1> DEFINE n == Len(cardRows)
           f == [i \in 1..n |-> IF i \in RowsOfCard(c) THEN Signed(cardRows[i]) ELSE 0]
           g == [i \in 1..(n + 1) |-> IF i \in RowsOfCard(c)' THEN Signed(cardRows'[i]) ELSE 0]
<1>1. /\ cardRows' \in Seq(GiftRow)
      /\ n \in Nat /\ Len(cardRows') = n + 1
      /\ DOMAIN cardRows = 1..n
      /\ DOMAIN cardRows' = DOMAIN cardRows \cup {n + 1}
      /\ \A i \in DOMAIN cardRows : cardRows'[i] = cardRows[i] /\ i # n + 1
      /\ cardRows'[n + 1] = row
  BY OneMoreRow
<1>2. \A i \in 1..n : i \in 1..(n + 1) /\ (i \in RowsOfCard(c)' <=> i \in RowsOfCard(c))
  BY <1>1 DEF RowsOfCard
<1>3. \A i \in 1..(n + 1) : Signed(cardRows'[i]) \in Int
  <2>1. \A i \in 1..(n + 1) : cardRows'[i] \in GiftRow
    BY <1>1
  <2> QED BY <2>1, SignedType
<1>4. /\ \A i \in 1..(n + 1) : g[i] \in Int
      /\ \A i \in 1..n : g[i] \in Int /\ g[i] = f[i]
  BY <1>1, <1>2, <1>3
<1>5. Total(g, n + 1) = Total(g, n) + g[n + 1]
  BY <1>1, <1>4, TotalNext
<1>6. Total(g, n) = Total(f, n)
  BY <1>1, <1>4, TotalEqual
<1>7. g[n + 1] = IF row.card = c THEN Signed(row) ELSE 0
  BY <1>1 DEF RowsOfCard
<1>8. Said(RowsOfCard(c)) = Total(f, n)
  BY DEF Said
<1>9. Said(RowsOfCard(c))' = Total(g, n + 1)
  BY <1>1 DEF Said
<1> HIDE DEF f, g
<1> QED BY <1>5, <1>6, <1>7, <1>8, <1>9

\* A sum of amounts that are taken away is not positive.
LEMMA TotalNotPositive ==
  ASSUME NEW f, NEW n \in Nat, \A i \in 1..n : f[i] \in Int /\ f[i] <= 0
  PROVE  Total(f, n) <= 0
<1> DEFINE g == [i \in 1..n |-> -f[i]]
           h == [i \in 1..n |-> 0]
<1>1. \A i \in 1..n : g[i] \in Nat /\ g[i] \in Int
  OBVIOUS
<1>2. \A i \in 1..n : f[i] \in Int /\ g[i] \in Int /\ h[i] = f[i] + g[i]
  OBVIOUS
<1>3. \A i \in 1..n : h[i] = 0
  OBVIOUS
<1> HIDE DEF g, h
<1>4. Total(g, n) \in Nat
  BY <1>1, TotalNatural
<1>5. Total(h, n) = Total(f, n) + Total(g, n)
  BY <1>2, TotalSum
<1>6. Total(h, n) = 0
  BY <1>3, TotalZero
<1>7. Total(f, n) \in Int
  BY <1>2, TotalType
<1> QED BY <1>4, <1>5, <1>6, <1>7

\* The latest rows of a card are all of them, or they lack the issue; either
\* way they say no more than the balance.
LEMMA LatestSaysLess ==
  ASSUME GiftTyped, IssuedFirst, CardIsItsRows, NEW c \in DOMAIN cards
  PROVE  Said(Latest(c)) <= cards[c].balance
<1>1. cardRows \in Seq(GiftRow) /\ Len(cardRows) \in Nat /\ DOMAIN cardRows = 1..Len(cardRows)
  BY DEF GiftTyped
<1>2. CASE Latest(c) = RowsOfCard(c)
  <2>1. cards[c].balance = Said(RowsOfCard(c)) /\ Said(RowsOfCard(c)) \in Int
    BY <1>1, SaidType DEF CardIsItsRows
  <2> QED BY <1>2, <2>1
<1>3. CASE Latest(c) # RowsOfCard(c)
  <2> DEFINE After(i) == {k \in RowsOfCard(c) : k > i}
  <2>1. PICK k \in RowsOfCard(c) : ~(Cardinality(After(k)) < ViewLimit)
    BY <1>3 DEF Latest
  <2>2. \A i \in Latest(c) : i \in RowsOfCard(c) /\ Cardinality(After(i)) < ViewLimit
    BY DEF Latest
  <2>3. ASSUME NEW i \in Latest(c), cardRows[i].kind = "ISSUE" PROVE FALSE
    <3>1. i \in DOMAIN cardRows /\ k \in DOMAIN cardRows /\ i <= k
      BY <2>1, <2>2, <2>3 DEF RowsOfCard, IssuedFirst
    <3>2. After(k) \subseteq After(i) /\ After(i) \subseteq 1..Len(cardRows)
      BY <1>1, <3>1 DEF RowsOfCard
    <3>3. IsFiniteSet(After(i)) /\ IsFiniteSet(After(k))
      BY <1>1, <3>2, FS_Interval, FS_Subset, 1 \in Int, Len(cardRows) \in Int
    <3>4. Cardinality(After(k)) <= Cardinality(After(i))
      BY <3>2, <3>3, FS_Subset
    <3>5. Cardinality(After(k)) \in Nat /\ Cardinality(After(i)) \in Nat /\ ViewLimit \in Nat
      BY <3>3, FS_CardinalityType, ViewAssumption
    <3>6. Cardinality(After(i)) < ViewLimit
      BY <2>2
    <3> HIDE DEF After
    <3> QED BY <2>1, <3>4, <3>5, <3>6
  <2> DEFINE f == [i \in 1..Len(cardRows) |-> IF i \in Latest(c) THEN Signed(cardRows[i]) ELSE 0]
  <2>4. \A i \in 1..Len(cardRows) : f[i] \in Int /\ f[i] <= 0
    <3>1. \A i \in 1..Len(cardRows) : cardRows[i] \in GiftRow
      BY <1>1
    <3> QED BY <2>3, <3>1 DEF Signed, GiftRow
  <2>5. Total(f, Len(cardRows)) <= 0 /\ Total(f, Len(cardRows)) \in Int
    BY <1>1, <2>4, TotalNotPositive, TotalType
  <2>6. Said(Latest(c)) = Total(f, Len(cardRows))
    BY DEF Said
  <2>7. cards[c].balance >= 0 /\ cards[c].balance \in Int
    BY CardType DEF CardIsItsRows
  <2> HIDE DEF f
  <2> QED BY <2>5, <2>6, <2>7
<1> QED BY <1>2, <1>3

-----------------------------------------------------------------------------
(* The steps.                                                              *)

LEMMA RestingType == Resting \in TillJob
BY DEF Resting, TillJob

LEMMA GiftsAtFirst ==
  ASSUME GiftInit
  PROVE  GiftInv
<1>1. GiftTyped
  <2>1. Resting \in TillJob
    BY DEF Resting, TillJob
  <2> QED BY <2>1, EmptySeq DEF GiftInit, GiftTyped
<1>2. TillsFit /\ LocksFit
  BY DEF GiftInit, TillsFit, TillFits, LocksFit, HasRequest, HasCard, Resting
<1>3. IssuedFirst /\ CardIsItsRows /\ OncePerRequest
  BY DEF GiftInit, IssuedFirst, CardIsItsRows, OncePerRequest
<1> QED BY <1>1, <1>2, <1>3 DEF GiftInv

\* The tables stay; one till goes on.
LEMMA TillMoves ==
  ASSUME GiftInv, NEW w \in Tills, NEW job \in TillJob, till' = [till EXCEPT ![w] = job],
         UNCHANGED <<cards, cardRows>>, TillFits(w)',
         HasRequest(w)' =>
           job.key = till[w].key /\ (HasRequest(w) \/ ~RequestHeld(w)),
         HasCard(w)' =>
           job.card = till[w].card /\ (HasCard(w) \/ ~CardHeld(w))
  PROVE  GiftInv'
<1>1. /\ till' \in [Tills -> TillJob] /\ till'[w] = job
      /\ \A v \in Tills \ {w} : till'[v] = till[v]
  BY DEF GiftInv, GiftTyped
<1>2. GiftTyped' /\ IssuedFirst' /\ OncePerRequest'
  BY <1>1 DEF GiftInv, GiftTyped, IssuedFirst, OncePerRequest
<1>3. CardIsItsRows'
  BY DEF GiftInv, CardIsItsRows, Said, RowsOfCard, Signed
<1>4. TillsFit'
  <2>1. ASSUME NEW v \in Tills \ {w} PROVE TillFits(v)'
    BY <1>1 DEF GiftInv, TillsFit, TillFits, HasRequest, HasCard, RowsOfRequest
  <2> QED BY <2>1 DEF TillsFit
<1>5. LocksFit'
  <2>1. ASSUME NEW v \in Tills \ {w}
        PROVE  /\ (HasRequest(v)' <=> HasRequest(v)) /\ (HasCard(v)' <=> HasCard(v))
               /\ till'[v].key = till[v].key /\ till'[v].card = till[v].card
    BY <1>1 DEF HasRequest, HasCard
  <2>2. ASSUME NEW v \in Tills \ {w}, HasRequest(w)', HasRequest(v) PROVE job.key # till[v].key
    BY <2>2 DEF GiftInv, LocksFit, RequestHeld, HasRequest
  <2>3. ASSUME NEW v \in Tills \ {w}, HasCard(w)', HasCard(v) PROVE job.card # till[v].card
    BY <2>3 DEF GiftInv, LocksFit, CardHeld, HasCard
  <2>4. ASSUME NEW v \in Tills, NEW u \in Tills, u # v
        PROVE  /\ HasRequest(u)' /\ HasRequest(v)' => till'[u].key # till'[v].key
               /\ HasCard(u)' /\ HasCard(v)' => till'[u].card # till'[v].card
    <3>1. CASE u # w /\ v # w
      BY <2>1, <2>4, <3>1 DEF GiftInv, LocksFit
    <3>2. CASE u = w
      BY <1>1, <2>1, <2>2, <2>3, <2>4, <3>2
    <3>3. CASE v = w
      BY <1>1, <2>1, <2>2, <2>3, <2>4, <3>3
    <3> QED BY <3>1, <3>2, <3>3
  <2> QED BY <2>4 DEF LocksFit
<1> QED BY <1>2, <1>3, <1>4, <1>5 DEF GiftInv

LEMMA DoneKeeps ==
  ASSUME GiftInv, NEW w \in Tills, Refused(w)
  PROVE  GiftInv'
<1>1. Resting \in TillJob
  BY DEF Resting, TillJob
<1>2. till' = [till EXCEPT ![w] = Resting] /\ till'[w] = Resting /\ UNCHANGED <<cards, cardRows>>
  BY DEF Refused, Done, GiftInv, GiftTyped
<1>3. TillFits(w)' /\ ~HasRequest(w)' /\ ~HasCard(w)'
  BY <1>2 DEF TillFits, HasRequest, HasCard, Resting
<1> QED BY <1>1, <1>2, <1>3, TillMoves

LEMMA CentsNatural ==
  ASSUME NEW sum \in Sums
  PROVE  Cents(sum) \in Nat
<1>1. sum \in Nat
  BY SumsAssumption
<1>2. (sum + 5) \div 10 \in Nat
  BY <1>1
<1> QED BY <1>2 DEF Cents

LEMMA AsksKeep ==
  ASSUME GiftInv, NEW w \in Tills, Asks(w)
  PROVE  GiftInv'
<1>1. cards \in Seq(GiftCard) /\ DOMAIN cards \subseteq Nat
  BY DEF GiftInv, GiftTyped
<1>2. ASSUME NEW job \in TillJob, Arrives(w, job), ~(job.at \in {"card", "write"}),
             TillFits(w)'
      PROVE  GiftInv'
  <2>1. till'[w] = job /\ till' = [till EXCEPT ![w] = job] /\ UNCHANGED <<cards, cardRows>>
    BY <1>2 DEF Arrives, GiftInv, GiftTyped
  <2>2. ~HasRequest(w)' /\ ~HasCard(w)'
    BY <1>2, <2>1 DEF HasRequest, HasCard
  <2> QED BY <1>2, <2>1, <2>2, TillMoves
<1>3. ASSUME NEW q \in RequestIds, NEW s \in Sums, NEW x \in Expiries, NEW a \in Actors,
             AskIssue(w, a, q, s, x)
      PROVE  GiftInv'
  <2> DEFINE job == [Resting EXCEPT !.at = "request", !.kind = "ISSUE", !.key = q,
                                    !.amount = Cents(s), !.expires = x]
  <2>1. job \in TillJob
    <3>1. Cents(s) \in Nat
      BY CentsNatural
    <3> QED BY <3>1, RestingType DEF TillJob
  <2>2. Arrives(w, job)
    BY <1>3 DEF AskIssue
  <2>3. till'[w] = job
    BY <2>2 DEF Arrives, GiftInv, GiftTyped
  <2>4. TillFits(w)'
    BY <2>3 DEF TillFits, HasRequest, HasCard, Resting
  <2>5. job.at = "request"
    BY DEF Resting
  <2> HIDE DEF job
  <2> QED BY <1>2, <2>1, <2>2, <2>4, <2>5
<1>4. ASSUME NEW q \in RequestIds, NEW s \in Sums, NEW c \in DOMAIN cards, NEW a \in Actors,
             AskRedeem(w, a, q, c, s)
      PROVE  GiftInv'
  <2> DEFINE job == [Resting EXCEPT !.at = "request", !.kind = "REDEEM", !.key = q,
                                    !.card = c, !.amount = Cents(s)]
  <2>1. job \in TillJob
    <3>1. Cents(s) \in Nat /\ c \in Nat
      BY <1>1, CentsNatural
    <3> QED BY <3>1, RestingType DEF TillJob
  <2>2. Arrives(w, job)
    BY <1>4 DEF AskRedeem
  <2>3. till'[w] = job /\ cards' = cards
    BY <2>2 DEF Arrives, GiftInv, GiftTyped
  <2>4. TillFits(w)'
    BY <2>3 DEF TillFits, HasRequest, HasCard, Resting
  <2>5. job.at = "request"
    BY DEF Resting
  <2> HIDE DEF job
  <2> QED BY <1>2, <2>1, <2>2, <2>4, <2>5
<1>5. ASSUME NEW c \in DOMAIN cards, NEW a \in Actors, ViewCard(w, a, c)
      PROVE  GiftInv'
  <2> DEFINE job == [Resting EXCEPT !.at = "rows", !.kind = "VIEW", !.card = c,
                                    !.seen = cards[c].balance]
  <2>0. cards[c].balance \in Int
    BY CardType DEF GiftInv
  <2>1. job \in TillJob
    BY <1>1, <2>0 DEF Resting, TillJob
  <2>2. Arrives(w, job)
    BY <1>5 DEF ViewCard
  <2>3. till'[w] = job /\ cards' = cards
    BY <2>2 DEF Arrives, GiftInv, GiftTyped
  <2>4. TillFits(w)'
    BY <2>0, <2>3 DEF TillFits, HasRequest, HasCard, Resting
  <2>5. job.at = "rows"
    BY DEF Resting
  <2> HIDE DEF job
  <2> QED BY <1>2, <2>1, <2>2, <2>4, <2>5
<1> QED BY <1>3, <1>4, <1>5 DEF Asks

LEMMA LockRequestKeeps ==
  ASSUME GiftInv, NEW w \in Tills, LockRequest(w)
  PROVE  GiftInv'
<1> DEFINE job == [till[w] EXCEPT !.at = "card"]
<1>1. till[w] \in TillJob /\ TillFits(w)
  BY DEF GiftInv, GiftTyped, TillsFit
<1>2. till' = [till EXCEPT ![w] = job] /\ till'[w] = job /\ UNCHANGED <<cards, cardRows>>
  BY DEF LockRequest, GiftInv, GiftTyped
<1>3. job \in TillJob
  BY <1>1 DEF TillJob
<1>4. TillFits(w)'
  BY <1>1, <1>2 DEF TillFits, HasRequest, HasCard, LockRequest, RowsOfRequest, TillJob
<1>5. job.key = till[w].key /\ ~HasCard(w)' /\ ~RequestHeld(w)
  BY <1>1, <1>2 DEF TillJob, HasCard, LockRequest
<1> HIDE DEF job
<1> QED BY <1>2, <1>3, <1>4, <1>5, TillMoves

LEMMA LockCardKeeps ==
  ASSUME GiftInv, NEW w \in Tills, LockCard(w)
  PROVE  GiftInv'
<1> DEFINE job == [till[w] EXCEPT !.at = "write", !.seen = cards[till[w].card].balance]
<1>1. till[w] \in TillJob /\ TillFits(w) /\ till[w].at = "card"
  BY DEF GiftInv, GiftTyped, TillsFit, LockCard
<1>2. till[w].card \in DOMAIN cards /\ cards[till[w].card].balance \in Int
  <2>1. till[w].card \in DOMAIN cards
    BY <1>1 DEF TillFits, HasRequest
  <2> QED BY <2>1, CardType DEF GiftInv
<1>3. till' = [till EXCEPT ![w] = job] /\ UNCHANGED <<cards, cardRows>>
  BY <1>1 DEF LockCard, GiftInv, GiftTyped, TillJob
<1>4. job \in TillJob
  BY <1>1, <1>2 DEF TillJob
<1>5. till'[w] = job
  BY <1>3 DEF GiftInv, GiftTyped
<1>6. till[w].amount <= cards[till[w].card].balance /\ ~CardHeld(w)
  BY DEF LockCard, Redeemable
<1>7. TillFits(w)'
  BY <1>1, <1>2, <1>3, <1>5, <1>6 DEF TillFits, HasRequest, HasCard, RowsOfRequest, TillJob
<1>8. job.key = till[w].key /\ job.card = till[w].card /\ HasRequest(w)
  BY <1>1 DEF TillJob, HasRequest
<1> HIDE DEF job
<1> QED BY <1>3, <1>4, <1>6, <1>7, <1>8, TillMoves

LEMMA ViewRowsKeeps ==
  ASSUME GiftInv, NEW w \in Tills, ViewRows(w)
  PROVE  GiftInv'
<1>1. till[w] \in TillJob /\ TillFits(w) /\ till[w].at = "rows"
  BY DEF GiftInv, GiftTyped, TillsFit, ViewRows
<1>2. /\ till[w].card \in DOMAIN cards /\ cards[till[w].card].balance \in Int
      /\ cards[till[w].card].balance <= till[w].seen /\ till[w].seen \in Int
  <2>1. /\ till[w].card \in DOMAIN cards /\ till[w].seen \in Int
        /\ cards[till[w].card].balance <= till[w].seen
    BY <1>1 DEF TillFits, TillJob
  <2> QED BY <2>1, CardType DEF GiftInv
<1>3. Said(Latest(till[w].card)) <= cards[till[w].card].balance
  BY <1>2, LatestSaysLess DEF GiftInv
<1>4. Said(Latest(till[w].card)) \in Int
  BY SaidType DEF GiftInv, GiftTyped
<1>5. Delta(w) <= 0 /\ Delta(w) \in Int
  BY <1>2, <1>3, <1>4 DEF Delta
<1>6. PICK job \in {[Resting EXCEPT !.report = "balanced"], [Resting EXCEPT !.report = "short"]} :
        till' = [till EXCEPT ![w] = job]
  <2>1. CASE Delta(w) = 0
    BY <2>1 DEF ViewRows
  <2>2. CASE Delta(w) < 0 /\ Delta(w) # 0
    BY <2>2 DEF ViewRows
  <2> QED BY <1>5, <2>1, <2>2
<1>7. job \in TillJob
  BY DEF Resting, TillJob
<1>8. till'[w] = job /\ UNCHANGED <<cards, cardRows>>
  BY <1>6 DEF GiftInv, GiftTyped, ViewRows
<1>9. TillFits(w)' /\ ~HasRequest(w)' /\ ~HasCard(w)'
  BY <1>8 DEF TillFits, HasRequest, HasCard, Resting
<1> QED BY <1>6, <1>7, <1>8, <1>9, TillMoves

\* A row of a request without one is added to the rows.
LEMMA KeyIsNew ==
  ASSUME GiftInv, NEW row \in GiftRow, cardRows' = Append(cardRows, row),
         RowsOfRequest(row.key) = {}
  PROVE  OncePerRequest'
<1>1. /\ DOMAIN cardRows' = DOMAIN cardRows \cup {Len(cardRows) + 1}
      /\ \A i \in DOMAIN cardRows : cardRows'[i] = cardRows[i]
      /\ cardRows'[Len(cardRows) + 1] = row
  BY OneMoreRow DEF GiftInv, GiftTyped
<1>2. \A i \in DOMAIN cardRows : cardRows[i].key # row.key
  BY DEF RowsOfRequest
<1>3. OncePerRequest
  BY DEF GiftInv
<1> QED BY <1>1, <1>2, <1>3 DEF OncePerRequest

\* The till that has written rests; the locks of the others are theirs.
LEMMA LocksOfOthers ==
  ASSUME GiftInv, NEW w \in Tills, Done(w)
  PROVE  /\ till' \in [Tills -> TillJob]
         /\ till'[w] = Resting
         /\ \A v \in Tills \ {w} : till'[v] = till[v]
         /\ LocksFit'
<1>1. Resting \in TillJob
  BY DEF Resting, TillJob
<1>2. /\ till' \in [Tills -> TillJob] /\ till'[w] = Resting
      /\ \A v \in Tills \ {w} : till'[v] = till[v]
  BY <1>1 DEF Done, GiftInv, GiftTyped
<1>3. ~HasRequest(w)' /\ ~HasCard(w)'
  BY <1>2 DEF HasRequest, HasCard, Resting
<1>4. ASSUME NEW v \in Tills \ {w}
      PROVE  (HasRequest(v)' <=> HasRequest(v)) /\ (HasCard(v)' <=> HasCard(v))
  BY <1>2 DEF HasRequest, HasCard
<1>5. LocksFit'
  BY <1>2, <1>3, <1>4 DEF GiftInv, LocksFit
<1> QED BY <1>2, <1>5

LEMMA IssueKeeps ==
  ASSUME GiftInv, NEW w \in Tills, Issue(w)
  PROVE  GiftInv'
<1>0. PICK n : n = Len(cards) + 1
  OBVIOUS
<1> DEFINE m == Len(cardRows) + 1
           job == till[w]
           card == [balance |-> job.amount, status |-> "ACTIVE", expires |-> job.expires]
           row == CardRow(n, "ISSUE", job.amount, job.amount, job.key)
<1>1. /\ job \in TillJob /\ job.at = "request" /\ job.kind = "ISSUE"
      /\ job.key \in RequestIds /\ job.expires \in Expiries /\ job.amount \in Nat
  <2>1. job \in TillJob /\ TillFits(w) /\ job.at = "request" /\ job.kind = "ISSUE"
    BY DEF GiftInv, GiftTyped, TillsFit, Issue
  <2> QED BY <2>1 DEF TillFits, TillJob
<1>2. /\ cards \in Seq(GiftCard) /\ cardRows \in Seq(GiftRow)
      /\ DOMAIN cards = 1..Len(cards) /\ Len(cards) \in Nat
  BY DEF GiftInv, GiftTyped
<1>3. card \in GiftCard /\ row \in GiftRow /\ n \in Nat
  BY <1>0, <1>1, <1>2 DEF GiftCard, GiftRow, CardRow
<1>4. /\ cards' = Append(cards, card) /\ cardRows' = Append(cardRows, row) /\ Done(w)
      /\ RowsOfRequest(job.key) = {} /\ ~RequestHeld(w)
  BY <1>0 DEF Issue
<1>5. /\ row.card = n /\ row.kind = "ISSUE" /\ row.amount = job.amount /\ row.key = job.key
      /\ card.balance = job.amount /\ Signed(row) = job.amount
  BY DEF CardRow, Signed
<1> HIDE DEF card, row
<1>6. /\ cards' \in Seq(GiftCard) /\ cards'[n] = card /\ n \notin DOMAIN cards
      /\ DOMAIN cards' = DOMAIN cards \cup {n}
      /\ \A c \in DOMAIN cards : cards'[c] = cards[c]
  BY <1>0, <1>2, <1>3, <1>4
<1>7. /\ cardRows' \in Seq(GiftRow) /\ cardRows'[m] = row
      /\ DOMAIN cardRows' = DOMAIN cardRows \cup {m}
      /\ \A i \in DOMAIN cardRows : cardRows'[i] = cardRows[i] /\ i # m /\ i <= m
      /\ m \in Nat
  BY <1>2, <1>3, <1>4, OneMoreRow
<1>8. \A i \in DOMAIN cardRows : cardRows[i].card \in DOMAIN cards /\ cardRows[i].card # n
  BY <1>6 DEF GiftInv, IssuedFirst
<1>9. /\ till' \in [Tills -> TillJob] /\ till'[w] = Resting
      /\ \A v \in Tills \ {w} : till'[v] = till[v]
      /\ LocksFit'
  BY <1>4, LocksOfOthers
<1>10. GiftTyped' /\ OncePerRequest'
  BY <1>3, <1>4, <1>5, <1>6, <1>7, <1>9, KeyIsNew DEF GiftTyped
<1>11. IssuedFirst'
  <2>1. \A i \in DOMAIN cardRows' : cardRows'[i].card \in DOMAIN cards'
    BY <1>5, <1>6, <1>7, <1>8
  <2>2. ASSUME NEW i \in DOMAIN cardRows', NEW k \in DOMAIN cardRows',
               cardRows'[i].kind = "ISSUE", cardRows'[k].card = cardRows'[i].card
        PROVE  i <= k
    <3>1. CASE i \in DOMAIN cardRows /\ k \in DOMAIN cardRows
      BY <1>7, <2>2, <3>1 DEF GiftInv, IssuedFirst
    <3>2. CASE i = m /\ k = m
      BY <1>7, <3>2
    <3>3. CASE i \in DOMAIN cardRows /\ k = m
      BY <1>7, <3>3
    <3>4. CASE i = m /\ k \in DOMAIN cardRows
      BY <1>5, <1>7, <1>8, <2>2, <3>4
    <3> QED BY <1>7, <3>1, <3>2, <3>3, <3>4
  <2> QED BY <2>1, <2>2 DEF IssuedFirst
<1>12. CardIsItsRows'
  <2>1. ASSUME NEW c \in DOMAIN cards
        PROVE  cards'[c].balance = Said(RowsOfCard(c))' /\ cards'[c].balance >= 0
    <3>1. Said(RowsOfCard(c))' = Said(RowsOfCard(c)) + 0
      BY <1>2, <1>3, <1>4, <1>5, <1>6, SaidAppended
    <3>2. Said(RowsOfCard(c)) \in Int
      BY <1>2, SaidType
    <3> QED BY <1>6, <3>1, <3>2 DEF GiftInv, CardIsItsRows
  <2>2. cards'[n].balance = Said(RowsOfCard(n))' /\ cards'[n].balance >= 0
    <3>1. RowsOfCard(n) = {}
      BY <1>8 DEF RowsOfCard
    <3> DEFINE f == [i \in 1..Len(cardRows) |->
                       IF i \in RowsOfCard(n) THEN Signed(cardRows[i]) ELSE 0]
    <3>2. \A i \in 1..Len(cardRows) : f[i] = 0
      BY <3>1
    <3>3. Said(RowsOfCard(n)) = Total(f, Len(cardRows))
      BY DEF Said
    <3>4. Len(cardRows) \in Nat
      BY <1>2
    <3> HIDE DEF f
    <3>5. Said(RowsOfCard(n)) = 0
      BY <3>2, <3>3, <3>4, TotalZero
    <3>6. Said(RowsOfCard(n))' = Said(RowsOfCard(n)) + job.amount
      BY <1>2, <1>3, <1>4, <1>5, SaidAppended
    <3> QED BY <1>1, <1>5, <1>6, <3>5, <3>6
  <2> QED BY <1>6, <2>1, <2>2 DEF CardIsItsRows
<1>13. TillsFit'
  <2>1. ASSUME NEW v \in Tills \ {w} PROVE TillFits(v)'
    <3>1. TillFits(v) /\ till'[v] = till[v]
      BY <1>9 DEF GiftInv, TillsFit
    <3>2. till[v].card \in DOMAIN cards =>
            till[v].card \in DOMAIN cards' /\ cards'[till[v].card] = cards[till[v].card]
      BY <1>6
    <3>3. ASSUME HasRequest(v) PROVE RowsOfRequest(till[v].key)' = {}
      <4>1. till[v].key # row.key
        BY <1>4, <1>5, <3>3 DEF RequestHeld, HasRequest
      <4>2. RowsOfRequest(till[v].key) = {}
        BY <3>1, <3>3 DEF TillFits
      <4> QED BY <1>7, <3>1, <4>1, <4>2 DEF RowsOfRequest
    <3>4. (HasRequest(v)' <=> HasRequest(v)) /\ (HasCard(v)' <=> HasCard(v))
      BY <3>1 DEF HasRequest, HasCard
    <3>5. HasCard(v) => till[v].card \in DOMAIN cards
      BY <3>1 DEF TillFits, HasCard, HasRequest
    <3> QED BY <3>1, <3>2, <3>3, <3>4, <3>5 DEF TillFits
  <2>2. TillFits(w)'
    BY <1>9 DEF TillFits, HasRequest, HasCard, Resting
  <2> QED BY <2>1, <2>2 DEF TillsFit
<1> QED BY <1>9, <1>10, <1>11, <1>12, <1>13 DEF GiftInv

LEMMA RedeemKeeps ==
  ASSUME GiftInv, NEW w \in Tills, Redeem(w)
  PROVE  GiftInv'
<1> DEFINE job == till[w]
           m == Len(cardRows) + 1
<1>1. PICK c : c = job.card
  OBVIOUS
<1>2. PICK after : after = job.seen - job.amount
  OBVIOUS
<1> DEFINE card == [cards[c] EXCEPT !.balance = after, !.status = StatusOf(after)]
           row == CardRow(c, "REDEEM", job.amount, after, job.key)
<1>3. /\ job \in TillJob /\ job.at = "write" /\ HasCard(w) /\ HasRequest(w)
      /\ job.key \in RequestIds /\ c \in DOMAIN cards
      /\ RowsOfRequest(job.key) = {} /\ job.seen = cards[c].balance
      /\ job.amount <= job.seen /\ job.amount \in Nat /\ job.seen \in Int
  <2>1. job \in TillJob /\ TillFits(w) /\ job.at = "write"
    BY DEF GiftInv, GiftTyped, TillsFit, Redeem
  <2> QED BY <1>1, <2>1 DEF TillFits, TillJob, HasCard, HasRequest
<1>4. /\ cards \in Seq(GiftCard) /\ cardRows \in Seq(GiftRow)
      /\ c \in Nat /\ cards[c] \in GiftCard /\ after \in Int /\ after >= 0
      /\ after <= cards[c].balance /\ cards[c].balance - job.amount = after
  BY <1>2, <1>3, CardType DEF GiftInv, GiftTyped
<1>5. card \in GiftCard /\ row \in GiftRow /\ card.balance = after
  BY <1>3, <1>4 DEF GiftCard, GiftRow, CardRow, StatusOf
<1>6. /\ cards' = [cards EXCEPT ![c] = card] /\ cardRows' = Append(cardRows, row) /\ Done(w)
  <2>1. cards' = [cards EXCEPT ![c].balance = after, ![c].status = StatusOf(after)]
    BY <1>1, <1>2 DEF Redeem
  <2>2. cards' = [cards EXCEPT ![c] = card]
    BY <1>3, <1>4, <2>1 DEF GiftCard
  <2> QED BY <1>1, <1>2, <2>2 DEF Redeem
<1>7. /\ row.card = c /\ row.kind = "REDEEM" /\ row.amount = job.amount /\ row.key = job.key
      /\ Signed(row) = -job.amount
  BY DEF CardRow, Signed
<1> HIDE DEF card, row
<1>8. /\ cards' \in Seq(GiftCard) /\ cards'[c] = card /\ DOMAIN cards' = DOMAIN cards
      /\ \A d \in DOMAIN cards : d # c => cards'[d] = cards[d]
  BY <1>3, <1>4, <1>5, <1>6
<1>9. /\ cardRows' \in Seq(GiftRow) /\ cardRows'[m] = row
      /\ DOMAIN cardRows' = DOMAIN cardRows \cup {m}
      /\ \A i \in DOMAIN cardRows : cardRows'[i] = cardRows[i] /\ i # m /\ i <= m
      /\ m \in Nat
  BY <1>4, <1>5, <1>6, OneMoreRow
<1>10. /\ till' \in [Tills -> TillJob] /\ till'[w] = Resting
       /\ \A v \in Tills \ {w} : till'[v] = till[v]
       /\ LocksFit'
  BY <1>6, LocksOfOthers
<1>11. GiftTyped' /\ OncePerRequest'
  BY <1>3, <1>5, <1>6, <1>7, <1>8, <1>9, <1>10, KeyIsNew DEF GiftTyped
<1>12. IssuedFirst'
  <2>1. \A i \in DOMAIN cardRows' : cardRows'[i].card \in DOMAIN cards'
    BY <1>3, <1>7, <1>8, <1>9 DEF GiftInv, IssuedFirst
  <2>2. ASSUME NEW i \in DOMAIN cardRows', NEW k \in DOMAIN cardRows',
               cardRows'[i].kind = "ISSUE", cardRows'[k].card = cardRows'[i].card
        PROVE  i <= k
    <3>1. i # m
      BY <1>7, <1>9, <2>2
    <3>2. CASE k \in DOMAIN cardRows
      BY <1>9, <2>2, <3>1, <3>2 DEF GiftInv, IssuedFirst
    <3>3. CASE k = m
      BY <1>9, <3>1, <3>3
    <3> QED BY <1>9, <3>2, <3>3
  <2> QED BY <2>1, <2>2 DEF IssuedFirst
<1>13. CardIsItsRows'
  <2>1. ASSUME NEW d \in DOMAIN cards
        PROVE  cards'[d].balance = Said(RowsOfCard(d))' /\ cards'[d].balance >= 0
    <3>1. Said(RowsOfCard(d))' = Said(RowsOfCard(d)) + (IF c = d THEN -job.amount ELSE 0)
      BY <1>4, <1>5, <1>6, <1>7, SaidAppended
    <3>2. Said(RowsOfCard(d)) \in Int
      BY <1>4, SaidType
    <3>3. cards[d].balance = Said(RowsOfCard(d)) /\ cards[d].balance >= 0
      BY DEF GiftInv, CardIsItsRows
    <3>4. CASE d = c
      BY <1>3, <1>4, <1>5, <1>8, <3>1, <3>2, <3>3, <3>4
    <3>5. CASE d # c
      BY <1>8, <3>1, <3>2, <3>3, <3>5
    <3> QED BY <3>4, <3>5
  <2> QED BY <1>8, <2>1 DEF CardIsItsRows
<1>14. TillsFit'
  <2>1. ASSUME NEW v \in Tills \ {w} PROVE TillFits(v)'
    <3>1. TillFits(v) /\ till'[v] = till[v] /\ till[v] \in TillJob
      BY <1>10 DEF GiftInv, TillsFit, GiftTyped
    <3>2. (HasRequest(v)' <=> HasRequest(v)) /\ (HasCard(v)' <=> HasCard(v))
      BY <3>1 DEF HasRequest, HasCard
    <3>3. ASSUME HasRequest(v) PROVE RowsOfRequest(till[v].key)' = {}
      <4>1. till[v].key # row.key
        BY <1>3, <1>7, <3>3 DEF GiftInv, LocksFit
      <4>2. RowsOfRequest(till[v].key) = {}
        BY <3>1, <3>3 DEF TillFits
      <4> QED BY <1>9, <3>1, <4>1, <4>2 DEF RowsOfRequest
    <3>4. ASSUME HasCard(v) PROVE cards'[till[v].card] = cards[till[v].card]
      <4>1. till[v].card # c /\ till[v].card \in DOMAIN cards
        BY <1>1, <1>3, <3>1, <3>4 DEF GiftInv, LocksFit, TillFits, HasCard, HasRequest
      <4> QED BY <1>8, <4>1
    <3>5. ASSUME till[v].at = "rows" PROVE cards'[till[v].card].balance <= till[v].seen
      <4>1. /\ till[v].card \in DOMAIN cards /\ till[v].seen \in Int
            /\ cards[till[v].card].balance <= till[v].seen
        BY <3>1, <3>5 DEF TillFits, TillJob
      <4>2. CASE till[v].card = c
        <5>1. cards[c].balance \in Int /\ cards'[c].balance = after
          BY <1>3, <1>5, <1>8, CardType DEF GiftInv
        <5> QED BY <1>4, <4>1, <4>2, <5>1
      <4>3. CASE till[v].card # c
        BY <1>8, <4>1, <4>3
      <4> QED BY <4>2, <4>3
    <3> QED BY <1>8, <3>1, <3>2, <3>3, <3>4, <3>5 DEF TillFits
  <2>2. TillFits(w)'
    BY <1>10 DEF TillFits, HasRequest, HasCard, Resting
  <2> QED BY <2>1, <2>2 DEF TillsFit
<1> QED BY <1>10, <1>11, <1>12, <1>13, <1>14 DEF GiftInv

LEMMA GiftsIdle ==
  ASSUME GiftInv, UNCHANGED <<cards, cardRows, till>>
  PROVE  GiftInv'
<1>1. GiftTyped' /\ LocksFit' /\ IssuedFirst' /\ OncePerRequest'
  BY DEF GiftInv, GiftTyped, LocksFit, HasRequest, HasCard, IssuedFirst, OncePerRequest
<1>2. CardIsItsRows'
  BY DEF GiftInv, CardIsItsRows, Said, RowsOfCard, Signed
<1>3. TillsFit'
  BY DEF GiftInv, TillsFit, TillFits, HasRequest, HasCard, RowsOfRequest
<1> QED BY <1>1, <1>2, <1>3 DEF GiftInv

LEMMA GiftStepsKeep ==
  ASSUME GiftInv, [GiftNext]_giftVars
  PROVE  GiftInv'
<1>1. ASSUME NEW w \in Tills, Serves(w) PROVE GiftInv'
  <2>1. CASE Replay(w)
    BY <2>1, DoneKeeps DEF Replay, Refused
  <2>2. CASE RefuseRedeem(w)
    BY <2>2, DoneKeeps DEF RefuseRedeem
  <2>3. CASE RollBack(w)
    BY <2>3, DoneKeeps DEF RollBack
  <2> QED BY <1>1, <2>1, <2>2, <2>3, IssueKeeps, LockRequestKeeps, LockCardKeeps, RedeemKeeps,
             ViewRowsKeeps DEF Serves
<1>2. CASE Tomorrow
  BY <1>2, GiftsIdle DEF Tomorrow
<1>3. CASE UNCHANGED giftVars
  BY <1>3, GiftsIdle DEF giftVars
<1> QED BY <1>1, <1>2, <1>3, AsksKeep DEF GiftNext

-----------------------------------------------------------------------------
(* The theorems.                                                           *)

\* The inductive invariant holds in every reachable state.
THEOREM GiftInvAlways == GiftSpec => []GiftInv
<1> QED BY GiftsAtFirst, GiftStepsKeep, PTL DEF GiftSpec

\* However the tills interleave, fail and repeat their requests, the balance
\* of every card is what was issued on it minus what was redeemed, never
\* below zero, and a requestId moves money at most once: the advisory lock on
\* the requestId and the row lock of the card are what the proof rests on.
THEOREM GiftMoneyCorrect == GiftSpec => []GiftMoneyKept
<1>1. GiftInv => GiftMoneyKept
  BY DEF GiftInv, GiftMoneyKept
<1> QED BY <1>1, GiftInvAlways, PTL

\* The ledger view reads the card and the rows in two statements, and only
\* the latest rows: whatever happens in between and whatever is cut off, it
\* never reports more than is stored.
THEOREM ViewCorrect == GiftSpec => []ViewNeverOver
<1>1. GiftInv => ViewNeverOver
  BY DEF GiftInv, TillsFit, TillFits, ViewNeverOver
<1> QED BY <1>1, GiftInvAlways, PTL

-----------------------------------------------------------------------------
(***************************************************************************)
(* Proofs about PaymentEvents for any payments, payloads, customers and    *)
(* requests at once, and any number of awards.                             *)
(*                                                                         *)
(* What makes the property inductive is that a delivery and a resolution   *)
(* use the same key for an event (KeysAreEvents), and that a request about *)
(* to record an award knows one of its event, made by itself or by another *)
(* (WorkFits).                                                             *)
(***************************************************************************)

AwardRow ==
  [event : Payments, key : Payments, guest : Guests \cup {Absent}, manual : BOOLEAN]

EventsWork ==
  [at : {"idle", "sort", "award", "record", "catch"}, event : Payments \cup {Absent},
   payload : Payload \cup {Absent}, guest : Guests \cup {Absent}, manual : BOOLEAN,
   row : Nat, outcome : {"none", "FAILED", "PENDING_MAPPING"}]

EventsTypeOK ==
  /\ events \in [Payments -> EventRow \cup {Absent}]
  /\ awarded \in Seq(AwardRow)
  /\ handler \in [Handlers -> EventsWork]

KeysAreEvents == \A i \in DOMAIN awarded : awarded[i].key = awarded[i].event

LinkFits(row, e, table) ==
  /\ row.status = "APPLIED" => row.linked # 0
  /\ row.linked # 0 => row.linked \in DOMAIN table /\ table[row.linked].event = e

WorkFits(job, rows, table) ==
  /\ job.at # "idle" => job.event \in Payments /\ rows[job.event] \in EventRow
  /\ job.at = "record" => job.row \in DOMAIN table /\ table[job.row].event = job.event
  /\ job.at = "catch" => job.outcome # "none"

EventsInv ==
  /\ EventsTypeOK
  /\ KeysAreEvents /\ PaidOnce
  /\ \A e \in Payments : events[e] # Absent => LinkFits(events[e], e, awarded)
  /\ \A h \in Handlers : WorkFits(handler[h], events, awarded)

-----------------------------------------------------------------------------

LEMMA EventsInitially ==
  ASSUME PaymentInit
  PROVE  EventsInv
<1>1. EventsTypeOK
  BY EmptySeq DEF PaymentInit, EventsTypeOK, NoWork, EventsWork
<1>2. KeysAreEvents /\ PaidOnce
  BY DEF PaymentInit, KeysAreEvents, PaidOnce
<1> QED
  BY <1>1, <1>2 DEF PaymentInit, EventsInv, WorkFits, NoWork

\* A step of one request that leaves the awards alone and writes at most the
\* row of its event.
LEMMA OneRequest ==
  ASSUME PaymentAssumption, EventsInv, NEW h \in Handlers, NEW job \in EventsWork,
         handler' = [handler EXCEPT ![h] = job],
         NEW e \in Payments, NEW row \in EventRow,
         LinkFits(row, e, awarded),
         events' = events \/ events' = [events EXCEPT ![e] = row],
         WorkFits(job, events', awarded),
         UNCHANGED awarded
  PROVE  EventsInv'
<1>1. EventsTypeOK'
  BY DEF EventsInv, EventsTypeOK
<1>2. KeysAreEvents' /\ PaidOnce'
  BY DEF EventsInv, KeysAreEvents, PaidOnce
<1>3. ASSUME NEW f \in Payments, events'[f] # Absent PROVE LinkFits(events'[f], f, awarded)
  BY <1>3 DEF EventsInv, EventsTypeOK
<1>4. ASSUME NEW g \in Handlers PROVE WorkFits(handler'[g], events', awarded)
  <2>1. CASE g = h
    BY <2>1 DEF EventsInv, EventsTypeOK
  <2>2. CASE g # h
    <3>1. handler'[g] = handler[g] /\ WorkFits(handler[g], events, awarded)
      BY <2>2 DEF EventsInv, EventsTypeOK
    <3>2. \A f \in Payments : events[f] \in EventRow => events'[f] \in EventRow
      BY DEF EventsInv, EventsTypeOK
    <3> QED
      BY <3>1, <3>2 DEF WorkFits
  <2> QED
    BY <2>1, <2>2
<1> QED
  BY <1>1, <1>2, <1>3, <1>4 DEF EventsInv

\* One that leaves the rows of the events alone as well.
LEMMA OnlyWork ==
  ASSUME EventsInv, NEW h \in Handlers, NEW job \in EventsWork,
         handler' = [handler EXCEPT ![h] = job],
         WorkFits(job, events, awarded),
         UNCHANGED <<events, awarded>>
  PROVE  EventsInv'
<1>1. EventsTypeOK'
  BY DEF EventsInv, EventsTypeOK
<1>2. KeysAreEvents' /\ PaidOnce'
  BY DEF EventsInv, KeysAreEvents, PaidOnce
<1>3. ASSUME NEW g \in Handlers PROVE WorkFits(handler'[g], events, awarded)
  BY DEF EventsInv, EventsTypeOK
<1> QED
  BY <1>1, <1>2, <1>3 DEF EventsInv

LEMMA NoWorkFits ==
  NoWork \in EventsWork /\ NoWork.at = "idle" /\ WorkFits(NoWork, events', awarded)
  /\ WorkFits(NoWork, events, awarded)
  BY DEF NoWork, EventsWork, WorkFits

\* What a request that is not idle may take for granted.
LEMMA Known ==
  ASSUME EventsInv, NEW h \in Handlers, handler[h].at # "idle"
  PROVE  /\ handler[h] \in EventsWork /\ WorkFits(handler[h], events, awarded)
         /\ handler[h].event \in Payments
         /\ events[handler[h].event] \in EventRow
         /\ events \in [Payments -> EventRow \cup {Absent}]
         /\ handler \in [Handlers -> EventsWork]
  BY DEF EventsInv, EventsTypeOK, WorkFits

-----------------------------------------------------------------------------

LEMMA ReceiveKeeps ==
  ASSUME PaymentAssumption, EventsInv, NEW h \in Handlers, NEW e \in Payments, NEW p \in Payloads,
         Receive(h, e, p)
  PROVE  EventsInv'
<1> DEFINE row == IF events[e] = Absent
                  THEN [status |-> "RECEIVED", linked |-> 0, slug |-> p.slug]
                  ELSE events[e]
           job == [NoWork EXCEPT !.at = "sort", !.event = e, !.payload = p, !.guest = p.guest]
<1>1. p \in Payload /\ p.slug \in BOOLEAN /\ p.guest \in Guests \cup {Absent}
  BY DEF PaymentAssumption, Payload
<1>2. row \in EventRow /\ LinkFits(row, e, awarded)
  <2>1. CASE events[e] = Absent
    BY <1>1, <2>1 DEF EventRow, LinkFits
  <2>2. CASE events[e] # Absent
    BY <2>2 DEF EventsInv, EventsTypeOK
  <2> QED
    BY <2>1, <2>2
<1>3. events' = [events EXCEPT ![e] = row] /\ UNCHANGED awarded
  BY DEF Receive
<1>4. events'[e] = row
  BY <1>3 DEF EventsInv, EventsTypeOK
<1>5. CASE UNCHANGED handler
  <2>1. handler' = [handler EXCEPT ![h] = handler[h]] /\ handler[h] \in EventsWork
    BY <1>5 DEF EventsInv, EventsTypeOK
  <2>2. WorkFits(handler[h], events', awarded)
    BY DEF Receive, WorkFits
  <2> QED
    BY <1>2, <1>3, <2>1, <2>2, OneRequest
<1>6. CASE handler' = [handler EXCEPT ![h] = job]
  <2>1. job.at = "sort" /\ job.event = e
    BY DEF NoWork
  <2>2. job \in EventsWork
    BY <1>1 DEF NoWork, EventsWork
  <2>3. WorkFits(job, events', awarded)
    BY <1>2, <1>4, <2>1 DEF WorkFits
  <2> QED
    BY <1>2, <1>3, <1>6, <2>2, <2>3, OneRequest
<1> QED
  BY <1>5, <1>6 DEF Receive

\* The status alone changes, to one that needs no link.
LEMMA StatusFits ==
  ASSUME PaymentAssumption, EventsInv, NEW e \in Payments, events[e] \in EventRow,
         NEW status \in {"IGNORED", "PENDING_MAPPING", "FAILED"}
  PROVE  LET row == [events[e] EXCEPT !.status = status]
             known == [events[e] EXCEPT !.status = status, !.slug = TRUE]
         IN  /\ row \in EventRow /\ LinkFits(row, e, awarded)
             /\ known \in EventRow /\ LinkFits(known, e, awarded)
             /\ SetStatus(e, status) => events' = [events EXCEPT ![e] = row]
<1>1. LinkFits(events[e], e, awarded)
  BY DEF EventsInv, PaymentAssumption
<1> QED
  BY <1>1 DEF EventRow, LinkFits, SetStatus

LEMMA ParkKeeps ==
  ASSUME PaymentAssumption, EventsInv, NEW h \in Handlers, Park(h)
  PROVE  EventsInv'
<1>1. handler[h].at # "idle"
  BY DEF Park
<1> DEFINE e == handler[h].event
           status == IF handler[h].payload.approved THEN "PENDING_MAPPING" ELSE "IGNORED"
<1>2. e \in Payments /\ events[e] \in EventRow
  BY <1>1, Known
<1>3. SetStatus(e, status) /\ status \in {"IGNORED", "PENDING_MAPPING", "FAILED"}
      /\ handler' = [handler EXCEPT ![h] = NoWork] /\ UNCHANGED awarded
  BY DEF Park, Ends
<1> HIDE DEF status
<1>4. [events[e] EXCEPT !.status = status] \in EventRow
      /\ LinkFits([events[e] EXCEPT !.status = status], e, awarded)
      /\ events' = [events EXCEPT ![e] = [events[e] EXCEPT !.status = status]]
  BY <1>2, <1>3, StatusFits
<1> QED
  BY <1>2, <1>3, <1>4, NoWorkFits, OneRequest

LEMMA ResolveKeeps ==
  ASSUME PaymentAssumption, EventsInv, NEW h \in Handlers, NEW e \in Payments, NEW g \in Guests,
         Resolve(h, e, g)
  PROVE  EventsInv'
<1> DEFINE job == [NoWork EXCEPT !.at = "award", !.event = e, !.guest = g, !.manual = TRUE]
<1>1. job.at = "award" /\ job.event = e
  BY DEF NoWork
<1>2. job \in EventsWork
  BY DEF NoWork, EventsWork
<1>3. events[e] \in EventRow
  BY DEF Resolve, EventsInv, EventsTypeOK
<1>4. WorkFits(job, events, awarded)
  BY <1>1, <1>3 DEF WorkFits
<1> QED
  BY <1>2, <1>4, OnlyWork DEF Resolve

LEMMA AskAwardKeeps ==
  ASSUME EventsInv, NEW h \in Handlers, AskAward(h)
  PROVE  EventsInv'
<1> DEFINE job == [handler[h] EXCEPT !.at = "award"]
<1>1. handler[h].at # "idle"
  BY DEF AskAward
<1>2. handler' = [handler EXCEPT ![h] = job] /\ UNCHANGED <<events, awarded>>
  BY <1>1, Known DEF AskAward, Goes
<1>3. job \in EventsWork /\ WorkFits(job, events, awarded)
  BY <1>1, Known DEF EventsWork, WorkFits
<1> QED
  BY <1>2, <1>3, OnlyWork

\* A request that found or made the award of its event, and has read its row.
LEMMA WithRow ==
  ASSUME NEW job \in EventsWork, NEW rows, NEW table, WorkFits(job, rows, table), job.at # "idle",
         NEW i \in Nat, i \in DOMAIN table, table[i].event = job.event
  PROVE  LET found == [job EXCEPT !.at = "record", !.row = i]
         IN  found \in EventsWork /\ WorkFits(found, rows, table)
  BY DEF EventsWork, WorkFits

LEMMA Failing ==
  ASSUME NEW job \in EventsWork, NEW rows, NEW table, WorkFits(job, rows, table), job.at # "idle",
         NEW outcome \in {"FAILED", "PENDING_MAPPING"}
  PROVE  LET caught == [job EXCEPT !.at = "catch", !.outcome = outcome]
         IN  caught \in EventsWork /\ WorkFits(caught, rows, table)
  BY DEF EventsWork, WorkFits

\* The one step that adds an award: of an event that has none.
LEMMA AwardKeeps ==
  ASSUME EventsInv, NEW h \in Handlers, Award(h)
  PROVE  EventsInv'
<1> DEFINE job == handler[h]
           new == [event |-> job.event, key |-> KeyOf(job), guest |-> job.guest, manual |-> job.manual]
           n == Len(awarded) + 1
<1>1. job.at = "award" /\ job \in EventsWork /\ job.event \in Payments
      /\ WorkFits(job, events, awarded) /\ handler \in [Handlers -> EventsWork]
  BY Known DEF Award
<1>2. KeyOf(job) = job.event
  BY DEF KeyOf, AwardKey, ResolvedKey
<1>3. new \in AwardRow
  BY <1>1, <1>2 DEF AwardRow, EventsWork
<1>4. /\ Len(awarded) \in Nat /\ DOMAIN awarded = 1..Len(awarded)
      /\ awarded' \in Seq(AwardRow) /\ DOMAIN awarded' = 1..n
      /\ awarded'[n] = new
      /\ \A i \in DOMAIN awarded : awarded'[i] = awarded[i]
  BY <1>3, AppendProperties, LenProperties DEF Award, EventsInv, EventsTypeOK
<1>5. \A i \in DOMAIN awarded : awarded[i].event # job.event
  BY <1>2 DEF Award, AwardsWith, EventsInv, KeysAreEvents
<1>6. KeysAreEvents'
  BY <1>2, <1>4 DEF EventsInv, KeysAreEvents
<1>7. PaidOnce'
  <2>1. ASSUME NEW i \in DOMAIN awarded', NEW k \in DOMAIN awarded',
               awarded'[i].event = awarded'[k].event
        PROVE  i = k
    <3>1. i \in DOMAIN awarded \/ i = n
      BY <1>4
    <3>2. k \in DOMAIN awarded \/ k = n
      BY <1>4
    <3> QED
      BY <1>4, <1>5, <2>1, <3>1, <3>2 DEF EventsInv, PaidOnce
  <2> QED
    BY <2>1 DEF PaidOnce
<1>8. ASSUME NEW e \in Payments, events[e] # Absent PROVE LinkFits(events[e], e, awarded')
  BY <1>4, <1>8 DEF EventsInv, LinkFits
<1>9. \A x : WorkFits(x, events, awarded) => WorkFits(x, events, awarded')
  BY <1>4 DEF WorkFits
<1>10. PICK x \in EventsWork : /\ handler' = [handler EXCEPT ![h] = x]
                         /\ WorkFits(x, events, awarded')
  <2>1. CASE handler' = [handler EXCEPT ![h].at = "record", ![h].row = n]
    <3>1. handler' = [handler EXCEPT ![h] = [job EXCEPT !.at = "record", !.row = n]]
      BY <1>1, <2>1
    <3>2. n \in Nat /\ n \in DOMAIN awarded' /\ awarded'[n].event = job.event
      BY <1>4
    <3>3. WorkFits(job, events, awarded')
      BY <1>1, <1>9
    <3> QED
      BY <1>1, <3>1, <3>2, <3>3, WithRow
  <2>2. CASE handler' = [handler EXCEPT ![h].at = "catch", ![h].outcome = "FAILED"]
    <3>1. handler' = [handler EXCEPT ![h] = [job EXCEPT !.at = "catch", !.outcome = "FAILED"]]
      BY <1>1, <2>2
    <3> QED
      BY <1>1, <1>9, <3>1, Failing
  <2> QED
    BY <2>1, <2>2 DEF Award
<1>11. ASSUME NEW g \in Handlers PROVE WorkFits(handler'[g], events, awarded')
  BY <1>1, <1>9, <1>10 DEF EventsInv
<1>12. EventsTypeOK'
  BY <1>4, <1>10 DEF Award, EventsInv, EventsTypeOK
<1> QED
  BY <1>6, <1>7, <1>8, <1>11, <1>12 DEF Award, EventsInv

LEMMA AwardAgainKeeps ==
  ASSUME EventsInv, NEW h \in Handlers, AwardAgain(h)
  PROVE  EventsInv'
<1> DEFINE job == handler[h]
<1>1. job.at = "award" /\ job \in EventsWork /\ WorkFits(job, events, awarded)
      /\ handler \in [Handlers -> EventsWork]
  BY Known DEF AwardAgain
<1>2. PICK i \in AwardsWith(KeyOf(job)) :
        handler' = [handler EXCEPT ![h].at = "record", ![h].row = i]
  BY DEF AwardAgain
<1>3. i \in DOMAIN awarded /\ i \in Nat /\ awarded[i].event = job.event
  BY <1>2, LenProperties DEF AwardsWith, KeyOf, AwardKey, ResolvedKey, EventsInv, EventsTypeOK, KeysAreEvents
<1>4. handler' = [handler EXCEPT ![h] = [job EXCEPT !.at = "record", !.row = i]]
  BY <1>1, <1>2
<1>5. [job EXCEPT !.at = "record", !.row = i] \in EventsWork
      /\ WorkFits([job EXCEPT !.at = "record", !.row = i], events, awarded)
  BY <1>1, <1>3, WithRow
<1> QED
  BY <1>4, <1>5, OnlyWork DEF AwardAgain

LEMMA AwardFailsKeeps ==
  ASSUME EventsInv, NEW h \in Handlers, AwardFails(h)
  PROVE  EventsInv'
<1> DEFINE job == handler[h]
           outcome == IF accepting /\ job.guest \notin members THEN "PENDING_MAPPING" ELSE "FAILED"
<1>1. job.at = "award" /\ job \in EventsWork /\ WorkFits(job, events, awarded)
      /\ handler \in [Handlers -> EventsWork]
  BY Known DEF AwardFails
<1>2. handler' = [handler EXCEPT ![h].at = "catch", ![h].outcome = outcome]
      /\ outcome \in {"FAILED", "PENDING_MAPPING"}
  BY DEF AwardFails
<1> HIDE DEF outcome
<1>3. handler' = [handler EXCEPT ![h] = [job EXCEPT !.at = "catch", !.outcome = outcome]]
  BY <1>1, <1>2
<1>4. [job EXCEPT !.at = "catch", !.outcome = outcome] \in EventsWork
      /\ WorkFits([job EXCEPT !.at = "catch", !.outcome = outcome], events, awarded)
  BY <1>1, <1>2, Failing
<1> QED
  BY <1>3, <1>4, OnlyWork DEF AwardFails

\* The row of the event as it is written with the award.
LEMMA AppliedFits ==
  ASSUME EventsInv, NEW h \in Handlers, handler[h].at = "record"
  PROVE  /\ AppliedRow(handler[h]) \in EventRow
         /\ LinkFits(AppliedRow(handler[h]), handler[h].event, awarded)
<1> DEFINE e == handler[h].event
<1>1. handler[h] \in EventsWork /\ WorkFits(handler[h], events, awarded)
      /\ e \in Payments /\ events[e] \in EventRow
  BY Known
<1>2. handler[h].row \in DOMAIN awarded /\ awarded[handler[h].row].event = e
  BY <1>1 DEF WorkFits
<1>3. handler[h].row \in Nat \ {0}
  BY <1>2, LenProperties DEF EventsInv, EventsTypeOK
<1> QED
  BY <1>1, <1>2, <1>3 DEF EventRow, LinkFits, AppliedRow

LEMMA RecordKeeps ==
  ASSUME PaymentAssumption, EventsInv, NEW h \in Handlers, Record(h)
  PROVE  EventsInv'
<1> DEFINE e == handler[h].event
<1>1. /\ AppliedRow(handler[h]) \in EventRow /\ LinkFits(AppliedRow(handler[h]), e, awarded)
      /\ events' = [events EXCEPT ![e] = AppliedRow(handler[h])]
  BY AppliedFits DEF Record
<1>2. e \in Payments
  BY Known DEF Record
<1>3. handler' = [handler EXCEPT ![h] = NoWork] /\ UNCHANGED awarded
  BY DEF Record, Ends
<1> QED
  BY <1>1, <1>2, <1>3, NoWorkFits, OneRequest

LEMMA RecordFailsKeeps ==
  ASSUME PaymentAssumption, EventsInv, NEW h \in Handlers, RecordFails(h)
  PROVE  EventsInv'
<1> DEFINE e == handler[h].event
           row == AppliedRow(handler[h])
           job == [handler[h] EXCEPT !.at = "catch", !.outcome = "FAILED"]
<1>1. /\ row \in EventRow /\ LinkFits(row, e, awarded)
      /\ events' = events \/ events' = [events EXCEPT ![e] = row]
  BY AppliedFits DEF RecordFails
<1>2. e \in Payments /\ handler[h] \in EventsWork /\ WorkFits(handler[h], events, awarded)
      /\ handler[h].at = "record"
      /\ events[e] \in EventRow /\ events \in [Payments -> EventRow \cup {Absent}]
      /\ handler \in [Handlers -> EventsWork]
  BY Known DEF RecordFails
<1>3. handler' = [handler EXCEPT ![h] = job] /\ UNCHANGED awarded
  BY <1>2 DEF RecordFails
<1>4. job \in EventsWork /\ WorkFits(job, events, awarded)
  BY <1>2, Failing
<1>5. events'[e] \in EventRow
  BY <1>1, <1>2
<1>6. WorkFits(job, events', awarded)
  BY <1>2, <1>4, <1>5 DEF WorkFits, EventsWork
<1> HIDE DEF row, job
<1> QED
  BY <1>1, <1>2, <1>3, <1>4, <1>6, OneRequest

LEMMA CatchKeeps ==
  ASSUME PaymentAssumption, EventsInv, NEW h \in Handlers, Catch(h)
  PROVE  EventsInv'
<1> DEFINE e == handler[h].event
           row == FailedRow(handler[h])
<1>1. e \in Payments /\ events[e] \in EventRow
      /\ handler[h].outcome \in {"IGNORED", "PENDING_MAPPING", "FAILED"}
  BY Known DEF Catch, EventsWork, WorkFits
<1>2. row \in EventRow /\ LinkFits(row, e, awarded)
  BY <1>1, StatusFits DEF FailedRow
<1>3. events' = events \/ events' = [events EXCEPT ![e] = row]
  BY DEF Catch
<1>4. handler' = [handler EXCEPT ![h] = NoWork] /\ UNCHANGED awarded
  BY DEF Catch, Ends
<1> HIDE DEF row
<1> QED
  BY <1>1, <1>2, <1>3, <1>4, NoWorkFits, OneRequest

LEMMA AbandonKeeps ==
  ASSUME EventsInv, NEW h \in Handlers, Abandon(h)
  PROVE  EventsInv'
  BY NoWorkFits, OnlyWork DEF Abandon, Ends

-----------------------------------------------------------------------------

LEMMA EventsInductive ==
  ASSUME PaymentAssumption, EventsInv, [PaymentNext]_paymentVars
  PROVE  EventsInv'
<1>1. ASSUME UNCHANGED <<events, awarded, handler>> PROVE EventsInv'
  BY <1>1 DEF EventsInv, EventsTypeOK, KeysAreEvents, PaidOnce
<1>2. ASSUME NEW g \in Guests, Join(g) PROVE EventsInv'
  BY <1>1, <1>2 DEF Join
<1>3. CASE Toggle
  BY <1>1, <1>3 DEF Toggle
<1>4. CASE UNCHANGED paymentVars
  BY <1>1, <1>4 DEF paymentVars
<1> QED
  BY <1>2, <1>3, <1>4, ReceiveKeeps, ResolveKeeps, ParkKeeps, AskAwardKeeps, AwardKeeps,
     AwardAgainKeeps, AwardFailsKeeps, RecordKeeps, RecordFailsKeeps, CatchKeeps, AbandonKeeps
     DEF PaymentNext

(* However many deliveries and resolutions of however many events overlap  *)
(* and fail half-way: an event is awarded once, and what says APPLIED was. *)
THEOREM PaymentsCorrect ==
  ASSUME PaymentAssumption
  PROVE  PaymentSpec => []PaymentsSound
<1>1. PaymentInit => EventsInv
  BY EventsInitially
<1>2. EventsInv /\ [PaymentNext]_paymentVars => EventsInv'
  BY EventsInductive
<1>3. EventsInv => PaymentsSound
  BY DEF EventsInv, PaymentsSound, AppliedIsAwarded, LinkFits
<1> QED
  BY <1>1, <1>2, <1>3, PTL DEF PaymentSpec

-----------------------------------------------------------------------------
(***************************************************************************)
(* Proofs about OfflineQueue for any number of sales and tabs and any size *)
(* of a batch.                                                             *)
(*                                                                         *)
(* A tab deletes a sale from the queue on the word of the server, which it *)
(* heard some steps earlier.  The invariant says that the word holds:      *)
(* what a tab has been told is applied (HeardIsTrue).                      *)
(***************************************************************************)

QueueWork ==
  [at : {"open", "mark", "sent", "settle", "closed"}, batch : SUBSET Sales,
   left : SUBSET Sales, ok : SUBSET Sales]

QueueTypeOK ==
  /\ queue \in [Sales -> {"none", "queued", "syncing", "failed"}]
  /\ sale \in [Sales -> {"new", "done", "refused", "unsure", "saved"}]
  /\ applied \subseteq Sales
  /\ tab \in [Tabs -> QueueWork]

HeardIsTrue == \A t \in Tabs : tab[t].ok \subseteq applied

QueueInv == QueueTypeOK /\ HeardIsTrue /\ AcceptedIsKept

-----------------------------------------------------------------------------

LEMMA QueueInitially ==
  ASSUME QueueInit
  PROVE  QueueInv
  BY DEF QueueInit, QueueInv, QueueTypeOK, HeardIsTrue, AcceptedIsKept, Quiet, QueueWork

\* Marking what is stored keeps it stored.
LEMMA UpdatedKeeps ==
  ASSUME QueueTypeOK, NEW batch, NEW status \in {"queued", "syncing", "failed"}
  PROVE  /\ Updated(batch, status) \in [Sales -> {"none", "queued", "syncing", "failed"}]
         /\ \A s \in Sales : queue[s] # "none" => Updated(batch, status)[s] # "none"
  BY DEF QueueTypeOK, Updated, Stored

\* A step of a page or of the server: the tabs go on with what they heard.
LEMMA PageKeeps ==
  ASSUME QueueInv, NEW s \in Sales,
         SellOnline(s) \/ SellOffline(s) \/ Keep(s) \/ Forget(s) \/ ServeUnheard(s) \/ Expire(s)
  PROVE  QueueInv'
<1>1. CASE SellOnline(s)
  BY <1>1 DEF SellOnline, Applies, Refuses, QueueInv, QueueTypeOK, HeardIsTrue, AcceptedIsKept
<1>2. CASE SellOffline(s)
  BY <1>2 DEF SellOffline, Applies, Refuses, QueueInv, QueueTypeOK, HeardIsTrue, AcceptedIsKept
<1>3. CASE Keep(s)
  BY <1>3 DEF Keep, QueueInv, QueueTypeOK, HeardIsTrue, AcceptedIsKept
<1>4. CASE Forget(s)
  BY <1>4 DEF Forget, QueueInv, QueueTypeOK, HeardIsTrue, AcceptedIsKept
<1>5. CASE ServeUnheard(s)
  BY <1>5 DEF ServeUnheard, Applies, Refuses, QueueInv, QueueTypeOK, HeardIsTrue, AcceptedIsKept
<1>6. CASE Expire(s)
  BY <1>6 DEF Expire, QueueInv, QueueTypeOK, HeardIsTrue, AcceptedIsKept
<1> QED
  BY <1>1, <1>2, <1>3, <1>4, <1>5, <1>6

\* A tab whose word is true may forget or go on, if nothing leaves the queue.
LEMMA TabKeeps ==
  ASSUME QueueInv, NEW t \in Tabs, NEW work \in QueueWork, Becomes(t, work),
         work.ok \subseteq applied', applied \subseteq applied', applied' \subseteq Sales,
         queue' \in [Sales -> {"none", "queued", "syncing", "failed"}],
         \A s \in Sales : queue[s] # "none" => queue'[s] # "none" \/ s \in applied',
         UNCHANGED sale
  PROVE  QueueInv'
<1>1. QueueTypeOK'
  BY DEF QueueInv, QueueTypeOK, Becomes
<1>2. HeardIsTrue'
  BY DEF QueueInv, QueueTypeOK, HeardIsTrue, Becomes
<1>3. AcceptedIsKept'
  BY DEF QueueInv, AcceptedIsKept
<1> QED
  BY <1>1, <1>2, <1>3 DEF QueueInv

LEMMA SyncKeeps ==
  ASSUME QueueInv, NEW t \in Tabs,
         ReadQueue(t) \/ Mark(t) \/ Reply(t) \/ SyncFails(t) \/ Close(t) \/ OpenTab(t)
  PROVE  QueueInv'
<1>0. tab[t] \in QueueWork /\ tab[t].ok \subseteq applied /\ applied \subseteq Sales
      /\ queue \in [Sales -> {"none", "queued", "syncing", "failed"}]
  BY DEF QueueInv, QueueTypeOK, HeardIsTrue
<1>1. CASE ReadQueue(t)
  <2>1. [Quiet EXCEPT !.at = "mark", !.batch = Stored] \in QueueWork
        /\ [Quiet EXCEPT !.at = "mark", !.batch = Stored].ok = {}
    BY DEF Quiet, QueueWork, Stored
  <2> QED
    BY <1>0, <1>1, <2>1, TabKeeps DEF ReadQueue
<1>2. CASE Mark(t)
  <2>1. [tab[t] EXCEPT !.at = "sent", !.left = tab[t].batch] \in QueueWork
        /\ [tab[t] EXCEPT !.at = "sent", !.left = tab[t].batch].ok = tab[t].ok
    BY <1>0 DEF QueueWork
  <2> QED
    BY <1>0, <1>2, <2>1, TabKeeps, UpdatedKeeps DEF Mark, QueueInv
<1>3. CASE Reply(t)
  <2>1. [tab[t] EXCEPT !.at = "settle", !.left = tab[t].batch] \in QueueWork
        /\ [tab[t] EXCEPT !.at = "settle", !.left = tab[t].batch].ok = tab[t].ok
    BY <1>0 DEF QueueWork
  <2> QED
    BY <1>0, <1>3, <2>1, TabKeeps DEF Reply
<1>4. Quiet \in QueueWork /\ Quiet.ok = {}
  BY DEF Quiet, QueueWork
<1>5. CASE SyncFails(t)
  BY <1>0, <1>4, <1>5, TabKeeps, UpdatedKeeps DEF SyncFails, QueueInv
<1>6. CASE Close(t)
  <2>1. [Quiet EXCEPT !.at = "closed"] \in QueueWork /\ [Quiet EXCEPT !.at = "closed"].ok = {}
    BY DEF Quiet, QueueWork
  <2> QED
    BY <1>0, <1>6, <2>1, TabKeeps DEF Close
<1>7. CASE OpenTab(t)
  BY <1>0, <1>4, <1>7, TabKeeps, UpdatedKeeps DEF OpenTab, QueueInv
<1> QED
  BY <1>1, <1>2, <1>3, <1>5, <1>6, <1>7

LEMMA ServeKeeps ==
  ASSUME QueueInv, NEW t \in Tabs, NEW s \in Sales, ServeSale(t, s)
  PROVE  QueueInv'
<1>0. tab[t] \in QueueWork /\ tab[t].ok \subseteq applied /\ applied \subseteq Sales
      /\ queue \in [Sales -> {"none", "queued", "syncing", "failed"}]
  BY DEF QueueInv, QueueTypeOK, HeardIsTrue
<1>1. CASE Applies(s) /\ Becomes(t, [tab[t] EXCEPT !.left = @ \ {s}, !.ok = @ \cup {s}])
  <2> DEFINE work == [tab[t] EXCEPT !.left = @ \ {s}, !.ok = @ \cup {s}]
  <2>1. work \in QueueWork /\ work.ok = tab[t].ok \cup {s}
    BY <1>0 DEF QueueWork
  <2>2. applied' = applied \cup {s}
    BY <1>1 DEF Applies
  <2> QED
    BY <1>0, <1>1, <2>1, <2>2, TabKeeps DEF ServeSale
<1>2. CASE Refuses /\ Becomes(t, [tab[t] EXCEPT !.left = @ \ {s}])
  <2>1. [tab[t] EXCEPT !.left = @ \ {s}] \in QueueWork
        /\ [tab[t] EXCEPT !.left = @ \ {s}].ok = tab[t].ok
    BY <1>0 DEF QueueWork
  <2> QED
    BY <1>0, <1>2, <2>1, TabKeeps DEF ServeSale, Refuses
<1> QED
  BY <1>1, <1>2 DEF ServeSale

\* What is deleted is what the server said it has.
LEMMA SettleKeeps ==
  ASSUME QueueInv, NEW t \in Tabs, NEW s \in Sales, Settle(t, s)
  PROVE  QueueInv'
<1>0. tab[t] \in QueueWork /\ tab[t].ok \subseteq applied /\ applied \subseteq Sales
      /\ queue \in [Sales -> {"none", "queued", "syncing", "failed"}]
  BY DEF QueueInv, QueueTypeOK, HeardIsTrue
<1> DEFINE work == IF tab[t].left = {s} THEN Quiet ELSE [tab[t] EXCEPT !.left = @ \ {s}]
<1>1. work \in QueueWork /\ work.ok \subseteq applied
  <2>1. Quiet \in QueueWork /\ Quiet.ok = {}
    BY DEF Quiet, QueueWork
  <2>2. [tab[t] EXCEPT !.left = @ \ {s}] \in QueueWork
        /\ [tab[t] EXCEPT !.left = @ \ {s}].ok = tab[t].ok
    BY <1>0 DEF QueueWork
  <2> QED
    BY <1>0, <2>1, <2>2
<1>2. /\ queue' \in [Sales -> {"none", "queued", "syncing", "failed"}]
      /\ \A u \in Sales : queue[u] # "none" => queue'[u] # "none" \/ u \in applied
  <2>1. CASE s \in tab[t].ok
    BY <1>0, <2>1 DEF Settle, Deleted
  <2>2. CASE s \notin tab[t].ok
    BY <1>0, <2>2, UpdatedKeeps DEF Settle, QueueInv
  <2> QED
    BY <2>1, <2>2
<1> QED
  BY <1>0, <1>1, <1>2, TabKeeps DEF Settle

LEMMA QueueInductive ==
  ASSUME QueueInv, [QueueNext]_offlineVars
  PROVE  QueueInv'
<1>1. ASSUME UNCHANGED offlineVars PROVE QueueInv'
  BY <1>1 DEF offlineVars, QueueInv, QueueTypeOK, HeardIsTrue, AcceptedIsKept
<1> QED
  BY <1>1, PageKeeps, SyncKeeps, ServeKeeps, SettleKeeps DEF QueueNext

(* However many tabs share the queue, are closed, fail and interleave, and *)
(* however long the batches: a sale said to be saved is stored or applied. *)
THEOREM AcceptedCorrect == QueueSpec => []AcceptedIsKept
<1>1. QueueInit => QueueInv
  BY QueueInitially
<1>2. QueueInv /\ [QueueNext]_offlineVars => QueueInv'
  BY QueueInductive
<1>3. QueueInv => AcceptedIsKept
  BY DEF QueueInv
<1> QED
  BY <1>1, <1>2, <1>3, PTL DEF QueueSpec
=============================================================================
