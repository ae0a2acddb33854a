------------------------------ MODULE GiftCards ------------------------------
(***************************************************************************)
(* The gift cards of one business (gift-card-service): cards are issued    *)
(* and redeemed at several tills, in transactions that take an advisory    *)
(* lock on the requestId, look for the row of an earlier attempt, and lock *)
(* the card before they read its balance.  The owner's ledger view compares*)
(* the stored balance with the rows, which it reads in two statements.     *)
(***************************************************************************)
EXTENDS Integers, Sequences, FiniteSets, Totals

CONSTANTS
  Tills,         \* requests served at the same time
  RequestIds,    \* requestIds that clients choose
  Actors,        \* rights a member of the staff may have
  Sums,          \* amounts the clients send, in tenths of a cent
  Expiries,      \* expires_at of new cards: a day, or Null
  Null,          \* SQL NULL
  ViewLimit,     \* rows the ledger view reads, 100 in the code
  MaxCards,      \* bound on the cards
  MaxCardRows,   \* bound on the rows of gift_card_transactions
  LastDay        \* bound on the clock

ASSUME SumsAssumption == Sums \subseteq Nat \ {0}
ASSUME ViewAssumption == ViewLimit \in Nat

VARIABLES
  cards,      \* rows of gift_cards
  cardRows,   \* rows of gift_card_transactions
  till,       \* what each till's request is doing
  today       \* the clock, in days

giftVars == <<cards, cardRows, till, today>>

Resting == [at |-> "idle", kind |-> "none", key |-> Null, card |-> 0, amount |-> 0,
            expires |-> Null, seen |-> 0, report |-> "none"]

GiftInit ==
  /\ cards = <<>>
  /\ cardRows = <<>>
  /\ till = [w \in Tills |-> Resting]
  /\ today = 0

\* The request ends: its transaction has committed, or has changed nothing.
Done(w) == till' = [till EXCEPT ![w] = Resting]

Refused(w) == Done(w) /\ UNCHANGED <<cards, cardRows, today>>

-----------------------------------------------------------------------------
(* Requests arrive.                                                        *)

MayUse(actor)   == actor.role = "OWNER" \/ actor.manage
MayIssue(actor) == MayUse(actor) /\ actor.role \in {"OWNER", "MANAGER"}

\* validateMoney rounds to cents, so a positive sum may become zero.
Cents(sum) == (sum + 5) \div 10

Arrives(w, job) ==
  /\ till[w].at = "idle"
  /\ till' = [till EXCEPT ![w] = job]
  /\ UNCHANGED <<cards, cardRows, today>>

\* POST /admin/gift-cards.
AskIssue(w, actor, q, sum, expires) ==
  /\ MayIssue(actor)
  /\ Arrives(w, [Resting EXCEPT !.at = "request", !.kind = "ISSUE", !.key = q,
                                !.amount = Cents(sum), !.expires = expires])

\* POST /staff/gift-cards/redeem.
AskRedeem(w, actor, q, c, sum) ==
  /\ MayUse(actor)
  /\ Arrives(w, [Resting EXCEPT !.at = "request", !.kind = "REDEEM", !.key = q,
                                !.card = c, !.amount = Cents(sum)])

\* GET /admin/gift-cards/:codeOrToken/ledger reads the card first.
ViewCard(w, actor, c) ==
  /\ MayUse(actor)
  /\ Arrives(w, [Resting EXCEPT !.at = "rows", !.kind = "VIEW", !.card = c,
                                !.seen = cards[c].balance])

-----------------------------------------------------------------------------
(* The transactions.                                                       *)

\* Another transaction holds the advisory lock on the requestId.
RequestHeld(w) ==
  \E v \in Tills \ {w} : till[v].key = till[w].key /\ till[v].at \in {"card", "write"}

CardNeverHeld(w) == FALSE

\* Another transaction holds the row lock of the card.
CardHeld(w) ==
  \E v \in Tills \ {w} : till[v].card = till[w].card /\ till[v].at = "write"

NoRowsOfRequest(q) == {}

RowsOfRequest(q) == {i \in DOMAIN cardRows : cardRows[i].key = q}

CardRow(c, kind, amount, after, q) ==
  [card |-> c, kind |-> kind, amount |-> amount, after |-> after, key |-> q]

\* An earlier attempt committed: the answer is rebuilt from its row.
Replay(w) ==
  /\ till[w].at = "request"
  /\ ~RequestHeld(w)
  /\ RowsOfRequest(till[w].key) # {}
  /\ Done(w)
  /\ UNCHANGED <<cards, cardRows, today>>

Issue(w) ==
  LET job == till[w]
  IN  /\ job.at = "request" /\ job.kind = "ISSUE"
      /\ ~RequestHeld(w)
      /\ RowsOfRequest(job.key) = {}
      /\ Len(cards) < MaxCards /\ Len(cardRows) < MaxCardRows
      /\ cards' = Append(cards, [balance |-> job.amount, status |-> "ACTIVE",
                                 expires |-> job.expires])
      /\ cardRows' = Append(cardRows,
           CardRow(Len(cards) + 1, "ISSUE", job.amount, job.amount, job.key))
      /\ Done(w)
      /\ UNCHANGED today

\* The advisory lock is taken and the request is new: on to the card.
LockRequest(w) ==
  /\ till[w].at = "request" /\ till[w].kind = "REDEEM"
  /\ ~RequestHeld(w)
  /\ RowsOfRequest(till[w].key) = {}
  /\ till' = [till EXCEPT ![w].at = "card"]
  /\ UNCHANGED <<cards, cardRows, today>>

Redeemable(card, amount) ==
  /\ card.status = "ACTIVE"
  /\ card.expires # Null => card.expires >= today
  /\ amount <= card.balance

\* SELECT ... FOR UPDATE, and the checks on what it returns.
LockCard(w) ==
  /\ till[w].at = "card"
  /\ ~CardHeld(w)
  /\ Redeemable(cards[till[w].card], till[w].amount)
  /\ till' = [till EXCEPT ![w].at = "write", ![w].seen = cards[till[w].card].balance]
  /\ UNCHANGED <<cards, cardRows, today>>

RefuseRedeem(w) ==
  /\ till[w].at = "card"
  /\ ~CardHeld(w)
  /\ ~Redeemable(cards[till[w].card], till[w].amount)
  /\ Refused(w)

StatusOf(balance) == IF balance <= 0 THEN "EXHAUSTED" ELSE "ACTIVE"

Redeem(w) ==
  LET job == till[w]
      after == job.seen - job.amount
  IN  /\ job.at = "write"
      /\ Len(cardRows) < MaxCardRows
      /\ cards' = [cards EXCEPT ![job.card].balance = after, ![job.card].status = StatusOf(after)]
      /\ cardRows' = Append(cardRows, CardRow(job.card, "REDEEM", job.amount, after, job.key))
      /\ Done(w)
      /\ UNCHANGED today

\* A statement fails, or the process dies.  This is also the fate of a new
\* card whose random code is taken: the unique violation aborts the
\* transaction, and the further attempts of the loop run into that.
RollBack(w) == till[w].at # "idle" /\ Refused(w)

-----------------------------------------------------------------------------
(* The ledger view: the rows are read after the card.                      *)

\* ORDER BY created_at DESC LIMIT 100: the latest rows of the card.
RowsOfCard(c) == {i \in DOMAIN cardRows : cardRows[i].card = c}

Earliest(c) ==
  {i \in RowsOfCard(c) : Cardinality({k \in RowsOfCard(c) : k < i}) < ViewLimit}

Latest(c) ==
  {i \in RowsOfCard(c) : Cardinality({k \in RowsOfCard(c) : k > i}) < ViewLimit}

Signed(row) == IF row.kind = "ISSUE" THEN row.amount ELSE -row.amount

\* What a set of rows says of the balance: issued minus redeemed.
Said(rows) ==
  Total([i \in 1..Len(cardRows) |-> IF i \in rows THEN Signed(cardRows[i]) ELSE 0],
        Len(cardRows))

\* delta_q: the expected balance minus the stored one.
Delta(w) == Said(Latest(till[w].card)) - till[w].seen

ViewRows(w) ==
  /\ till[w].at = "rows"
  /\ till' = [till EXCEPT ![w] = [Resting EXCEPT !.report =
       IF Delta(w) = 0 THEN "balanced" ELSE IF Delta(w) < 0 THEN "short" ELSE "over"]]
  /\ UNCHANGED <<cards, cardRows, today>>

Tomorrow ==
  /\ today < LastDay
  /\ today' = today + 1
  /\ UNCHANGED <<cards, cardRows, till>>

Asks(w) ==
  \/ \E a \in Actors, q \in RequestIds, s \in Sums, x \in Expiries : AskIssue(w, a, q, s, x)
  \/ \E a \in Actors, q \in RequestIds, c \in DOMAIN cards, s \in Sums : AskRedeem(w, a, q, c, s)
  \/ \E a \in Actors, c \in DOMAIN cards : ViewCard(w, a, c)

Serves(w) ==
  \/ Replay(w) \/ Issue(w) \/ LockRequest(w) \/ LockCard(w) \/ RefuseRedeem(w)
  \/ Redeem(w) \/ ViewRows(w) \/ RollBack(w)

GiftNext == (\E w \in Tills : Asks(w) \/ Serves(w)) \/ Tomorrow

GiftSpec == GiftInit /\ [][GiftNext]_giftVars

-----------------------------------------------------------------------------
(* Properties.                                                             *)

(* No money is made or lost: the balance of a card is what was issued on   *)
(* it minus what was redeemed, never below zero, however the tills         *)
(* interleave, fail and repeat their requests; a requestId moves money at  *)
(* most once.  The balance is written as a number computed in JavaScript   *)
(* from the one read under the lock.                                       *)
CardIsItsRows ==
  \A c \in DOMAIN cards : cards[c].balance = Said(RowsOfCard(c)) /\ cards[c].balance >= 0

OncePerRequest == \A i, k \in DOMAIN cardRows : cardRows[i].key = cardRows[k].key => i = k

GiftMoneyKept == CardIsItsRows /\ OncePerRequest

(* The ledger view never reports more than is stored: what it reads too    *)
(* late (redemptions after the card) and what its limit cuts off (the      *)
(* issue) both make the expected balance smaller.  Its mismatch may be     *)
(* false, but "over" would mean that a card really lost money.             *)
ViewNeverOver == \A w \in Tills : till[w].report # "over"
=============================================================================
