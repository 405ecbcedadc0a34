------------------------------- MODULE Client -------------------------------
(***************************************************************************)
(* The users of the sequencer: wallets that choose a payment's nonce from  *)
(* an earlier answer, requests and answers that are late or lost, and what *)
(* GET /account and GET /history say.  A user has one wallet; a payment    *)
(* whose answer was lost may arrive beside the next one, as it would from  *)
(* a second browser.  Behind the API is module Mempool, with the table     *)
(* history.                                                                *)
(* A definition named Mutant... is not part of the model, as in Pipeline.  *)
(***************************************************************************)
EXTENDS Mempool, SequencesExt

CONSTANTS
  User,          \* the keys that have a wallet
  HistoryLimit,  \* confirmed entries in an answer of GET /history
  MaxPosts       \* bound: payments ever posted

ASSUME ClientAssumption ==
  /\ User \subseteq Key
  /\ HistoryLimit \in Nat /\ MaxPosts \in Nat

VARIABLES
  history,  \* table history, by id
  view,     \* what each wallet last read from GET /account
  screen,   \* the state of each wallet's Send page
  wire,     \* the posts that may still reach the sequencer
  posts     \* how many payments have been posted

clientVars == <<view, screen, wire, posts>>
allVars    == <<vars, history, clientVars>>

-----------------------------------------------------------------------------
(* What the API answers.                                                   *)

(* GET /account: nothing (404) for a key without an account.               *)
(* "rows" is history: how many rows the sender had at that time.           *)
AccountInfo(k) ==
  IF ~Holds(tree, k) THEN <<>>
  ELSE <<[balance       |-> AccountOf(tree, k).balance,
          pending_nonce |-> ExpectedNonce(k),
          pending_out   |-> Value(mempool, LiveRows(k)),
          rows          |-> Cardinality({t \in TxIds : mempool[t].from = k})]>>

(* The latest confirmed entries of a key.                                  *)
ConfirmedEntries(k) ==
  LET mine == {h \in DOMAIN history : history[h].pk = k}
  IN {h \in mine : Cardinality({g \in mine : g > h}) < HistoryLimit}

MutantPendingEntries(k) ==
  {t \in TxIds : mempool[t].from = k /\ mempool[t].status \in {"pending", "rejected"}}
(* The rows that follow them in the answer, with status "rejected", or     *)
(* "pending" for pending and batching.                                     *)
MempoolEntries(k) ==
  {t \in TxIds : mempool[t].from = k /\ mempool[t].status # "included"}

-----------------------------------------------------------------------------
(* confirm_batch, with the entries it inserts in the same transaction.     *)

Entry(k, kind, other, amount) ==
  [pk |-> k, kind |-> kind, counterparty |-> other, amount |-> amount]

DepositEntries(d) == <<Entry(deposits[d].to, "deposit", NoKey, deposits[d].amount)>>

MutantAlwaysIncoming(t) ==
  LET row == mempool[t] IN
  <<Entry(row.from, IF row.withdraw THEN "withdraw" ELSE "transfer_out", row.to, row.amount),
    Entry(row.to, "transfer_in", row.from, row.amount)>>

TxEntries(t) ==
  LET row == mempool[t] IN
  IF row.withdraw THEN <<Entry(row.from, "withdraw", row.to, row.amount)>>
  ELSE <<Entry(row.from, "transfer_out", row.to, row.amount),
         Entry(row.to, "transfer_in", row.from, row.amount)>>

ConfirmBatch ==
  LET deps == InOrder(batch.deps)
      txids == InOrder(batch.txs)
  IN
  /\ Confirm
  /\ history' = history
       \o FlattenSeq([i \in DOMAIN deps |-> DepositEntries(deps[i])])
       \o FlattenSeq([i \in DOMAIN txids |-> TxEntries(txids[i])])

(* What else the sequencer and the network do meanwhile.                   *)
Background ==
  \/ \E k \in Key, a \in DepositAmounts : ObserveDeposit(k, a)
  \/ TryBuild \/ Evict \/ Stall \/ InsertBatch
  \/ FailBatch \/ Land \/ ConfirmFault \/ Restart

-----------------------------------------------------------------------------
(* A wallet.                                                               *)

Idle        == [state |-> "idle"]
Waiting(n)  == [state |-> "waiting", post |-> n]
Sent(t, id, fresh) == [state |-> "sent", tx |-> t, id |-> id, fresh |-> fresh]
Failed(code, fresh) == [state |-> "failed", code |-> code, fresh |-> fresh]

(* History: the sender has no row that the view of the payment misses.     *)
Fresh(r) == r.rows = Cardinality({x \in TxIds : mempool[x].from = r.tx.from})

(* useAccount: a poll, or a refetch after a payment.                       *)
Refetch(w) ==
  /\ ~building
  /\ view' = [view EXCEPT ![w] = AccountInfo(w)]
  /\ UNCHANGED <<vars, history, screen, wire, posts>>

(* submit on the Send page: a payment that the balance last read can pay,  *)
(* with the nonce last read.                                               *)
Send(w, to, amount) ==
  /\ screen[w].state # "waiting" /\ posts < MaxPosts
  /\ view[w] # <<>>
  /\ amount <= view[w][1].balance - view[w][1].pending_out
  /\ LET t == [from |-> w, to |-> to, amount |-> amount,
               nonce |-> view[w][1].pending_nonce, withdraw |-> to = NoKey]
     IN wire' = wire \cup {[post |-> posts + 1, by |-> w, tx |-> t, rows |-> view[w][1].rows]}
  /\ posts' = posts + 1
  /\ screen' = [screen EXCEPT ![w] = Waiting(posts + 1)]
  /\ UNCHANGED <<vars, history, view>>

(* The fetch fails: "could not reach the sequencer".  The request may      *)
(* still arrive, or have arrived.                                          *)
LoseAnswer(w) ==
  /\ screen[w].state = "waiting"
  /\ screen' = [screen EXCEPT ![w] = Failed("SEQUENCER_UNREACHABLE", FALSE)]
  /\ UNCHANGED <<vars, history, view, wire, posts>>

-----------------------------------------------------------------------------
(* POST /tx.                                                               *)

(* The answer, if the wallet still waits for it.                           *)
Answer(r, result) ==
  screen' = IF screen[r.by] = Waiting(r.post)
            THEN [screen EXCEPT ![r.by] = result] ELSE screen

(* The code of the first error that submit_tx runs into, or "none".        *)
Refusal(t) ==
  IF MempoolFull THEN "RATE_LIMITED"
  ELSE IF RowFor(t) # {} THEN "none"
  ELSE IF ~Holds(tree, t.from) THEN "ACCOUNT_UNKNOWN"
  ELSE IF t.nonce # ExpectedNonce(t.from) THEN "NONCE_MISMATCH"
  ELSE IF t.amount > Available(t.from) THEN "INSUFFICIENT_BALANCE"
  ELSE IF ~Admissible(t) THEN "RECIPIENT_UNKNOWN"
  ELSE "none"

(* submit_tx replies with the receipt of the row that has the nonce        *)
(* already, whatever that row pays; or it inserts a row; or it refuses.    *)
Resubmitted(r) ==
  /\ ~MempoolFull
  /\ \E id \in RowFor(r.tx) : Answer(r, Sent(r.tx, id, Fresh(r)))
  /\ UNCHANGED vars

Admitted(r) ==
  /\ SubmitTx(r.tx)
  /\ Answer(r, Sent(r.tx, Len(mempool) + 1, Fresh(r)))

TurnedDown(r) ==
  /\ Refusal(r.tx) # "none"
  /\ Answer(r, Failed(Refusal(r.tx), Fresh(r)))
  /\ UNCHANGED vars

(* A request that arrives, in its turn at the engine.                      *)
Post(r) ==
  /\ ~building
  /\ wire' = wire \ {r}
  /\ Resubmitted(r) \/ Admitted(r) \/ TurnedDown(r)
  /\ UNCHANGED <<history, view, posts>>

(* The rate limiter in front of it answers instead.                        *)
Limited(r) ==
  /\ wire' = wire \ {r}
  /\ Answer(r, Failed("RATE_LIMITED", Fresh(r)))
  /\ UNCHANGED <<vars, history, view, posts>>

-----------------------------------------------------------------------------
ClientInit ==
  /\ Init
  /\ history = <<>>
  /\ view = [w \in User |-> <<>>] /\ screen = [w \in User |-> Idle]
  /\ wire = {} /\ posts = 0

ClientNext ==
  \/ Background /\ UNCHANGED <<history, clientVars>>
  \/ ConfirmBatch /\ UNCHANGED clientVars
  \/ \E w \in User : Refetch(w) \/ LoseAnswer(w)
  \/ \E w \in User, to \in Key \cup {NoKey}, a \in TxAmounts : Send(w, to, a)
  \/ \E r \in wire : Post(r) \/ Limited(r)

ClientSpec == ClientInit /\ [][ClientNext]_allVars

-----------------------------------------------------------------------------
(* Correctness.                                                            *)

(* Every variable keeps its type; a request is waited for by one wallet.   *)
ClientTypeOK ==
  /\ \A h \in DOMAIN history : history[h] \in
       [pk : Key, kind : {"deposit", "transfer_in", "transfer_out", "withdraw"},
        counterparty : Key \cup {NoKey}, amount : Nat \ {0}]
  /\ DOMAIN view = User /\ DOMAIN screen = User /\ posts \in Nat
  /\ \A w \in User : screen[w].state = "waiting" => screen[w].post \in 1 .. posts
  /\ \A r \in wire : r.by \in User /\ r.tx \in Request /\ r.post \in 1 .. posts

Credits(k) == {h \in ConfirmedEntries(k) : history[h].kind \in {"deposit", "transfer_in"}}
Debits(k)  == ConfirmedEntries(k) \ Credits(k)

(* What the wallet shows fits together, at every point between a post and  *)
(* a confirmation, through failures and restarts: the activity's confirmed *)
(* entries add up to the balance, its pending ones to what is on its way   *)
(* out, and together they explain the nonce.  Unless a commit has failed,  *)
(* or the answer of GET /history is cut off; and for answers that are both *)
(* of one state, which two reads of a wallet need not be.                  *)
ActivityExplainsAccount ==
  tree = leaves => \A k \in Key :
    LET info == AccountInfo(k)
        pending == {t \in MempoolEntries(k) : mempool[t].status # "rejected"}
    IN Cardinality({h \in DOMAIN history : history[h].pk = k}) <= HistoryLimit =>
         IF info = <<>> THEN ConfirmedEntries(k) = {}
         ELSE /\ info[1].balance = Value(history, Credits(k)) - Value(history, Debits(k))
              /\ info[1].pending_out = Value(mempool, pending)
              /\ info[1].pending_nonce = Cardinality(Debits(k)) + Cardinality(pending)

(* "Sent (#id)" is about the payment that the user made, if it was made    *)
(* from a view of the account that knows all of its rows, whatever was     *)
(* built, failed or confirmed since; unless a build has rejected one of    *)
(* them or a commit has failed.  And it never names the row of another     *)
(* sender or nonce, nor does such a row exist twice.                       *)
ReceiptIsOwn ==
  \A w \in User : screen[w].state = "sent" =>
    LET s == screen[w]
        row == mempool[s.id]
    IN /\ RowFor(s.tx) = {s.id}
       /\ s.fresh /\ faults = 0 /\ RowsOf(w, "rejected") = {}
            => <<row.to, row.amount>> = <<s.tx.to, s.tx.amount>>

(* A payment made from such a view is never refused for its nonce or for   *)
(* want of funds, although both are checked long after they were read: a   *)
(* build, a failure or a confirmation in between moves what is confirmed   *)
(* and what is on its way by the same amount.  With the same exceptions.   *)
FreshNotRefused ==
  \A w \in User :
    /\ screen[w].state = "failed" /\ screen[w].fresh
    /\ faults = 0 /\ RowsOf(w, "rejected") = {}
    => screen[w].code \in {"RATE_LIMITED", "RECIPIENT_UNKNOWN"}
=============================================================================
