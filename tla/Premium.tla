------------------------------ MODULE Premium ------------------------------
(***************************************************************************)
(* How a user gets and loses Premium: invoices, the webhooks of the two    *)
(* payment providers (Telegram Stars and Crypto Pay), the hourly expiry    *)
(* worker, the admin panel's manual switch, and account deletion and       *)
(* revival, which share the rows of the users and donations tables.        *)
(*                                                                         *)
(* A webhook is handled in two database steps: the user lookup (FindUser)  *)
(* and the transaction (CommitTx, TxFail).  The worker reads a batch of    *)
(* lapsed users (WorkerSelect) and then downgrades them one by one         *)
(* (WorkerDowngrade), each followed by a message (WorkerNotify).  Anything *)
(* may happen between two steps, a process crash included.                 *)
(***************************************************************************)
EXTENDS Integers, FiniteSets

CONSTANTS
  Users,     \* rows of the users table
  Charges,   \* charge ids, one per payment
  Handlers,  \* concurrent webhook requests
  Workers,   \* running expiry workers (two during a rolling deploy)
  NULL,      \* SQL NULL, and "nothing"
  MonthLen,  \* length of a month, in ticks of the clock
  MaxTime,   \* bound of the clock
  MaxFaults  \* bound on failed lookups, failed statements and crashes

ASSUME ClockAssumption == MonthLen \in Nat \ {0} /\ MaxTime \in Nat
ASSUME FaultAssumption == MaxFaults \in Nat
ASSUME WorkerAssumption == IsFiniteSet(Workers)
ASSUME UserAssumption  == IsFiniteSet(Users)
ASSUME NullAssumption  == NULL \notin Nat /\ NULL \notin Users /\ NULL \notin Charges

VARIABLES
  now,        \* the clock
  users,      \* [donator, expires, deleted] of each row of users
  donations,  \* charges with a row in donations (the charge id is unique)
  invoice,    \* the invoice behind a charge id, NULL before it is created
  owed,       \* paid charges whose webhook the provider still (re)delivers
  handler,    \* what a webhook request carries between lookup and transaction
  worker,     \* each worker's unprocessed rows and its pending message
  faults,     \* failures so far
  paid, refused, missed, erased, credits, due, raced  \* history, see HistoryOK

dbVars   == <<users, donations>>
history  == <<paid, refused, missed, erased, credits, due, raced>>
vars     == <<now, users, donations, invoice, owed, handler, worker, faults, history>>

(***************************************************************************)
(* Plans, payloads and expiry dates.                                       *)
(***************************************************************************)
PlanRequests == {"month", "lifetime", "absent"}
Methods      == {"stars", "crypto"}

Plans        == {"month", "lifetime"}

normalizePlan(p) == IF p = "month" THEN "month" ELSE "lifetime"

premiumExpiryFor(plan) == IF plan = "month" THEN now + MonthLen ELSE NULL

\* The user an invoice's payload names: the paying account is not compared.
PayloadUser(c) == invoice[c].user

\* The worker's query.
ExpiredGrantAnyDate(u) ==   \* mutant: the date is not compared
  ~users[u].deleted /\ users[u].donator /\ users[u].expires # NULL
ExpiredGrant(u) ==
  /\ ~users[u].deleted
  /\ users[u].donator
  /\ users[u].expires # NULL
  /\ users[u].expires < now

\* The WHERE of the worker's UPDATE: the expiry is not compared again.
DowngradeMatchesLapsing(u) ==   \* mutant: the date is compared the wrong way
  users[u].donator /\ ~users[u].deleted /\ users[u].expires # NULL /\ users[u].expires > now
DowngradeMatches(u) == users[u].donator /\ ~users[u].deleted

\* RowsAffected == 0: another path downgraded the user, so no notice.
SkipsNoticeNever(rowsAffected) == FALSE   \* mutant: the check is dropped
SkipsNotice(rowsAffected) == rowsAffected = 0

IdleWorker == [batch |-> {}, notify |-> NULL]

Init ==
  /\ now = 0
  /\ users = [u \in Users |-> [donator |-> FALSE, expires |-> NULL, deleted |-> FALSE]]
  /\ donations = {}
  /\ invoice = [c \in Charges |-> NULL]
  /\ owed = {}
  /\ handler = [h \in Handlers |-> NULL]
  /\ worker = [w \in Workers |-> IdleWorker]
  /\ faults = 0
  /\ paid = {} /\ refused = {} /\ missed = {} /\ erased = {} /\ raced = {}
  /\ credits = [c \in Charges |-> 0]
  /\ due = [u \in Users |-> 0]

Fault == faults < MaxFaults /\ faults' = faults + 1

(***************************************************************************)
(* The Mini App asks for an invoice; the user pays it whenever they like.  *)
(***************************************************************************)
CreateInvoice(u, c, m, p) ==
  /\ ~users[u].deleted
  /\ invoice[c] = NULL
  /\ invoice' = [invoice EXCEPT ![c] =
                   [user |-> u, method |-> m, plan |-> normalizePlan(p)]]
  /\ UNCHANGED <<now, dbVars, owed, handler, worker, faults, history>>

CreateStarsInvoice(u, c, p)  == CreateInvoice(u, c, "stars", p)
CreateCryptoInvoice(u, c, p) == CreateInvoice(u, c, "crypto", p)

\* The pre-checkout query is always confirmed, so any invoice can be paid.
Pay(c) ==
  /\ invoice[c] # NULL
  /\ c \notin paid
  /\ paid' = paid \cup {c}
  /\ owed' = owed \cup {c}
  /\ UNCHANGED <<now, dbVars, invoice, handler, worker, faults,
                 refused, missed, erased, credits, due, raced>>

\* The provider sees a 200, unless the response is lost.
Answer200(c) == owed' \in {owed, owed \ {c}}

(***************************************************************************)
(* A webhook delivery reads the user the payload names and computes the    *)
(* expiry.  Telegram's update runs detached from its request, which is     *)
(* answered 200 at once; Crypto Pay's request stays open.  A missing row   *)
(* and a failed query end the same way: a 200 and nothing recorded, so a   *)
(* payment whose lookup failed is lost although its user is there.         *)
(***************************************************************************)
FindUser(h, c) ==
  /\ handler[h] = NULL
  /\ c \in owed
  /\ ~users[PayloadUser(c)].deleted
  /\ handler' = [handler EXCEPT ![h] =
                   [charge |-> c, expires |-> premiumExpiryFor(invoice[c].plan)]]
  /\ UNCHANGED <<now, dbVars, invoice, worker, faults, history>>

DeliverStars(h, c) ==
  /\ FindUser(h, c)
  /\ invoice[c].method = "stars"
  /\ Answer200(c)

DeliverCrypto(h, c) ==
  /\ FindUser(h, c)
  /\ invoice[c].method = "crypto"
  /\ UNCHANGED owed

\* The row of the user is gone.
DeliverUnknownUser(c) ==
  /\ c \in owed
  /\ users[PayloadUser(c)].deleted
  /\ Answer200(c)
  /\ refused' = refused \cup {c}
  /\ UNCHANGED <<now, dbVars, invoice, handler, worker, faults,
                 paid, missed, erased, credits, due, raced>>

\* The query fails, whether the user is there or not.
LookupFails(c) ==
  /\ c \in owed
  /\ Fault
  /\ Answer200(c)
  /\ missed' = missed \cup {c}
  /\ UNCHANGED <<now, dbVars, invoice, handler, worker,
                 paid, refused, erased, credits, due, raced>>

WritePremium(u, donator, expires) ==
  users' = [users EXCEPT ![u] =
              [donator |-> donator, expires |-> expires, deleted |-> users[u].deleted]]

\* A failed transaction is answered 500, so Crypto Pay delivers again.
AnswerTxErrorWith200(c) == Answer200(c)   \* mutant: the error is swallowed
AnswerTxError(c) == owed' = owed

\* INSERT ... ON CONFLICT DO NOTHING affects no row.
AlreadyRecordedNever(c) == FALSE   \* mutant: RowsAffected is ignored
AlreadyRecorded(c) == c \in donations

\* UPDATE users ... WHERE id = u: matches no row once the user is soft-deleted.
ActivatePremium(u, c, expires) ==
  IF users[u].deleted
  THEN UNCHANGED <<users, credits, raced>>
  ELSE /\ WritePremium(u, TRUE, expires)
       /\ credits' = [credits EXCEPT ![c] = @ + 1]
       /\ raced' = raced \cup (Workers \X {u})

(***************************************************************************)
(* The transaction: INSERT INTO donations ... ON CONFLICT DO NOTHING, and  *)
(* only for a new row the update of the user.                              *)
(***************************************************************************)
CommitTx(h) ==
  /\ handler[h] # NULL
  /\ LET c == handler[h].charge IN
       IF AlreadyRecorded(c)
       THEN UNCHANGED <<users, donations, credits, raced>>
       ELSE /\ donations' = donations \cup {c}
            /\ ActivatePremium(PayloadUser(c), c, handler[h].expires)
  /\ handler' = [handler EXCEPT ![h] = NULL]
  /\ UNCHANGED <<now, invoice, worker, faults, paid, refused, missed, erased,
                 due>>

CommitStars(h) ==
  /\ CommitTx(h)
  /\ invoice[handler[h].charge].method = "stars"
  /\ UNCHANGED owed

CommitCrypto(h) ==
  /\ CommitTx(h)
  /\ invoice[handler[h].charge].method = "crypto"
  /\ Answer200(handler[h].charge)

\* The transaction fails: Crypto Pay gets a 500, a Stars update just ends.
TxFail(h) ==
  /\ handler[h] # NULL
  /\ Fault
  /\ AnswerTxError(handler[h].charge)
  /\ handler' = [handler EXCEPT ![h] = NULL]
  /\ UNCHANGED <<now, dbVars, invoice, worker, history>>

(***************************************************************************)
(* The expiry worker.                                                      *)
(***************************************************************************)
WorkerSelect(w) ==
  LET batch == {u \in Users : ExpiredGrant(u)} IN
  /\ worker[w] = IdleWorker
  /\ batch # {}
  /\ worker' = [worker EXCEPT ![w].batch = batch]
  /\ raced' = raced \ ({w} \X Users)
  /\ UNCHANGED <<now, dbVars, invoice, owed, handler, faults,
                 paid, refused, missed, erased, credits, due>>

\* The row is found by id and is_donator alone; its expiry is not read again.
WorkerDowngrade(w, u) ==
  /\ u \in worker[w].batch
  /\ worker[w].notify = NULL
  /\ LET rowsAffected == IF DowngradeMatches(u) THEN 1 ELSE 0 IN
       /\ IF rowsAffected = 1
          THEN WritePremium(u, FALSE, NULL)
          ELSE users' = users
       /\ due' = [due EXCEPT ![u] = @ + rowsAffected]
       /\ worker' = [worker EXCEPT ![w] =
                       [batch  |-> worker[w].batch \ {u},
                        notify |-> IF SkipsNotice(rowsAffected) THEN NULL ELSE u]]
  /\ UNCHANGED <<now, donations, invoice, owed, handler, faults,
                 paid, refused, missed, erased, credits, raced>>

\* A failed UPDATE is logged; the next tick selects the row again.
WorkerDowngradeError(w, u) ==
  /\ u \in worker[w].batch
  /\ worker[w].notify = NULL
  /\ Fault
  /\ worker' = [worker EXCEPT ![w].batch = @ \ {u}]
  /\ UNCHANGED <<now, dbVars, invoice, owed, handler, history>>

\* The expiry notice: best effort, sent once or not at all.
WorkerNotify(w) ==
  /\ worker[w].notify # NULL
  /\ due' = [due EXCEPT ![worker[w].notify] = @ - 1]
  /\ worker' = [worker EXCEPT ![w].notify = NULL]
  /\ UNCHANGED <<now, dbVars, invoice, owed, handler, faults,
                 paid, refused, missed, erased, credits, raced>>

(***************************************************************************)
(* The admin panel, account deletion and revival.                          *)
(***************************************************************************)
\* Only is_donator is written: premium_expires_at keeps its value.
SetDonatorStatus(u, granted) ==
  /\ ~users[u].deleted
  /\ WritePremium(u, granted, users[u].expires)
  /\ raced' = IF granted THEN raced \cup (Workers \X {u}) ELSE raced
  /\ UNCHANGED <<now, donations, invoice, owed, handler, worker, faults,
                 paid, refused, missed, erased, credits, due>>

\* The user's own deletion also drops the donation rows.
DeleteMe(u) ==
  LET mine == {c \in donations : PayloadUser(c) = u} IN
  /\ ~users[u].deleted
  /\ users' = [users EXCEPT ![u].deleted = TRUE]
  /\ donations' = donations \ mine
  /\ erased' = erased \cup mine
  /\ credits' = [c \in Charges |-> IF c \in mine THEN 0 ELSE credits[c]]
  /\ UNCHANGED <<now, invoice, owed, handler, worker, faults,
                 paid, refused, missed, due, raced>>

\* The admin's deletion leaves them.
SoftDeleteUser(u) ==
  /\ ~users[u].deleted
  /\ users' = [users EXCEPT ![u].deleted = TRUE]
  /\ UNCHANGED <<now, donations, invoice, owed, handler, worker, faults, history>>

\* Opening the Mini App or sending /start clears deleted_at and nothing else.
Revive(u) ==
  /\ users[u].deleted
  /\ users' = [users EXCEPT ![u].deleted = FALSE]
  /\ UNCHANGED <<now, donations, invoice, owed, handler, worker, faults, history>>

(***************************************************************************)
(* Time and crashes.                                                       *)
(***************************************************************************)
Crash ==
  /\ Fault
  /\ handler' = [h \in Handlers |-> NULL]
  /\ worker' = [w \in Workers |-> IdleWorker]
  /\ UNCHANGED <<now, dbVars, invoice, owed, history>>

Tick ==
  /\ now < MaxTime
  /\ now' = now + 1
  /\ UNCHANGED <<dbVars, invoice, owed, handler, worker, faults, history>>

Next ==
  \/ \E u \in Users, c \in Charges, p \in PlanRequests : CreateStarsInvoice(u, c, p)
  \/ \E u \in Users, c \in Charges, p \in PlanRequests : CreateCryptoInvoice(u, c, p)
  \/ \E c \in Charges : Pay(c)
  \/ \E h \in Handlers, c \in Charges : DeliverStars(h, c)
  \/ \E h \in Handlers, c \in Charges : DeliverCrypto(h, c)
  \/ \E c \in Charges : DeliverUnknownUser(c)
  \/ \E c \in Charges : LookupFails(c)
  \/ \E h \in Handlers : CommitStars(h)
  \/ \E h \in Handlers : CommitCrypto(h)
  \/ \E h \in Handlers : TxFail(h)
  \/ \E w \in Workers : WorkerSelect(w)
  \/ \E w \in Workers, u \in Users : WorkerDowngrade(w, u)
  \/ \E w \in Workers, u \in Users : WorkerDowngradeError(w, u)
  \/ \E w \in Workers : WorkerNotify(w)
  \/ \E u \in Users, granted \in BOOLEAN : SetDonatorStatus(u, granted)
  \/ \E u \in Users : DeleteMe(u)
  \/ \E u \in Users : SoftDeleteUser(u)
  \/ \E u \in Users : Revive(u)
  \/ Crash
  \/ Tick

Spec == Init /\ [][Next]_vars

(***************************************************************************)
(* A provider keeps redelivering what was not answered 200; a request that *)
(* is running ends; the worker's ticker keeps firing and a tick runs to    *)
(* its end.  Nothing obliges users, admins or the clock to move.           *)
(***************************************************************************)
WorkerStep(w) ==
  \/ WorkerSelect(w)
  \/ WorkerNotify(w)
  \/ \E u \in Users : WorkerDowngrade(w, u)

Fairness ==
  /\ \A c \in Charges :
       SF_vars(DeliverUnknownUser(c) \/ \E h \in Handlers : DeliverStars(h, c) \/ DeliverCrypto(h, c))
  /\ \A h \in Handlers : WF_vars(CommitStars(h) \/ CommitCrypto(h))
  /\ \A w \in Workers : WF_vars(WorkerStep(w))

FairSpec == Spec /\ Fairness
-----------------------------------------------------------------------------
Lapsed(u) ==
  /\ ~users[u].deleted
  /\ users[u].donator
  /\ users[u].expires # NULL
  /\ users[u].expires < now

Invoices  == [user : Users, method : Methods, plan : Plans]
Requests  == [charge : Charges, expires : Nat \cup {NULL}]
UserRows  == [donator : BOOLEAN, expires : Nat \cup {NULL}, deleted : BOOLEAN]

(***************************************************************************)
(* The history variables: charges paid; charges answered 200 without being *)
(* recorded, because the user's row was gone (refused) or because the      *)
(* lookup failed (missed); charges whose donation row an account deletion  *)
(* erased; how often a charge switched Premium on since then; notices a    *)
(* user is owed; (worker, user) pairs whose row was granted after the      *)
(* worker read it.                                                         *)
(***************************************************************************)
HistoryOK ==
  /\ paid \subseteq Charges
  /\ refused \subseteq Charges
  /\ missed \subseteq Charges
  /\ erased \subseteq Charges
  /\ credits \in [Charges -> Nat]
  /\ due \in [Users -> Int]
  /\ raced \subseteq Workers \X Users

\* Type invariant.
TypeOK ==
  /\ now \in Nat
  /\ users \in [Users -> UserRows]
  /\ donations \subseteq Charges
  /\ invoice \in [Charges -> Invoices \cup {NULL}]
  /\ owed \subseteq Charges
  /\ handler \in [Handlers -> Requests \cup {NULL}]
  /\ worker \in [Workers -> [batch : SUBSET Users, notify : Users \cup {NULL}]]
  /\ faults \in Nat
  /\ HistoryOK

\* Only a paid charge is delivered, and it has an invoice naming its user.
DeliveriesBacked ==
  /\ owed \subseteq paid
  /\ \A c \in paid : invoice[c] # NULL
  /\ \A h \in Handlers : handler[h] # NULL => handler[h].charge \in paid

\* Redelivered and concurrent webhooks never activate a charge twice while its
\* donation row exists, and an activation always leaves its row behind:
\* ON CONFLICT DO NOTHING and the update are one transaction.
CreditedOnce ==
  \A c \in Charges :
    /\ credits[c] <= 1
    /\ credits[c] = 1 => c \in donations

\* A paid Crypto Pay charge is not lost by a failed transaction, which answers 500,
\* or a crash, which answers nothing: it is recorded, still being redelivered,
\* refused because the row of its user was gone, or erased with the account.  The one
\* failure that does lose it is a failed user lookup, which is answered 200 as if the
\* user did not exist: each charge lost so (missed) costs one such failure.
CryptoNeverLost ==
  /\ \A c \in paid :
       invoice[c].method = "crypto"
         => c \in owed \cup donations \cup refused \cup erased \cup missed
  /\ Cardinality(missed) <= faults

\* A row in a worker's batch that nobody granted anew since the batch was read
\* is still lapsed when its turn comes, or no longer a live donator's.
UntouchedRowsLapsed ==
  \A w \in Workers : \A u \in worker[w].batch :
    <<w, u>> \notin raced => Lapsed(u) \/ ~users[u].donator \/ users[u].deleted

\* However many workers run, a user gets at most one expiry notice per downgrade.
NoticePerDowngrade ==
  \A u \in Users : Cardinality({w \in Workers : worker[w].notify = u}) <= due[u]

\* However often its transaction fails or the process crashes, delivery of a paid
\* Crypto Pay charge comes to an end: it is recorded, erased with the account, refused
\* because the row of its user was gone, or lost to a failed user lookup (missed).
CryptoEventuallySettled ==
  \A c \in Charges :
    (c \in paid /\ invoice[c].method = "crypto")
      ~> (c \in donations \cup erased \cup refused \cup missed)

\* A lapsed grant does not stay: the worker downgrades it unless somebody
\* renews, revokes or deletes it first.
LapsedEventuallyCleared == \A u \in Users : Lapsed(u) ~> ~Lapsed(u)

(***************************************************************************)
(* What the webhooks promise of the donations table, see PaymentLedger.    *)
(***************************************************************************)
Ledger == INSTANCE PaymentLedger WITH settled <- donations, activations <- credits

\* The webhooks, deletions and crashes implement the once-only ledger.
ImplementsLedger == Ledger!Spec

\* handler/payment.go: a charge that is already in donations was processed in a
\* transaction "which already flipped is_donator".
RecordedMeansActivated == \A c \in donations : credits[c] = 1
=============================================================================
