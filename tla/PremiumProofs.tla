--------------------------- MODULE PremiumProofs ---------------------------
(***************************************************************************)
(* Proofs about Premium, for any users, charges, webhook requests, expiry  *)
(* workers and bounds.  Base is the inductive core: the types, and that a  *)
(* delivery always has a paid invoice behind it.  The safety invariants    *)
(* are proved on top of it, CreditedOnce and UntouchedRowsLapsed after     *)
(* strengthening.                                                          *)
(***************************************************************************)
EXTENDS Premium, FiniteSetTheorems, TLAPS

Base == TypeOK /\ DeliveriesBacked

\* Writing the two Premium columns of a row keeps the table well typed.
LEMMA WriteType ==
  ASSUME users \in [Users -> UserRows], NEW u \in Users, NEW d \in BOOLEAN,
         NEW e \in Nat \cup {NULL}, WritePremium(u, d, e)
  PROVE  users' \in [Users -> UserRows]
<1> DEFINE row == [donator |-> d, expires |-> e, deleted |-> users[u].deleted]
<1>1. users[u] \in UserRows
  OBVIOUS
<1>2. users[u].deleted \in BOOLEAN
  BY <1>1 DEF UserRows
<1>3. row \in UserRows
  BY <1>2 DEF UserRows
<1>4. users' = [users EXCEPT ![u] = row]
  BY DEF WritePremium
<1> HIDE DEF row
<1> QED
  BY <1>3, <1>4

\* So does marking a row deleted, or clearing the mark.
LEMMA DeletedType ==
  ASSUME users \in [Users -> UserRows], NEW u \in Users, NEW d \in BOOLEAN
  PROVE  [users EXCEPT ![u].deleted = d] \in [Users -> UserRows]
<1> DEFINE row == [users[u] EXCEPT !.deleted = d]
<1>1. row \in UserRows
  BY DEF UserRows
<1> HIDE DEF row
<1>2. [users EXCEPT ![u] = row] \in [Users -> UserRows]
  BY <1>1
<1> QED
  BY <1>2 DEF row

\* A request between its lookup and its transaction carries a charge whose
\* payload names a row of users.
LEMMA RequestFacts ==
  ASSUME Base, NEW h \in Handlers, handler[h] # NULL
  PROVE  /\ handler[h].charge \in Charges
         /\ handler[h].expires \in Nat \cup {NULL}
         /\ invoice[handler[h].charge] \in Invoices
         /\ PayloadUser(handler[h].charge) \in Users
<1>1. handler[h] \in Requests
  BY DEF Base, TypeOK
<1>2. handler[h].charge \in Charges /\ handler[h].expires \in Nat \cup {NULL}
  BY <1>1 DEF Requests
<1>3. invoice[handler[h].charge] \in Invoices
  BY <1>2 DEF Base, TypeOK, DeliveriesBacked
<1> QED
  BY <1>2, <1>3 DEF PayloadUser, Invoices

\* The tables after a transaction commits.
LEMMA CommitType ==
  ASSUME Base, NEW h \in Handlers, CommitStars(h) \/ CommitCrypto(h)
  PROVE  /\ users' \in [Users -> UserRows]
         /\ donations' \subseteq Charges
         /\ credits' \in [Charges -> Nat]
         /\ raced' \subseteq Workers \X Users
         /\ owed' \subseteq owed
<1> DEFINE c == handler[h].charge
           u == PayloadUser(c)
           e == handler[h].expires
<1>0. CommitTx(h)
  BY DEF CommitStars, CommitCrypto
<1>1. handler[h] # NULL
  BY <1>0 DEF CommitTx
<1>2. c \in Charges /\ u \in Users /\ e \in Nat \cup {NULL}
  BY <1>1, RequestFacts
<1>3. owed' \subseteq owed
  BY DEF CommitStars, CommitCrypto, Answer200
<1>4. CASE AlreadyRecorded(c)
  BY <1>0, <1>3, <1>4 DEF CommitTx, Base, TypeOK, HistoryOK
<1>5. CASE ~AlreadyRecorded(c)
  <2>1. ActivatePremium(u, c, e) /\ donations' = donations \cup {c}
    BY <1>0, <1>5 DEF CommitTx
  <2>2. CASE users[u].deleted
    BY <1>2, <1>3, <2>1, <2>2 DEF ActivatePremium, Base, TypeOK, HistoryOK
  <2>3. CASE ~users[u].deleted
    <3> HIDE DEF c, u, e
    <3>1. users' \in [Users -> UserRows]
      BY <1>2, <2>1, <2>3, WriteType DEF ActivatePremium, Base, TypeOK
    <3>2. credits' \in [Charges -> Nat]
      BY <1>2, <2>1, <2>3 DEF ActivatePremium, Base, TypeOK, HistoryOK
    <3>3. Workers \X {u} \subseteq Workers \X Users
      BY <1>2
    <3>4. raced' \subseteq Workers \X Users
      BY <2>1, <2>3, <3>3 DEF ActivatePremium, Base, TypeOK, HistoryOK
    <3> QED
      BY <1>2, <1>3, <2>1, <3>1, <3>2, <3>4 DEF Base, TypeOK
  <2> QED
    BY <2>2, <2>3
<1> QED
  BY <1>4, <1>5

\* Every step of providers, requests, workers, users and admins keeps the types.
LEMMA TypeStep == Base /\ [Next]_vars => TypeOK'
<1> SUFFICES ASSUME Base, [Next]_vars PROVE TypeOK'
  OBVIOUS
<1>0. TypeOK
  BY DEF Base
<1> USE ClockAssumption, FaultAssumption, NullAssumption
<1> USE DEF TypeOK, HistoryOK, dbVars, history
<1>1. ASSUME NEW u \in Users, NEW c \in Charges, NEW m \in Methods,
             NEW p \in PlanRequests, CreateInvoice(u, c, m, p)
      PROVE  TypeOK'
  BY <1>0, <1>1 DEF CreateInvoice, Invoices, normalizePlan, Plans
<1>2. ASSUME NEW c \in Charges, Pay(c) PROVE TypeOK'
  BY <1>0, <1>2 DEF Pay
<1>3. ASSUME NEW h \in Handlers, NEW c \in Charges, DeliverStars(h, c) \/ DeliverCrypto(h, c) PROVE TypeOK'
  <2>1. premiumExpiryFor(invoice[c].plan) \in Nat \cup {NULL}
    BY <1>0 DEF premiumExpiryFor
  <2>2. owed' \subseteq Charges
    BY <1>0, <1>3 DEF DeliverStars, DeliverCrypto, FindUser, Answer200
  <2>3. handler' \in [Handlers -> Requests \cup {NULL}]
    BY <1>0, <1>3, <2>1 DEF DeliverStars, DeliverCrypto, FindUser, Requests
  <2> QED
    BY <1>0, <1>3, <2>2, <2>3 DEF DeliverStars, DeliverCrypto, FindUser
<1>4. ASSUME NEW c \in Charges, DeliverUnknownUser(c) \/ LookupFails(c) PROVE TypeOK'
  BY <1>0, <1>4 DEF DeliverUnknownUser, LookupFails, Answer200, Fault
<1>5. ASSUME NEW h \in Handlers, CommitStars(h) \/ CommitCrypto(h) PROVE TypeOK'
  BY <1>0, <1>5, CommitType DEF CommitTx, CommitStars, CommitCrypto
<1>6. ASSUME NEW h \in Handlers, TxFail(h) PROVE TypeOK'
  BY <1>0, <1>6 DEF TxFail, Fault, AnswerTxError
<1>7. ASSUME NEW w \in Workers, WorkerSelect(w) PROVE TypeOK'
  <2>1. worker' \in [Workers -> [batch : SUBSET Users, notify : Users \cup {NULL}]]
    BY <1>0, <1>7 DEF WorkerSelect
  <2> QED
    BY <1>0, <1>7, <2>1 DEF WorkerSelect
<1>8. ASSUME NEW w \in Workers, NEW u \in Users, WorkerDowngrade(w, u) PROVE TypeOK'
  <2>1. users' \in [Users -> UserRows]
    BY <1>0, <1>8, WriteType DEF WorkerDowngrade
  <2>2. due' \in [Users -> Int]
    BY <1>0, <1>8 DEF WorkerDowngrade
  <2>3. worker' \in [Workers -> [batch : SUBSET Users, notify : Users \cup {NULL}]]
    BY <1>0, <1>8 DEF WorkerDowngrade
  <2> QED
    BY <1>0, <1>8, <2>1, <2>2, <2>3 DEF WorkerDowngrade
<1>9. ASSUME NEW w \in Workers, NEW u \in Users, WorkerDowngradeError(w, u) PROVE TypeOK'
  BY <1>0, <1>9 DEF WorkerDowngradeError, Fault
<1>10. ASSUME NEW w \in Workers, WorkerNotify(w) PROVE TypeOK'
  BY <1>0, <1>10 DEF WorkerNotify
<1>11. ASSUME NEW u \in Users, NEW granted \in BOOLEAN, SetDonatorStatus(u, granted)
       PROVE  TypeOK'
  <2>1. users[u].expires \in Nat \cup {NULL}
    BY <1>0 DEF UserRows
  <2>5. WritePremium(u, granted, users[u].expires)
    BY <1>11 DEF SetDonatorStatus
  <2>2. users' \in [Users -> UserRows]
    BY <1>0, <2>1, <2>5, WriteType
  <2>3. Workers \X {u} \subseteq Workers \X Users
    OBVIOUS
  <2>4. raced' \subseteq Workers \X Users
    BY <1>0, <1>11, <2>3 DEF SetDonatorStatus
  <2> QED
    BY <1>0, <1>11, <2>2, <2>4 DEF SetDonatorStatus
<1>12. ASSUME NEW u \in Users, DeleteMe(u) PROVE TypeOK'
  <2>1. users' \in [Users -> UserRows]
    BY <1>0, <1>12, DeletedType DEF DeleteMe
  <2> QED
    BY <1>0, <1>12, <2>1 DEF DeleteMe
<1>13. ASSUME NEW u \in Users, SoftDeleteUser(u) \/ Revive(u) PROVE TypeOK'
  <2>1. \E d \in BOOLEAN : users' = [users EXCEPT ![u].deleted = d]
    BY <1>13 DEF SoftDeleteUser, Revive
  <2>2. users' \in [Users -> UserRows]
    BY <1>0, <2>1, DeletedType
  <2> QED
    BY <1>0, <1>13, <2>2 DEF SoftDeleteUser, Revive
<1>14. CASE Crash
  BY <1>0, <1>14 DEF Crash, Fault, IdleWorker
<1>15. CASE Tick
  BY <1>0, <1>15 DEF Tick
<1>16. CASE UNCHANGED vars
  BY <1>0, <1>16 DEF vars
<1> QED
  BY <1>1, <1>2, <1>3, <1>4, <1>5, <1>6, <1>7, <1>8, <1>9, <1>10, <1>11, <1>12,
     <1>13, <1>14, <1>15, <1>16
     DEF Next, CreateStarsInvoice, CreateCryptoInvoice, Methods

\* What is owed, and every request in flight, has a paid charge behind it.
LEMMA BackedStep == Base /\ [Next]_vars => DeliveriesBacked'
<1> SUFFICES ASSUME Base, [Next]_vars PROVE DeliveriesBacked'
  OBVIOUS
<1> USE DEF Base, TypeOK, DeliveriesBacked, HistoryOK, dbVars, history
<1> USE NullAssumption
<1>1. ASSUME NEW u \in Users, NEW c \in Charges, NEW m \in Methods,
             NEW p \in PlanRequests, CreateInvoice(u, c, m, p)
      PROVE  DeliveriesBacked'
  <2>1. \A d \in paid : invoice'[d] = invoice[d]
    BY <1>1 DEF CreateInvoice
  <2> QED
    BY <1>1, <2>1 DEF CreateInvoice
<1>2. ASSUME NEW c \in Charges, Pay(c) PROVE DeliveriesBacked'
  BY <1>2 DEF Pay
<1>3. ASSUME NEW h \in Handlers, NEW c \in Charges, DeliverStars(h, c) \/ DeliverCrypto(h, c) PROVE DeliveriesBacked'
  BY <1>3 DEF DeliverStars, DeliverCrypto, FindUser, Answer200
<1>4. ASSUME NEW c \in Charges, DeliverUnknownUser(c) \/ LookupFails(c) PROVE DeliveriesBacked'
  BY <1>4 DEF DeliverUnknownUser, LookupFails, Answer200
<1>5. ASSUME NEW h \in Handlers, CommitStars(h) \/ CommitCrypto(h) PROVE DeliveriesBacked'
  BY <1>5, CommitType DEF CommitTx, CommitStars, CommitCrypto
<1>6. ASSUME NEW h \in Handlers, TxFail(h) PROVE DeliveriesBacked'
  BY <1>6 DEF TxFail, AnswerTxError
<1>7. ASSUME UNCHANGED <<paid, owed, invoice, handler>> PROVE DeliveriesBacked'
  BY <1>7
<1>8. CASE Crash
  BY <1>8 DEF Crash
<1> QED
  BY <1>1, <1>2, <1>3, <1>4, <1>5, <1>6, <1>7, <1>8 DEF Next, vars, WorkerSelect,
     WorkerDowngrade, WorkerDowngradeError, WorkerNotify, SetDonatorStatus, DeleteMe,
     SoftDeleteUser, Revive, Tick, CreateStarsInvoice, CreateCryptoInvoice, Methods

\* Both hold at the start.
LEMMA BaseInit == Init => Base
  BY ClockAssumption, FaultAssumption, NullAssumption
     DEF Init, Base, TypeOK, DeliveriesBacked, HistoryOK, UserRows, IdleWorker

\* And for ever: the ground the theorems below stand on.
LEMMA BaseInvariant == Spec => []Base
<1>1. Base /\ [Next]_vars => Base'
  BY TypeStep, BackedStep DEF Base
<1> QED
  BY BaseInit, <1>1, PTL DEF Spec

\* Every row, request, batch and history variable keeps its type.
THEOREM PremiumTypeCorrect == Spec => []TypeOK
<1>1. Base => TypeOK
  BY DEF Base
<1> QED
  BY BaseInvariant, <1>1, PTL

-----------------------------------------------------------------------------
\* Once-only activation: an activation is counted only together with the
\* insertion of its donation row, and the row goes only with its count.
THEOREM ChargesCreditedOnce == Spec => []CreditedOnce
<1> DEFINE Counted == \A c \in Charges :
             credits[c] \in Nat /\ credits[c] <= 1 /\ (credits[c] # 0 => c \in donations)
<1>1. Init => Counted
  BY DEF Init
<1>2. Base /\ Counted /\ [Next]_vars => Counted'
  <2> SUFFICES ASSUME Base, Counted, [Next]_vars PROVE Counted'
    OBVIOUS
  <2>1. ASSUME NEW h \in Handlers, CommitTx(h) PROVE Counted'
    <3> DEFINE c == handler[h].charge
    <3>1. c \in Charges /\ credits \in [Charges -> Nat]
      BY <2>1, RequestFacts DEF CommitTx, Base, TypeOK, HistoryOK
    <3>2. CASE AlreadyRecorded(c)
      BY <2>1, <3>2 DEF CommitTx
    <3>3. CASE ~AlreadyRecorded(c)
      <4>1. c \notin donations /\ donations' = donations \cup {c}
        BY <2>1, <3>3 DEF CommitTx, AlreadyRecorded
      <4>2. credits' = credits \/ credits' = [credits EXCEPT ![c] = @ + 1]
        BY <2>1, <3>3 DEF CommitTx, ActivatePremium
      <4>3. credits[c] = 0
        BY <3>1, <4>1
      <4> QED
        BY <3>1, <4>1, <4>2, <4>3
    <3> QED
      BY <3>2, <3>3
  <2>2. ASSUME NEW u \in Users, DeleteMe(u) PROVE Counted'
    BY <2>2 DEF DeleteMe
  <2>3. ASSUME UNCHANGED <<donations, credits>> PROVE Counted'
    BY <2>3
  <2> QED
    BY <2>1, <2>2, <2>3 DEF Next, vars, dbVars, history, CreateStarsInvoice,
       CreateCryptoInvoice, CreateInvoice, Pay, DeliverStars, DeliverCrypto, FindUser,
       CommitStars, CommitCrypto, DeliverUnknownUser, LookupFails, TxFail, WorkerSelect, WorkerDowngrade, WorkerDowngradeError,
       WorkerNotify, SetDonatorStatus, SoftDeleteUser, Revive, Crash, Tick
<1>3. Counted => CreditedOnce
  BY DEF CreditedOnce
<1> QED
  BY BaseInvariant, <1>1, <1>2, <1>3, PTL DEF Spec

\* Where a paid Crypto Pay charge can be.
CryptoKept ==
  \A c \in paid :
    invoice[c].method = "crypto"
      => c \in owed \cup donations \cup refused \cup erased \cup missed

\* No more charges are lost to a failed lookup than there were failures.
MissesPaidFor == IsFiniteSet(missed) /\ Cardinality(missed) <= faults

\* Only a failed lookup adds to the missed charges, and one at a time.
LEMMA MissStep == Base /\ MissesPaidFor /\ [Next]_vars => MissesPaidFor'
<1> SUFFICES ASSUME Base, MissesPaidFor, [Next]_vars PROVE MissesPaidFor'
  OBVIOUS
<1>0. faults \in Nat /\ Cardinality(missed) \in Nat
  BY FS_CardinalityType DEF Base, TypeOK, MissesPaidFor
<1>1. ASSUME NEW c \in Charges, LookupFails(c) PROVE MissesPaidFor'
  <2>1. missed' = missed \cup {c} /\ faults' = faults + 1
    BY <1>1 DEF LookupFails, Fault
  <2>2. IsFiniteSet(missed') /\ Cardinality(missed') <= Cardinality(missed) + 1
    BY <1>0, <2>1, FS_AddElement DEF MissesPaidFor
  <2>3. Cardinality(missed') \in Nat
    BY <2>2, FS_CardinalityType
  <2> QED
    BY <1>0, <2>1, <2>2, <2>3 DEF MissesPaidFor
<1>2. ASSUME missed' = missed, faults' = faults \/ faults' = faults + 1 PROVE MissesPaidFor'
  BY <1>0, <1>2 DEF MissesPaidFor
<1> QED
  BY <1>1, <1>2 DEF Next, vars, history, dbVars, CreateStarsInvoice, CreateCryptoInvoice,
     CreateInvoice, Pay, DeliverStars, DeliverCrypto, FindUser, DeliverUnknownUser,
     CommitStars, CommitCrypto, CommitTx, TxFail, Fault, WorkerSelect, WorkerDowngrade,
     WorkerDowngradeError, WorkerNotify, SetDonatorStatus, DeleteMe, SoftDeleteUser, Revive,
     Crash, Tick

\* A paid Crypto Pay charge stays accounted for through every failure, and the only
\* failures that lose one for good are failed user lookups, each at most one.
THEOREM CryptoPaymentsKept == Spec => []CryptoNeverLost
<1>1. Init => CryptoKept /\ MissesPaidFor
  <2>1. IsFiniteSet({}) /\ Cardinality({}) = 0
    BY FS_EmptySet
  <2> QED
    BY <2>1 DEF Init, CryptoKept, MissesPaidFor
<1>2. Base /\ CryptoKept /\ [Next]_vars => CryptoKept'
  <2> SUFFICES ASSUME Base, CryptoKept, [Next]_vars PROVE CryptoKept'
    OBVIOUS
  <2> USE DEF CryptoKept, dbVars, history
  <2>1. ASSUME NEW u \in Users, NEW c \in Charges, NEW m \in Methods,
               NEW p \in PlanRequests, CreateInvoice(u, c, m, p)
        PROVE  CryptoKept'
    <3>1. \A d \in paid : invoice'[d] = invoice[d]
      BY <2>1 DEF CreateInvoice, Base, TypeOK, DeliveriesBacked, HistoryOK
    <3> QED
      BY <2>1, <3>1 DEF CreateInvoice
  <2>2. ASSUME NEW c \in Charges, Pay(c) PROVE CryptoKept'
    BY <2>2 DEF Pay
  <2>3. ASSUME NEW h \in Handlers, NEW c \in Charges, DeliverStars(h, c) \/ DeliverCrypto(h, c) PROVE CryptoKept'
    BY <2>3 DEF DeliverStars, DeliverCrypto, FindUser, Answer200
  <2>4. ASSUME NEW c \in Charges, DeliverUnknownUser(c) \/ LookupFails(c) PROVE CryptoKept'
    BY <2>4 DEF DeliverUnknownUser, LookupFails, Answer200
  <2>5. ASSUME NEW h \in Handlers, CommitStars(h) \/ CommitCrypto(h) PROVE CryptoKept'
    <3>1. handler[h].charge \in donations' /\ donations \subseteq donations'
      BY <2>5 DEF CommitTx, CommitStars, CommitCrypto, AlreadyRecorded
    <3>2. owed \ {handler[h].charge} \subseteq owed'
      BY <2>5 DEF CommitStars, CommitCrypto, Answer200
    <3> QED
      BY <2>5, <3>1, <3>2 DEF CommitTx, CommitStars, CommitCrypto
  <2>6. ASSUME NEW h \in Handlers, TxFail(h) PROVE CryptoKept'
    BY <2>6 DEF TxFail, AnswerTxError
  <2>7. ASSUME NEW u \in Users, DeleteMe(u) PROVE CryptoKept'
    BY <2>7 DEF DeleteMe
  <2>8. ASSUME UNCHANGED <<paid, owed, invoice, donations, refused, missed, erased>>
        PROVE  CryptoKept'
    BY <2>8
  <2> QED
    BY <2>1, <2>2, <2>3, <2>4, <2>5, <2>6, <2>7, <2>8 DEF Next, vars, WorkerSelect,
       WorkerDowngrade, WorkerDowngradeError, WorkerNotify, SetDonatorStatus,
       SoftDeleteUser, Revive, Crash, Tick, CreateStarsInvoice, CreateCryptoInvoice, Methods
<1>3. CryptoKept /\ MissesPaidFor => CryptoNeverLost
  BY DEF CryptoKept, MissesPaidFor, CryptoNeverLost
<1> QED
  BY BaseInvariant, MissStep, <1>1, <1>2, <1>3, PTL DEF Spec

\* What a worker is about to downgrade had lapsed when it was read, and only a
\* new grant changes that.  The invariant forgets about deletion, which a
\* revival undoes.
THEOREM StaleRowsOnlyAfterNewGrant == Spec => []UntouchedRowsLapsed
<1> DEFINE Old(u) == ~users[u].donator \/ (users[u].expires # NULL /\ users[u].expires < now)
           RowsOld == \A w \in Workers : \A u \in worker[w].batch :
                        <<w, u>> \notin raced => Old(u)
<1>1. Init => RowsOld
  BY DEF Init, IdleWorker
<1>2. Base /\ RowsOld /\ [Next]_vars => RowsOld'
  <2> SUFFICES ASSUME Base, RowsOld, [Next]_vars,
                      NEW v \in Workers, NEW r \in worker'[v].batch, <<v, r>> \notin raced'
               PROVE  Old(r)'
    OBVIOUS
  <2> USE DEF dbVars, history
  <2>0. /\ users \in [Users -> UserRows] /\ now \in Nat
        /\ worker \in [Workers -> [batch : SUBSET Users, notify : Users \cup {NULL}]]
    BY DEF Base, TypeOK
  <2>1. r \in Users /\ users[r].expires \in Nat \cup {NULL}
    <3>1. TypeOK'
      BY TypeStep
    <3>2. r \in Users
      BY <3>1 DEF TypeOK
    <3> QED
      BY <3>2, <2>0 DEF UserRows
  <2>2. ASSUME NEW w \in Workers, WorkerSelect(w) PROVE Old(r)'
    <3>1. CASE v = w
      BY <2>0, <2>2, <3>1 DEF WorkerSelect, ExpiredGrant
    <3>2. CASE v # w
      BY <2>0, <2>2, <3>2 DEF WorkerSelect
    <3> QED
      BY <3>1, <3>2
  <2>3. ASSUME NEW w \in Workers, NEW u \in Users, WorkerDowngrade(w, u) PROVE Old(r)'
    <3>1. r \in worker[v].batch
      BY <2>0, <2>3 DEF WorkerDowngrade
    <3>2. now' = now /\ (users' = users \/ WritePremium(u, FALSE, NULL))
      BY <2>3 DEF WorkerDowngrade
    <3> QED
      BY <2>0, <2>1, <2>3, <3>1, <3>2 DEF WorkerDowngrade, WritePremium
  <2>4. ASSUME NEW w \in Workers, NEW u \in Users, WorkerDowngradeError(w, u) PROVE Old(r)'
    BY <2>0, <2>4 DEF WorkerDowngradeError
  <2>5. ASSUME NEW w \in Workers, WorkerNotify(w) PROVE Old(r)'
    BY <2>0, <2>5 DEF WorkerNotify
  <2>6. ASSUME NEW h \in Handlers, CommitTx(h) PROVE Old(r)'
    <3> DEFINE c == handler[h].charge
               u == PayloadUser(c)
    <3>1. \/ users' = users /\ raced' = raced
          \/ WritePremium(u, TRUE, handler[h].expires) /\ raced' = raced \cup (Workers \X {u})
      BY <2>6 DEF CommitTx, ActivatePremium
    <3>2. r \in worker[v].batch /\ now' = now
      BY <2>6 DEF CommitTx
    <3> HIDE DEF c, u
    <3> QED
      BY <2>0, <2>1, <3>1, <3>2 DEF WritePremium
  <2>7. ASSUME NEW u \in Users, NEW granted \in BOOLEAN, SetDonatorStatus(u, granted)
        PROVE  Old(r)'
    BY <2>0, <2>1, <2>7 DEF SetDonatorStatus, WritePremium
  <2>8. ASSUME NEW u \in Users, DeleteMe(u) \/ SoftDeleteUser(u) \/ Revive(u) PROVE Old(r)'
    <3>1. \E d \in BOOLEAN : users' = [users EXCEPT ![u].deleted = d]
      BY <2>8 DEF DeleteMe, SoftDeleteUser, Revive
    <3>2. users'[r].donator = users[r].donator /\ users'[r].expires = users[r].expires
      BY <2>0, <2>1, <3>1 DEF UserRows
    <3> QED
      BY <2>8, <3>2 DEF DeleteMe, SoftDeleteUser, Revive
  <2>9. CASE Crash
    BY <2>9 DEF Crash, IdleWorker
  <2>10. CASE Tick
    BY <2>0, <2>1, <2>10, NullAssumption DEF Tick
  <2>11. ASSUME UNCHANGED <<now, users, worker, raced>> PROVE Old(r)'
    BY <2>11
  <2> QED
    BY <2>2, <2>3, <2>4, <2>5, <2>6, <2>7, <2>8, <2>9, <2>10, <2>11 DEF Next, vars,
       CreateStarsInvoice, CreateCryptoInvoice, CreateInvoice, Pay, DeliverStars,
       DeliverCrypto, FindUser, DeliverUnknownUser, LookupFails, CommitStars, CommitCrypto, TxFail
<1>3. RowsOld => UntouchedRowsLapsed
  BY DEF UntouchedRowsLapsed, Lapsed
<1> QED
  BY BaseInvariant, <1>1, <1>2, <1>3, PTL DEF Spec

-----------------------------------------------------------------------------
\* The workers about to tell u that Premium has expired.
Telling(u) == {w \in Workers : worker[w].notify = u}

\* There are finitely many of them.
LEMMA FinitelyManyTell ==
  ASSUME NEW u \in Users
  PROVE  IsFiniteSet(Telling(u)) /\ Cardinality(Telling(u)) \in Nat
  BY WorkerAssumption, FS_Subset, FS_CardinalityType DEF Telling

\* A worker owes a message only from the UPDATE that matched the row to its send: the
\* downgrade that earned the message counts one notice due, the message spends it.
THEOREM OneNoticePerDowngrade == Spec => []NoticePerDowngrade
<1> DEFINE Due == \A u \in Users : Cardinality(Telling(u)) <= due[u]
<1>1. Init => Due
  <2> SUFFICES ASSUME Init, NEW u \in Users PROVE Cardinality(Telling(u)) <= due[u]
    OBVIOUS
  <2>1. Telling(u) = {}
    BY NullAssumption DEF Init, IdleWorker, Telling
  <2>2. Cardinality(Telling(u)) = 0
    BY <2>1, FS_EmptySet
  <2>3. due[u] = 0
    BY DEF Init
  <2> QED
    BY <2>2, <2>3
<1>2. Base /\ Due /\ [Next]_vars => Due'
  <2> SUFFICES ASSUME Base, Due, [Next]_vars, NEW r \in Users
               PROVE  Cardinality(Telling(r)') <= due'[r]
    OBVIOUS
  <2> USE NullAssumption DEF dbVars, history
  <2>0. /\ worker \in [Workers -> [batch : SUBSET Users, notify : Users \cup {NULL}]]
        /\ due \in [Users -> Int] /\ Cardinality(Telling(r)) <= due[r]
        /\ IsFiniteSet(Telling(r)) /\ Cardinality(Telling(r)) \in Nat
    BY FinitelyManyTell DEF Base, TypeOK, HistoryOK
  <2>1. ASSUME NEW w \in Workers, WorkerSelect(w) PROVE Cardinality(Telling(r)') <= due'[r]
    <3>1. Telling(r)' = Telling(r)
      BY <2>0, <2>1 DEF WorkerSelect, Telling
    <3> QED
      BY <2>0, <2>1, <3>1 DEF WorkerSelect
  <2>2. ASSUME NEW w \in Workers, NEW u \in Users, WorkerDowngrade(w, u)
        PROVE  Cardinality(Telling(r)') <= due'[r]
    <3>1. w \notin Telling(r)
      BY <2>2 DEF WorkerDowngrade, Telling
    <3>2. CASE DowngradeMatches(u) /\ r = u
      <4>1. Telling(r)' = Telling(r) \cup {w}
        BY <2>0, <2>2, <3>2 DEF WorkerDowngrade, Telling, SkipsNotice
      <4>2. due'[r] = due[r] + 1
        BY <2>0, <2>2, <3>2 DEF WorkerDowngrade
      <4>3. Cardinality(Telling(r)') = Cardinality(Telling(r)) + 1
        BY <2>0, <3>1, <4>1, FS_AddElement
      <4> QED
        BY <2>0, <4>2, <4>3
    <3>3. CASE ~(DowngradeMatches(u) /\ r = u)
      <4>1. Telling(r)' = Telling(r)
        BY <2>0, <2>2, <3>1, <3>3 DEF WorkerDowngrade, Telling, SkipsNotice
      <4>2. due'[r] = due[r]
        BY <2>0, <2>2, <3>3 DEF WorkerDowngrade
      <4> QED
        BY <2>0, <4>1, <4>2
    <3> QED
      BY <3>2, <3>3
  <2>3. ASSUME NEW w \in Workers, NEW u \in Users, WorkerDowngradeError(w, u)
        PROVE  Cardinality(Telling(r)') <= due'[r]
    <3>1. Telling(r)' = Telling(r)
      BY <2>0, <2>3 DEF WorkerDowngradeError, Telling
    <3> QED
      BY <2>0, <2>3, <3>1 DEF WorkerDowngradeError
  <2>4. ASSUME NEW w \in Workers, WorkerNotify(w) PROVE Cardinality(Telling(r)') <= due'[r]
    <3>1. CASE worker[w].notify = r
      <4>1. w \in Telling(r) /\ Telling(r)' = Telling(r) \ {w}
        BY <2>0, <2>4, <3>1 DEF WorkerNotify, Telling
      <4>2. due'[r] = due[r] - 1
        BY <2>0, <2>4, <3>1 DEF WorkerNotify
      <4>3. Cardinality(Telling(r)') = Cardinality(Telling(r)) - 1
        BY <2>0, <4>1, FS_RemoveElement
      <4> QED
        BY <2>0, <4>2, <4>3
    <3>2. CASE worker[w].notify # r
      <4>1. Telling(r)' = Telling(r)
        BY <2>0, <2>4, <3>2 DEF WorkerNotify, Telling
      <4>2. due'[r] = due[r]
        BY <2>0, <2>4, <3>2 DEF WorkerNotify
      <4> QED
        BY <2>0, <4>1, <4>2
    <3> QED
      BY <3>1, <3>2
  <2>5. CASE Crash
    <3>1. Telling(r)' = {}
      BY <2>5 DEF Crash, IdleWorker, Telling
    <3> QED
      BY <2>0, <2>5, <3>1, FS_EmptySet DEF Crash
  <2>6. ASSUME UNCHANGED <<worker, due>> PROVE Cardinality(Telling(r)') <= due'[r]
    BY <2>0, <2>6 DEF Telling
  <2> QED
    BY <2>1, <2>2, <2>3, <2>4, <2>5, <2>6 DEF Next, vars, CreateStarsInvoice,
       CreateCryptoInvoice, CreateInvoice, Pay, DeliverStars, DeliverCrypto, FindUser,
       DeliverUnknownUser, LookupFails, CommitStars, CommitCrypto, CommitTx, TxFail, SetDonatorStatus,
       DeleteMe, SoftDeleteUser, Revive, Tick
<1>3. Due => NoticePerDowngrade
  BY DEF NoticePerDowngrade, Telling
<1> QED
  BY BaseInvariant, <1>1, <1>2, <1>3, PTL DEF Spec

-----------------------------------------------------------------------------
\* Refinement: seen through donations and credits, every step of the payment
\* code settles a charge, forgets an account's charges, or does nothing.
THEOREM WebhooksImplementLedger == Spec => ImplementsLedger
<1>1. Init => Ledger!Init
  BY DEF Init, Ledger!Init
<1>2. Base /\ [Next]_vars => [Ledger!Next]_<<donations, credits>>
  <2> SUFFICES ASSUME Base, [Next]_vars PROVE [Ledger!Next]_<<donations, credits>>
    OBVIOUS
  <2> USE DEF dbVars, history
  <2>1. ASSUME NEW h \in Handlers, CommitTx(h) PROVE [Ledger!Next]_<<donations, credits>>
    <3> DEFINE c == handler[h].charge
    <3>1. c \in Charges
      BY <2>1, RequestFacts DEF CommitTx
    <3>2. CASE AlreadyRecorded(c)
      BY <2>1, <3>2 DEF CommitTx
    <3>3. CASE ~AlreadyRecorded(c)
      <4>1. c \notin donations /\ donations' = donations \cup {c}
        BY <2>1, <3>3 DEF CommitTx, AlreadyRecorded
      <4>2. credits' = credits \/ credits' = [credits EXCEPT ![c] = @ + 1]
        BY <2>1, <3>3 DEF CommitTx, ActivatePremium
      <4> QED
        BY <3>1, <4>1, <4>2 DEF Ledger!Next, Ledger!Settle
    <3> QED
      BY <3>2, <3>3
  <2>2. ASSUME NEW u \in Users, DeleteMe(u) PROVE [Ledger!Next]_<<donations, credits>>
    <3> DEFINE mine == {c \in donations : PayloadUser(c) = u}
    <3>1. CASE mine = {}
      <4>1. credits' = credits
        BY <2>2, <3>1 DEF DeleteMe, Base, TypeOK, HistoryOK
      <4> QED
        BY <2>2, <3>1, <4>1 DEF DeleteMe
    <3>2. CASE mine # {}
      BY <2>2, <3>2 DEF DeleteMe, Ledger!Next, Ledger!Forget
    <3> QED
      BY <3>1, <3>2
  <2>3. ASSUME UNCHANGED <<donations, credits>> PROVE [Ledger!Next]_<<donations, credits>>
    BY <2>3
  <2> QED
    BY <2>1, <2>2, <2>3 DEF Next, vars, CreateStarsInvoice, CreateCryptoInvoice,
       CreateInvoice, Pay, DeliverStars, DeliverCrypto, FindUser, DeliverUnknownUser, LookupFails,
       CommitStars, CommitCrypto,
       TxFail, WorkerSelect, WorkerDowngrade, WorkerDowngradeError, WorkerNotify,
       SetDonatorStatus, SoftDeleteUser, Revive, Crash, Tick
<1> QED
  BY BaseInvariant, <1>1, <1>2, PTL DEF Spec, ImplementsLedger, Ledger!Spec

-----------------------------------------------------------------------------
\* What a worker has before it: the rows of its batch, each an UPDATE and maybe a
\* message, and the message it owes.
WorkLeft(w) ==
    (worker[w].batch \X {"row", "notice"})
      \cup (({worker[w].notify} \ {NULL}) \X {"notice"})

\* A worker that owes a message is through with that row.
NoticeAfterRow == \A w \in Workers : worker[w].notify \notin worker[w].batch

\* A worker can take a step of its own, and it can whenever a grant has lapsed.
WorkerReady(w) ==
    \/ worker[w] = IdleWorker /\ \E u \in Users : ExpiredGrant(u)
    \/ worker[w].notify # NULL
    \/ worker[w].notify = NULL /\ worker[w].batch # {}
LapsedKeepsWorkersGoing ==
    \A u \in Users, w \in Workers : Lapsed(u) => WorkerReady(w)

\* A tick takes in every lapsed grant, each further step of the worker leaves it less
\* of a finite amount of work, nobody adds to that, and a row it is through with is
\* lapsed no more, save where a statement or the process failed.
WorkedOff(w) ==
    /\ WorkerSelect(w) => \A u \in Users : Lapsed(u) => u \in worker'[w].batch
    /\ ~WorkerSelect(w) => WorkLeft(w)' \subseteq WorkLeft(w)
    /\ WorkerStep(w) /\ ~WorkerSelect(w) => WorkLeft(w)' # WorkLeft(w)
    /\ \A u \in worker[w].batch \ worker'[w].batch : faults' > faults \/ ~Lapsed(u)'
LapsedWorkedOff ==
    [][\A w \in Workers : IsFiniteSet(WorkLeft(w)) /\ WorkedOff(w)]_vars

\* The work of a worker is finite.
LEMMA WorkIsFinite ==
  ASSUME Base, NEW w \in Workers
  PROVE  IsFiniteSet(WorkLeft(w))
<1>1. worker[w].batch \subseteq Users
  BY DEF Base, TypeOK
<1>2. IsFiniteSet(worker[w].batch)
  BY <1>1, UserAssumption, FS_Subset
<1>3. IsFiniteSet({"notice"}) /\ IsFiniteSet({"notice"} \cup {"row"})
  BY FS_Singleton, FS_AddElement
<1>4. {"row", "notice"} = {"notice"} \cup {"row"}
  OBVIOUS
<1>5. IsFiniteSet({worker[w].notify} \ {NULL})
  BY FS_Singleton, FS_Difference
<1>6. /\ IsFiniteSet(worker[w].batch \X {"row", "notice"})
      /\ IsFiniteSet(({worker[w].notify} \ {NULL}) \X {"notice"})
  BY <1>2, <1>3, <1>4, <1>5, FS_Product
<1> QED
  BY <1>6, FS_Union DEF WorkLeft

\* What one step makes of the work of one worker.
LEMMA WorkStep ==
  ASSUME Base, NoticeAfterRow, [Next]_vars, NEW v \in Workers
  PROVE  WorkedOff(v) /\ worker'[v].notify \notin worker'[v].batch
<1> USE NullAssumption DEF dbVars, history
<1>0. /\ worker \in [Workers -> [batch : SUBSET Users, notify : Users \cup {NULL}]]
      /\ worker[v].notify \notin worker[v].batch /\ faults \in Nat
      /\ users \in [Users -> UserRows]
  BY DEF Base, TypeOK, NoticeAfterRow
<1>1. ASSUME worker'[v] = worker[v]
      PROVE  WorkedOff(v) /\ worker'[v].notify \notin worker'[v].batch
  <2>1. ~WorkerSelect(v)
    BY <1>0, <1>1 DEF WorkerSelect, IdleWorker
  <2>2. ~WorkerNotify(v)
    BY <1>0, <1>1 DEF WorkerNotify
  <2>3. ASSUME NEW u \in Users, WorkerDowngrade(v, u) PROVE FALSE
    <3>1. u \in worker[v].batch
      BY <2>3 DEF WorkerDowngrade
    <3>2. worker'[v].batch = worker[v].batch \ {u}
      BY <1>0, <2>3 DEF WorkerDowngrade
    <3> QED
      BY <1>1, <3>1, <3>2
  <2>4. WorkLeft(v)' = WorkLeft(v)
    BY <1>1 DEF WorkLeft
  <2> QED
    BY <1>0, <1>1, <2>1, <2>2, <2>3, <2>4 DEF WorkedOff, WorkerStep
<1>2. CASE WorkerSelect(v)
  <2>1. /\ worker'[v].batch = {u \in Users : ExpiredGrant(u)} /\ worker'[v].notify = NULL
        /\ worker[v].batch = {}
    BY <1>0, <1>2 DEF WorkerSelect, IdleWorker
  <2>2. \A u \in Users : Lapsed(u) => u \in worker'[v].batch
    BY <2>1 DEF ExpiredGrant, Lapsed
  <2>3. worker'[v].notify \notin worker'[v].batch
    BY <2>1
  <2> QED
    BY <1>2, <2>1, <2>2, <2>3 DEF WorkedOff
<1>3. ASSUME NEW u \in Users, WorkerDowngrade(v, u)
      PROVE  WorkedOff(v) /\ worker'[v].notify \notin worker'[v].batch
  <2>1. /\ u \in worker[v].batch /\ worker[v].notify = NULL
        /\ worker'[v].batch = worker[v].batch \ {u} /\ worker'[v].notify \in {NULL, u}
    BY <1>0, <1>3 DEF WorkerDowngrade
  <2>2. ~WorkerSelect(v)
    BY <2>1 DEF WorkerSelect, IdleWorker
  <2>3. WorkLeft(v)' \subseteq WorkLeft(v)
    BY <2>1 DEF WorkLeft
  <2>4. <<u, "row">> \in WorkLeft(v) /\ <<u, "row">> \notin WorkLeft(v)'
    BY <2>1 DEF WorkLeft
  <2>5. ~Lapsed(u)'
    <3>1. CASE DowngradeMatches(u)
      <4>1. users'[u].donator = FALSE
        BY <1>0, <1>3, <3>1 DEF WorkerDowngrade, WritePremium
      <4> QED
        BY <4>1 DEF Lapsed
    <3>2. CASE ~DowngradeMatches(u)
      <4>1. users' = users
        BY <1>3, <3>2 DEF WorkerDowngrade
      <4> QED
        BY <3>2, <4>1 DEF Lapsed, DowngradeMatches
    <3> QED
      BY <3>1, <3>2
  <2>6. worker'[v].notify \notin worker'[v].batch
    BY <1>0, <2>1
  <2> QED
    BY <2>1, <2>2, <2>3, <2>4, <2>5, <2>6 DEF WorkedOff
<1>4. ASSUME NEW u \in Users, WorkerDowngradeError(v, u)
      PROVE  WorkedOff(v) /\ worker'[v].notify \notin worker'[v].batch
  <2>1. /\ u \in worker[v].batch /\ worker'[v].batch = worker[v].batch \ {u}
        /\ worker'[v].notify = worker[v].notify /\ faults' > faults
    BY <1>0, <1>4 DEF WorkerDowngradeError, Fault
  <2>2. ~WorkerSelect(v)
    BY <2>1 DEF WorkerSelect, IdleWorker
  <2>3. WorkLeft(v)' \subseteq WorkLeft(v) /\ WorkLeft(v)' # WorkLeft(v)
    <3>1. <<u, "row">> \in WorkLeft(v) /\ <<u, "row">> \notin WorkLeft(v)'
      BY <2>1 DEF WorkLeft
    <3> QED
      BY <2>1, <3>1 DEF WorkLeft
  <2> QED
    BY <1>0, <2>1, <2>2, <2>3 DEF WorkedOff
<1>5. CASE WorkerNotify(v)
  <2>1. /\ worker[v].notify # NULL /\ worker'[v].batch = worker[v].batch
        /\ worker'[v].notify = NULL
    BY <1>0, <1>5 DEF WorkerNotify
  <2>2. ~WorkerSelect(v)
    BY <2>1 DEF WorkerSelect, IdleWorker
  <2>3. WorkLeft(v)' \subseteq WorkLeft(v)
    BY <2>1 DEF WorkLeft
  <2>4. <<worker[v].notify, "notice">> \in WorkLeft(v)
    BY <2>1 DEF WorkLeft
  <2>5. <<worker[v].notify, "notice">> \notin WorkLeft(v)'
    BY <1>0, <2>1 DEF WorkLeft
  <2>6. worker'[v].notify \notin worker'[v].batch
    BY <1>0, <2>1
  <2> QED
    BY <2>1, <2>2, <2>3, <2>4, <2>5, <2>6 DEF WorkedOff
<1>6. CASE Crash
  <2>1. /\ worker'[v].batch = {} /\ worker'[v].notify = NULL
        /\ faults' > faults /\ faults' # faults
    BY <1>0, <1>6 DEF Crash, Fault, IdleWorker
  <2>2. ~WorkerSelect(v) /\ ~WorkerNotify(v)
    BY <2>1, Zenon DEF WorkerSelect, WorkerNotify
  <2>3. \A u \in Users : ~WorkerDowngrade(v, u)
    BY <2>1, Zenon DEF WorkerDowngrade
  <2>4. ~WorkerStep(v)
    BY <2>2, <2>3 DEF WorkerStep
  <2>5. WorkLeft(v)' = {}
    BY <2>1 DEF WorkLeft
  <2> QED
    BY <2>1, <2>2, <2>4, <2>5 DEF WorkedOff
<1>7. ASSUME NEW w \in Workers, w # v, NEW u \in Users,
             \/ WorkerSelect(w) \/ WorkerDowngrade(w, u)
             \/ WorkerDowngradeError(w, u) \/ WorkerNotify(w)
      PROVE  worker'[v] = worker[v]
  BY <1>0, <1>7 DEF WorkerSelect, WorkerDowngrade, WorkerDowngradeError, WorkerNotify
<1>8. ASSUME NEW w \in Workers, w # v, WorkerSelect(w) \/ WorkerNotify(w)
      PROVE  worker'[v] = worker[v]
  BY <1>0, <1>8 DEF WorkerSelect, WorkerNotify
<1>9. \/ worker' = worker \/ Crash
      \/ \E w \in Workers : WorkerSelect(w) \/ WorkerNotify(w)
      \/ \E w \in Workers, u \in Users : WorkerDowngrade(w, u) \/ WorkerDowngradeError(w, u)
  BY DEF Next, vars, CreateStarsInvoice, CreateCryptoInvoice, CreateInvoice, Pay,
         DeliverStars, DeliverCrypto, FindUser, DeliverUnknownUser, LookupFails, CommitStars,
         CommitCrypto, CommitTx, TxFail, SetDonatorStatus, DeleteMe, SoftDeleteUser,
         Revive, Tick
<1> QED
  BY <1>1, <1>2, <1>3, <1>4, <1>5, <1>6, <1>7, <1>8, <1>9

\* The expiry worker: with a lapsed grant in the table no worker stands still, the
\* batch it reads has every lapsed grant, it gets through the batch in finitely many
\* steps that no webhook, admin or other worker adds to, and a grant it is through with
\* is lapsed no more unless the UPDATE or the process failed.
THEOREM LapsedGrantsWorkedOff ==
  Spec => []LapsedKeepsWorkersGoing /\ LapsedWorkedOff
<1>1. Init => NoticeAfterRow
  BY DEF Init, NoticeAfterRow, IdleWorker
<1>2. Base /\ NoticeAfterRow /\ [Next]_vars => NoticeAfterRow'
  BY WorkStep DEF NoticeAfterRow
<1>3. Base => LapsedKeepsWorkersGoing
  <2> SUFFICES ASSUME Base, NEW u \in Users, NEW w \in Workers, Lapsed(u)
               PROVE  WorkerReady(w)
    BY DEF LapsedKeepsWorkersGoing
  <2>1. worker[w] \in [batch : SUBSET Users, notify : Users \cup {NULL}]
    BY DEF Base, TypeOK
  <2>2. worker[w].notify = NULL /\ worker[w].batch = {} => worker[w] = IdleWorker
    BY <2>1 DEF IdleWorker
  <2> QED
    BY <2>2 DEF WorkerReady, ExpiredGrant, Lapsed
<1>4. Base /\ NoticeAfterRow /\ [Next]_vars
        => [\A w \in Workers : IsFiniteSet(WorkLeft(w)) /\ WorkedOff(w)]_vars
  BY WorkStep, WorkIsFinite
<1> QED
  BY BaseInvariant, <1>1, <1>2, <1>3, <1>4, PTL DEF Spec, LapsedWorkedOff

-----------------------------------------------------------------------------
\* A request between its two statements can commit, and when it is over its charge is
\* recorded, save where the transaction or the process failed.
RequestReady(h) ==
    handler[h] # NULL => invoice[handler[h].charge].method \in Methods
RequestsReady == \A h \in Handlers : RequestReady(h)
RequestsSettle ==
    [][\A h \in Handlers :
         handler[h] # NULL /\ handler'[h] = NULL =>
            faults' > faults \/ handler[h].charge \in donations']_vars

\* The two payment webhooks: a request that found its user never waits for anything,
\* and ends with the charge in donations, whichever request put it there, unless its
\* transaction or the process failed.
THEOREM RequestsEndSettled ==
  Spec => []RequestsReady /\ RequestsSettle
<1>1. Base => RequestsReady
  BY RequestFacts DEF RequestsReady, RequestReady, Invoices
<1>2. Base /\ [Next]_vars => [\A h \in Handlers :
         handler[h] # NULL /\ handler'[h] = NULL =>
            faults' > faults \/ handler[h].charge \in donations']_vars
  <2> SUFFICES ASSUME Base, [Next]_vars, NEW h \in Handlers, handler[h] # NULL,
                      handler'[h] = NULL
               PROVE  faults' > faults \/ handler[h].charge \in donations'
    OBVIOUS
  <2> USE DEF dbVars, history
  <2>0. handler \in [Handlers -> Requests \cup {NULL}] /\ faults \in Nat
    BY DEF Base, TypeOK
  <2>1. ASSUME NEW g \in Handlers, CommitTx(g) PROVE handler[h].charge \in donations'
    <3>1. g = h
      BY <2>0, <2>1 DEF CommitTx
    <3> QED
      BY <2>1, <3>1 DEF CommitTx, AlreadyRecorded
  <2>2. ASSUME NEW g \in Handlers, NEW c \in Charges, FindUser(g, c) PROVE FALSE
    BY <2>0, <2>2 DEF FindUser
  <2>3. ASSUME NEW g \in Handlers, TxFail(g) PROVE faults' > faults
    BY <2>0, <2>3 DEF TxFail, Fault
  <2>4. CASE Crash
    BY <2>0, <2>4 DEF Crash, Fault
  <2>5. handler' # handler
    OBVIOUS
  <2> QED
    BY <2>1, <2>2, <2>3, <2>4, <2>5 DEF Next, vars, CreateStarsInvoice,
       CreateCryptoInvoice, CreateInvoice, Pay, DeliverStars, DeliverCrypto,
       DeliverUnknownUser, LookupFails, CommitStars, CommitCrypto, WorkerSelect, WorkerDowngrade,
       WorkerDowngradeError, WorkerNotify, SetDonatorStatus, DeleteMe, SoftDeleteUser,
       Revive, Tick
<1> QED
  BY BaseInvariant, <1>1, <1>2, PTL DEF Spec, RequestsSettle
=============================================================================
