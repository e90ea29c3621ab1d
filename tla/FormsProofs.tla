---------------------------- MODULE FormsProofs ----------------------------
(***************************************************************************)
(* Theorems about the three forms of the client: type correctness, one     *)
(* request per save, and the day an edit leaves alone.                     *)
(***************************************************************************)
EXTENDS CreateRoomForm, SubscriptionForm, RoomPicker, FiniteSetTheorems,
        TLAPS

(***************************************************************************)
(* CreateRoomForm.                                                         *)
(***************************************************************************)
\* A list one of whose elements is taken out is a list of the same kind.
LEMMA OneRemoved ==
  ASSUME NEW S, NEW s \in Seq(S), NEW i \in 1 .. Len(s)
  PROVE  LET t == [j \in 1 .. Len(s) - 1 |-> IF j < i THEN s[j] ELSE s[j + 1]]
         IN  t \in Seq(S) /\ Len(t) <= Len(s)
<1> DEFINE n == Len(s) - 1
           t == [j \in 1 .. n |-> IF j < i THEN s[j] ELSE s[j + 1]]
<1>1. n \in Nat /\ n <= Len(s)
  OBVIOUS
<1>2. \A j \in 1 .. n : t[j] \in S
  <2> TAKE j \in 1 .. n
  <2>1. s[j] \in S /\ s[j + 1] \in S
    OBVIOUS
  <2> QED
    BY <2>1
<1>3. t \in [1 .. n -> S]
  BY <1>2
<1> HIDE DEF n, t
<1>4. t \in Seq(S) /\ Len(t) = n
  <2>1. t \in Seq(S)
    BY <1>1, <1>3
  <2>2. DOMAIN t = 1 .. n
    BY <1>3
  <2> QED
    BY <1>1, <2>1, <2>2
<1> QED
  BY <1>1, <1>4 DEF n, t

\* The lists of services a draft may hold.
LEMMA Drafts ==
  ASSUME NEW S, NEW s \in Seq(S), NEW p \in S
  PROVE  /\ <<>> \in Seq(S) /\ Len(<<>>) = 0
         /\ Append(s, p) \in Seq(S) /\ Len(Append(s, p)) = Len(s) + 1
         /\ Len(s) \in Nat
  OBVIOUS

\* The draft, the search and the request of the form keep their types.
THEOREM RoomFormTypeCorrect ==
  RoomFormSpec => []RoomFormTypeOK
<1> USE CreateRoomAssumption
<1>1. RoomFormInit => RoomFormTypeOK
  <2> SUFFICES ASSUME RoomFormInit PROVE RoomFormTypeOK
    OBVIOUS
  <2>1. services \in Seq(Picked) /\ Len(services) <= MaxPicked
    BY DEF RoomFormInit
  <2> QED
    <3>1. saves \in 0 .. MaxSaves /\ inFlight \in 0 .. saves
      BY DEF RoomFormInit
    <3>2. PICK c \in Currencies : defaultCurrency = c /\ currency = c
      BY DEF RoomFormInit
    <3> QED
      BY <2>1, <3>1, <3>2 DEF RoomFormInit, RoomFormTypeOK, Queries
<1>2. RoomFormTypeOK /\ [RoomFormNext]_roomFormVars => RoomFormTypeOK'
  <2> SUFFICES ASSUME RoomFormTypeOK, [RoomFormNext]_roomFormVars
               PROVE  RoomFormTypeOK'
    OBVIOUS
  <2> USE DEF RoomFormTypeOK, outside, basics, finding, dialog, roomDraft, requestVars
  <2>1. CASE OpenForm
    BY <2>1 DEF OpenForm
  <2>2. CASE CloseForm
    <3>1. services' = <<>> /\ services' \in Seq(Picked) /\ Len(services') <= MaxPicked
      BY <2>2 DEF CloseForm, ClearDraft
    <3> QED
      BY <2>2, <3>1 DEF CloseForm, ClearDraft, Queries
  <2>3. ASSUME NEW c \in Currencies, SettingsArrive(c) PROVE RoomFormTypeOK'
    BY <2>3 DEF SettingsArrive
  <2>4. ASSUME NEW c \in Currencies, PickCurrency(c) PROVE RoomFormTypeOK'
    BY <2>4 DEF PickCurrency
  <2>5. ASSUME NEW filled \in BOOLEAN, TypeName(filled) PROVE RoomFormTypeOK'
    BY <2>5 DEF TypeName
  <2>6. ASSUME NEW filled \in BOOLEAN, FillCustom(filled) PROVE RoomFormTypeOK'
    BY <2>6 DEF FillCustom
  <2>7. ASSUME NEW filled \in BOOLEAN, TypeNote(filled) PROVE RoomFormTypeOK'
    BY <2>7 DEF TypeNote
  <2>8. CASE NextStep \/ BackToBasics \/ OpenCustom \/ CancelCustom
    BY <2>8 DEF NextStep, BackToBasics, OpenCustom, CancelCustom, GoTo
  <2>9. CASE AddCustomService
    <3>1. [brand |-> "default", noted |-> FALSE] \in Picked
      BY <2>9 DEF AddCustomService, Picked
    <3>2. services' \in Seq(Picked) /\ Len(services') <= MaxPicked
      BY <2>9, <3>1, Drafts DEF AddCustomService, Append1
    <3> QED
      BY <2>9, <3>2 DEF AddCustomService
  <2>10. ASSUME NEW q \in Queries, TypeSearch(q) PROVE RoomFormTypeOK'
    BY <2>10 DEF TypeSearch
  <2>11. CASE DebounceFires
    BY <2>11 DEF DebounceFires
  <2>12. ASSUME NEW b \in Brands, ServiceClick(b) PROVE RoomFormTypeOK'
    <3>1. [brand |-> b, noted |-> FALSE] \in Picked
      BY DEF Picked
    <3>2. services' \in Seq(Picked) /\ Len(services') <= MaxPicked
      BY <2>12, <3>1, Drafts DEF ServiceClick, Append1
    <3> QED
      BY <2>12, <3>2 DEF ServiceClick
  <2>13. CASE ConfirmDup
    <3>1. [brand |-> newDup, noted |-> TRUE] \in Picked
      BY <2>13 DEF ConfirmDup, Picked
    <3>2. services' \in Seq(Picked) /\ Len(services') <= MaxPicked
      BY <2>13, <3>1, Drafts DEF ConfirmDup, Append1
    <3> QED
      BY <2>13, <3>2 DEF ConfirmDup
  <2>14. CASE CancelDup
    BY <2>14 DEF CancelDup
  <2>15. ASSUME NEW i \in 1 .. Len(services), RemoveService(i) PROVE RoomFormTypeOK'
    <3>1. services' \in Seq(Picked) /\ Len(services') <= Len(services)
      BY <2>15, OneRemoved DEF RemoveService
    <3>2. Len(services') \in Nat /\ Len(services) \in Nat
      BY <3>1
    <3> QED
      BY <2>15, <3>1, <3>2 DEF RemoveService
  <2>16. CASE Save
    <3>1. saves' \in 0 .. MaxSaves /\ inFlight' \in 0 .. saves'
      BY <2>16 DEF Save
    <3>2. UNCHANGED <<createRoomOpen, basics, services, newCustom, dialog,
                      defaultCurrency, finding>>
      BY <2>16 DEF Save
    <3>3. saving' \in BOOLEAN /\ roomStep' \in {"basics", "services", "custom"}
      BY <2>16 DEF Save
    <3> QED
      BY <3>1, <3>2, <3>3
  <2>17. ASSUME NEW ok \in BOOLEAN, SaveAnswered(ok) PROVE RoomFormTypeOK'
    <3>1. CASE ok /\ createRoomOpen
      <4>1. services' = <<>> /\ ClearDraft
        BY <2>17, <3>1 DEF SaveAnswered, ClearDraft
      <4>2. services' \in Seq(Picked) /\ Len(services') <= MaxPicked
        BY <4>1
      <4>3. saves' \in 0 .. MaxSaves /\ inFlight' \in 0 .. saves'
        BY <2>17 DEF SaveAnswered
      <4> QED
        BY <2>17, <3>1, <4>1, <4>2, <4>3 DEF SaveAnswered, ClearDraft, Queries
    <3>2. CASE ~(ok /\ createRoomOpen)
      <4>1. UNCHANGED <<createRoomOpen, roomDraft, newSearch>>
        BY <2>17, <3>2 DEF SaveAnswered
      <4>2. saves' \in 0 .. MaxSaves /\ inFlight' \in 0 .. saves'
        BY <2>17 DEF SaveAnswered
      <4> QED
        BY <2>17, <4>1, <4>2 DEF SaveAnswered
    <3> QED
      BY <3>1, <3>2
  <2>18. CASE UNCHANGED roomFormVars
    BY <2>18 DEF roomFormVars
  <2> QED
    BY <2>1, <2>2, <2>3, <2>4, <2>5, <2>6, <2>7, <2>8, <2>9, <2>10, <2>11, <2>12,
       <2>13, <2>14, <2>15, <2>16, <2>17, <2>18 DEF RoomFormNext
<1> QED
  BY <1>1, <1>2, PTL DEF RoomFormSpec

\* handleSave: `saving` is the guard, and neither closing nor reopening the form
\* resets it before the POST is answered.
THEOREM OneRoomPerSave ==
  RoomFormSpec => []OneCreateInFlight
<1>1. RoomFormInit => OneCreateInFlight
  BY DEF RoomFormInit, OneCreateInFlight
<1>2. RoomFormTypeOK /\ OneCreateInFlight /\ [RoomFormNext]_roomFormVars
        => OneCreateInFlight'
  <2> SUFFICES ASSUME RoomFormTypeOK, OneCreateInFlight, [RoomFormNext]_roomFormVars
               PROVE  OneCreateInFlight'
    OBVIOUS
  <2>1. inFlight \in Nat /\ saving \in BOOLEAN
    BY CreateRoomAssumption DEF RoomFormTypeOK
  <2>2. CASE Save
    BY <2>1, <2>2 DEF Save, OneCreateInFlight, requestVars
  <2>3. ASSUME NEW ok \in BOOLEAN, SaveAnswered(ok) PROVE OneCreateInFlight'
    BY <2>1, <2>3 DEF SaveAnswered, OneCreateInFlight
  <2>4. CASE UNCHANGED requestVars
    BY <2>4 DEF requestVars, OneCreateInFlight
  <2>5. CASE UNCHANGED roomFormVars
    BY <2>4, <2>5 DEF roomFormVars, outside
  <2> QED
    BY <2>2, <2>3, <2>4, <2>5 DEF RoomFormNext, outside, OpenForm, CloseForm,
       SettingsArrive, PickCurrency, TypeName, FillCustom, TypeNote, NextStep,
       BackToBasics, OpenCustom, CancelCustom, GoTo, AddCustomService, TypeSearch,
       DebounceFires, ServiceClick, ConfirmDup, CancelDup, RemoveService
<1> QED
  BY <1>1, <1>2, RoomFormTypeCorrect, PTL DEF RoomFormSpec

(***************************************************************************)
(* SubscriptionForm.                                                       *)
(***************************************************************************)
\* A zone is a number of hours, and the day of an instant a number.
LEMMA DaysOfInstants ==
  ASSUME NEW day \in Int, NEW zone \in Int
  PROVE  /\ StoredZone \in Int /\ GuessedZone \in Int
         /\ DayIn(NoonOf(day, StoredZone), zone) \in Int
<1>1. StoredZone \in Int /\ GuessedZone \in Int
  BY SubscriptionFormAssumption
<1>2. NoonOf(day, StoredZone) + zone \in Int
  BY <1>1 DEF NoonOf
<1> HIDE DEF NoonOf
<1> QED
  BY <1>1, <1>2 DEF DayIn

\* Noon of a day is in that day, in the zone it is the noon of.
LEMMA NoonIsThatDay ==
  ASSUME NEW day \in Int
  PROVE  DayIn(NoonOf(day, StoredZone), StoredZone) = day
<1>1. StoredZone \in Int
  BY DaysOfInstants
<1>2. NoonOf(day, StoredZone) + StoredZone = 24 * day + 12
  BY <1>1 DEF NoonOf
<1>3. (24 * day + 12) \div 24 = day
  OBVIOUS
<1> QED
  BY <1>2, <1>3 DEF DayIn

\* The sheet, the store and the requests keep their types.
THEOREM SubFormTypeCorrect ==
  SubFormSpec => []SubFormTypeOK
<1> USE SubscriptionFormAssumption
<1>1. SubFormInit => SubFormTypeOK
  <2> SUFFICES ASSUME SubFormInit PROVE SubFormTypeOK
    OBVIOUS
  <2>1. Today \in Int /\ 0 \in 0 .. MaxForms
    OBVIOUS
  <2>2. rows \in [Ids -> Int \cup {None}] /\ items \in [Ids -> Int \cup {None}]
    BY <2>1 DEF SubFormInit
  <2>3. created \in [Forms -> Nat]
    BY DEF SubFormInit
  <2>4. draft \in [edited : BOOLEAN, dated : BOOLEAN, day : Int]
    BY <2>1 DEF SubFormInit, BlankDraft
  <2> QED
    BY <2>1, <2>2, <2>3, <2>4 DEF SubFormInit, SubFormTypeOK
<1>2. SubFormTypeOK /\ [SubFormNext]_subFormVars => SubFormTypeOK'
  <2> SUFFICES ASSUME SubFormTypeOK, [SubFormNext]_subFormVars
               PROVE  SubFormTypeOK'
    OBVIOUS
  <2> USE DEF SubFormTypeOK, sheetVars, fetchVars
  <2> DEFINE Drafts1 == [edited : BOOLEAN, dated : BOOLEAN, day : Int]
             Rows1 == [Ids -> Int \cup {None}]
  <2>a. BlankDraft \in Drafts1
    BY DEF BlankDraft
  <2>b. ASSUME NEW row, row # None => row.day \in Int, NEW z \in BOOLEAN, ResetForm(row, z)
        PROVE  draft' \in Drafts1 /\ step' \in {"catalog", "form"}
    <3>1. CASE row = None
      BY <2>a, <2>b, <3>1 DEF ResetForm
    <3>2. CASE row # None
      <4> DEFINE n == DayIn(NoonOf(row.day, StoredZone),
                            IF z THEN StoredZone ELSE GuessedZone)
      <4>1. n \in Int
        BY <2>b, <3>2, DaysOfInstants
      <4> HIDE DEF n
      <4>2. draft' = [DraftOf(row) EXCEPT !.day = n] /\ step' = "form"
        BY <2>b, <3>2 DEF ResetForm, n
      <4>3. draft' = [edited |-> FALSE, dated |-> FALSE, day |-> n]
        BY <4>2 DEF DraftOf
      <4>4. [edited |-> FALSE, dated |-> FALSE, day |-> n] \in Drafts1
        BY <4>1
      <4> QED
        BY <4>2, <4>3, <4>4
    <3> QED
      BY <3>1, <3>2
  <2>c. initial # None => initial \in [id : Ids, day : Int]
    OBVIOUS
  <2>1. ASSUME NEW id \in Ids \cup {None}, OpenAddSub(id) PROVE SubFormTypeOK'
    <3>1. initial' \in [id : Ids, day : Int] \cup {None}
      BY <2>1 DEF OpenAddSub
    <3>2. initial' # None => initial'.day \in Int
      BY <3>1
    <3>3. ResetForm(initial', landed)
      BY <2>1 DEF OpenAddSub
    <3>4. draft' \in Drafts1 /\ step' \in {"catalog", "form"}
      <4> DEFINE i == initial'
      <4> HIDE DEF i
      <4>1. ResetForm(i, landed)
        BY <3>3 DEF i
      <4>2. i # None => i.day \in Int
        BY <3>2 DEF i
      <4> QED
        BY <2>b, <4>1, <4>2
    <3> QED
      BY <2>1, <3>1, <3>4 DEF OpenAddSub
  <2>2. CASE CloseAddSub
    BY <2>2 DEF CloseAddSub
  <2>3. CASE ProfileLands
    <3>1. draft' \in Drafts1 /\ step' \in {"catalog", "form"}
      BY <2>b, <2>c, <2>3 DEF ProfileLands
    <3> QED
      BY <2>3, <3>1 DEF ProfileLands
  <2>4. CASE PickFromCatalog
    BY <2>4 DEF PickFromCatalog, EditSheet
  <2>5. CASE BackToCatalog
    BY <2>5 DEF BackToCatalog, EditSheet
  <2>6. CASE EditField
    BY <2>6 DEF EditField, EditSheet
  <2>7. ASSUME NEW d \in Days, PickDay(d) PROVE SubFormTypeOK'
    BY <2>7 DEF PickDay, EditSheet
  <2>d. ASSUME NEW kind \in {"add", "update", "delete"}, NEW id \in Ids \cup {None}
        PROVE  /\ Request(kind, id) \in Requests
               /\ [Request(kind, id) EXCEPT !.form = 0, !.day = Today] \in Requests
    <3>1. Today \in Int /\ draft.day \in Int /\ form \in 0 .. MaxForms
          /\ 0 \in 0 .. MaxForms
      OBVIOUS
    <3> QED
      BY <3>1 DEF Request, Requests
  <2>8. CASE SaveNew
    BY <2>d, <2>8 DEF SaveNew, Send
  <2>9. CASE SaveNewIgnored
    BY <2>9 DEF SaveNewIgnored
  <2>10. CASE SaveEdit
    BY <2>c, <2>d, <2>10 DEF SaveEdit, Send
  <2>11. ASSUME NEW id \in Ids, DeleteSubscription(id) PROVE SubFormTypeOK'
    BY <2>d, <2>11 DEF DeleteSubscription, Send
  <2>e. ASSUME NEW r \in requests, NEW id \in Ids \cup {None}
        PROVE  Handled(r, id) \subseteq Requests
    BY DEF Handled, Requests
  <2>f. ASSUME NEW f \in Rows1, NEW id, NEW d \in Int \cup {None}
        PROVE  [f EXCEPT ![id] = d] \in Rows1
    OBVIOUS
  <2>12. ASSUME NEW r \in requests, NEW id \in Ids, HandleAdd(r, id) PROVE SubFormTypeOK'
    <3>1. r.day \in Int
      BY DEF Requests
    <3>2. rows' \in Rows1
      BY <2>f, <2>12, <3>1 DEF HandleAdd
    <3>3. created' \in [Forms -> Nat]
      <4>1. CASE r.form \in Forms
        <5>1. created[r.form] + 1 \in Nat
          BY <4>1
        <5> QED
          BY <2>12, <5>1 DEF HandleAdd
      <4>2. CASE r.form \notin Forms
        <5>1. created' = created
          BY <2>12, <4>2 DEF HandleAdd
        <5> QED
          BY <5>1
      <4> QED
        BY <4>1, <4>2
    <3> QED
      BY <2>e, <2>12, <3>2, <3>3 DEF HandleAdd
  <2>13. ASSUME NEW r \in requests, HandleChange(r) PROVE SubFormTypeOK'
    <3>1. r.day \in Int /\ r.id \in Ids \cup {None}
      BY DEF Requests
    <3>2. rows' \in Rows1
      BY <2>f, <2>13, <3>1 DEF HandleChange
    <3> QED
      BY <2>e, <2>13, <3>1, <3>2 DEF HandleChange
  <2>14. ASSUME NEW r \in requests, NEW ok \in BOOLEAN, Answered(r, ok) PROVE SubFormTypeOK'
    <3>1. r.day \in Int
      BY DEF Requests
    <3>2. items' \in Rows1
      BY <2>f, <2>14, <3>1 DEF Answered
    <3>3. addSubOpen' \in BOOLEAN /\ initial' \in [id : Ids, day : Int] \cup {None}
      BY <2>14 DEF Answered
    <3>4. addInFlight' \in BOOLEAN
      BY <2>14 DEF Answered
    <3>5. requests' \subseteq Requests
      BY <2>14 DEF Answered
    <3> QED
      BY <2>14, <3>2, <3>3, <3>4, <3>5 DEF Answered
  <2>15. CASE ListingRead
    BY <2>15 DEF ListingRead
  <2>16. ASSUME NEW ok \in BOOLEAN, ListingAnswered(ok) PROVE SubFormTypeOK'
    <3>1. items' \in Rows1 /\ listed' \in Rows1
      BY <2>16 DEF ListingAnswered
    <3> QED
      BY <2>16, <3>1 DEF ListingAnswered
  <2>17. CASE UNCHANGED subFormVars
    BY <2>17 DEF subFormVars
  <2> QED
    BY <2>1, <2>2, <2>3, <2>4, <2>5, <2>6, <2>7, <2>8, <2>9, <2>10, <2>11, <2>12,
       <2>13, <2>14, <2>15, <2>16, <2>17 DEF SubFormNext
<1> QED
  BY <1>1, <1>2, PTL DEF SubFormSpec

(***************************************************************************)
(* One row per opening of the sheet.  A POST that is out belongs to an     *)
(* opening that has created nothing yet unless it was handled; the opening *)
(* on screen has created something only if its POST is still out, because  *)
(* every answer to a save closes the sheet.                                *)
(***************************************************************************)
AddsOf == {r \in requests : r.kind = "add"}
OneAdd ==
    /\ \A r, q \in AddsOf : r = q
    /\ AddsOf # {} => addInFlight
    /\ \A r \in AddsOf : r.form \in Forms /\ r.form <= form
UncreatedBefore ==
    /\ \A r \in AddsOf : ~r.handled => created[r.form] = 0
    /\ \A f \in Forms : f > form => created[f] = 0
    /\ addSubOpen /\ form \in Forms /\ created[form] # 0
         => \E r \in AddsOf : r.form = form
RowInv == OneAdd /\ UncreatedBefore /\ OneRowPerForm

\* The sheet is numbered when it is open.
OpenIsNumbered == addSubOpen => form \in Forms

\* Every step of the subscription form keeps RowInv.
LEMMA RowInvInductive ==
  ASSUME SubFormTypeOK, RowInv, OpenIsNumbered, [SubFormNext]_subFormVars
  PROVE  RowInv' /\ OpenIsNumbered'
<1> USE SubscriptionFormAssumption DEF sheetVars, fetchVars
<1>a. /\ form \in 0 .. MaxForms /\ MaxForms \in Nat
      /\ created \in [Forms -> Nat] /\ requests \subseteq Requests
  BY DEF SubFormTypeOK
\* Steps that leave the POSTs and what was created alone.
<1>b. ASSUME AddsOf' = AddsOf, UNCHANGED created,
             addInFlight' = addInFlight, form' = form, addSubOpen' => addSubOpen
      PROVE  RowInv' /\ OpenIsNumbered'
  BY <1>b DEF RowInv, OneAdd, UncreatedBefore, OneRowPerForm, OpenIsNumbered
<1>1. ASSUME NEW id \in Ids \cup {None}, OpenAddSub(id) PROVE RowInv' /\ OpenIsNumbered'
  <2>1. /\ form' = form + 1 /\ form < MaxForms /\ addSubOpen'
        /\ UNCHANGED <<requests, created, addInFlight>>
    BY <1>1 DEF OpenAddSub
  <2>2. form' \in Forms /\ form' > form
    BY <1>a, <2>1 DEF Forms
  <2>3. AddsOf' = AddsOf
    BY <2>1 DEF AddsOf
  <2>4. OneAdd'
    BY <1>a, <2>1, <2>3 DEF OneAdd, RowInv, Forms
  <2>5. created[form'] = 0
    BY <2>2 DEF RowInv, UncreatedBefore
  <2>6. \A f \in Forms : f > form' => created[f] = 0
    BY <1>a, <2>1 DEF RowInv, UncreatedBefore, Forms
  <2>7. UncreatedBefore'
    BY <2>1, <2>3, <2>5, <2>6 DEF RowInv, UncreatedBefore
  <2>8. OneRowPerForm' /\ OpenIsNumbered'
    BY <2>1, <2>2 DEF RowInv, OneRowPerForm, OpenIsNumbered
  <2> QED
    BY <2>4, <2>7, <2>8 DEF RowInv
<1>2. CASE SaveNew
  <2> DEFINE r == Request("add", None)
  <2>1. /\ requests' = requests \cup {r} /\ addInFlight' /\ ~addInFlight /\ addSubOpen
        /\ UNCHANGED <<form, created, addSubOpen>>
    BY <1>2 DEF SaveNew, Send
  <2>2. r.kind = "add" /\ r.form = form /\ form \in Forms
    BY <2>1 DEF Request, OpenIsNumbered
  <2> HIDE DEF r
  <2>3. AddsOf = {} /\ AddsOf' = {r}
    BY <2>1, <2>2 DEF AddsOf, RowInv, OneAdd
  <2>4. created[form] = 0
    BY <2>1, <2>2, <2>3 DEF RowInv, UncreatedBefore
  <2>5. OneAdd'
    BY <1>a, <2>1, <2>2, <2>3 DEF OneAdd
  <2>6. UncreatedBefore'
    BY <2>1, <2>2, <2>3, <2>4 DEF RowInv, UncreatedBefore
  <2>7. OneRowPerForm' /\ OpenIsNumbered'
    BY <2>1 DEF RowInv, OneRowPerForm, OpenIsNumbered
  <2> QED
    BY <2>5, <2>6, <2>7 DEF RowInv
<1>c. ASSUME NEW k \in {"update", "delete"}, NEW id \in Ids \cup {None}
      PROVE  /\ Request(k, id).kind # "add"
             /\ [Request(k, id) EXCEPT !.form = 0, !.day = Today].kind # "add"
  BY DEF Request
<1>3. CASE SaveEdit
  <2> DEFINE r == Request("update", initial.id)
  <2>1. requests' = requests \cup {r}
    BY <1>3 DEF SaveEdit, Send
  <2>2. r.kind # "add"
    BY DEF Request
  <2> HIDE DEF r
  <2>3. AddsOf' = AddsOf
    BY <2>1, <2>2 DEF AddsOf
  <2> QED
    BY <1>b, <1>3, <2>3 DEF SaveEdit
<1>4. ASSUME NEW id \in Ids, DeleteSubscription(id) PROVE RowInv' /\ OpenIsNumbered'
  <2> DEFINE r == [Request("delete", id) EXCEPT !.form = 0, !.day = Today]
  <2>1. requests' = requests \cup {r}
    BY <1>4 DEF DeleteSubscription, Send
  <2>2. r.kind # "add"
    BY <1>c
  <2> HIDE DEF r
  <2>3. AddsOf' = AddsOf
    BY <2>1, <2>2 DEF AddsOf
  <2> QED
    BY <1>b, <1>4, <2>3 DEF DeleteSubscription
<1>5. ASSUME NEW r \in requests, NEW id \in Ids, HandleAdd(r, id)
      PROVE  RowInv' /\ OpenIsNumbered'
  <2> DEFINE q == [r EXCEPT !.handled = TRUE, !.id = id]
  <2>1. /\ r.kind = "add" /\ ~r.handled
        /\ requests' = (requests \ {r}) \cup {q}
        /\ created' = [created EXCEPT ![r.form] = @ + 1]
        /\ UNCHANGED <<form, addSubOpen, addInFlight>>
    BY <1>5 DEF HandleAdd, Handled
  <2>2. q.kind = "add" /\ q.form = r.form /\ q.handled
    BY <1>a, <2>1 DEF Requests
  <2> HIDE DEF q
  <2>3. AddsOf = {r} /\ AddsOf' = {q}
    BY <2>1, <2>2 DEF AddsOf, RowInv, OneAdd
  <2>4. r.form \in Forms /\ r.form <= form /\ addInFlight /\ created[r.form] = 0
    BY <2>1, <2>3 DEF RowInv, OneAdd, UncreatedBefore
  <2>5. created'[r.form] = 1 /\ \A f \in Forms : f # r.form => created'[f] = created[f]
    BY <1>a, <2>1, <2>4
  <2>6. OneAdd'
    BY <2>1, <2>2, <2>3, <2>4 DEF OneAdd
  <2>7. UncreatedBefore'
    <3>1. \A f \in Forms : f > form => created'[f] = 0
      BY <1>a, <2>4, <2>5 DEF RowInv, UncreatedBefore, Forms
    <3>2. form \in Forms /\ addSubOpen /\ created'[form] # 0 => r.form = form
      BY <2>3, <2>5 DEF RowInv, UncreatedBefore
    <3> QED
      BY <2>1, <2>2, <2>3, <3>1, <3>2 DEF UncreatedBefore
  <2>8. OneRowPerForm' /\ OpenIsNumbered'
    BY <2>1, <2>5 DEF RowInv, OneRowPerForm, OpenIsNumbered
  <2> QED
    BY <2>6, <2>7, <2>8 DEF RowInv
<1>6. ASSUME NEW r \in requests, HandleChange(r) PROVE RowInv' /\ OpenIsNumbered'
  <2> DEFINE q == [r EXCEPT !.handled = TRUE, !.id = r.id]
  <2>1. r.kind # "add" /\ requests' = (requests \ {r}) \cup {q}
    BY <1>6 DEF HandleChange, Handled
  <2>2. q.kind # "add"
    BY <1>a, <2>1 DEF Requests
  <2> HIDE DEF q
  <2>3. AddsOf' = AddsOf
    BY <2>1, <2>2 DEF AddsOf
  <2> QED
    BY <1>b, <1>6, <2>3 DEF HandleChange
<1>7. ASSUME NEW r \in requests, NEW ok \in BOOLEAN, Answered(r, ok)
      PROVE  RowInv' /\ OpenIsNumbered'
  <2>1. /\ requests' = requests \ {r} /\ UNCHANGED <<form, created>>
        /\ addInFlight' = (addInFlight /\ r.kind # "add")
    BY <1>7 DEF Answered
  <2>2. CASE r.kind = "delete"
    <3>1. AddsOf' = AddsOf
      BY <2>1, <2>2 DEF AddsOf
    <3>2. UNCHANGED addSubOpen /\ addInFlight' = addInFlight
      BY <1>7, <2>1, <2>2, Zenon DEF Answered, SubFormTypeOK
    <3> QED
      BY <1>b, <2>1, <3>1, <3>2
  <2>3. CASE r.kind # "delete"
    <3>1. ~addSubOpen'
      BY <1>7, <2>3 DEF Answered
    <3>2. AddsOf' = AddsOf \ {r}
      BY <2>1 DEF AddsOf
    <3>3. AddsOf' # {} => addInFlight'
      <4>1. r.kind = "add" => AddsOf' = {}
        BY <3>2 DEF AddsOf, RowInv, OneAdd
      <4> QED
        BY <2>1, <3>2, <4>1 DEF RowInv, OneAdd
    <3>4. OneAdd' /\ UncreatedBefore'
      BY <2>1, <3>1, <3>2, <3>3 DEF RowInv, OneAdd, UncreatedBefore
    <3> QED
      BY <2>1, <3>1, <3>4 DEF RowInv, OneRowPerForm, OpenIsNumbered
  <2> QED
    BY <2>2, <2>3
<1>8. CASE UNCHANGED <<requests, created, addInFlight, form>> /\ (addSubOpen' => addSubOpen)
  <2>1. AddsOf' = AddsOf
    BY <1>8 DEF AddsOf
  <2> QED
    BY <1>b, <1>8, <2>1
<1> DEFINE Quiet == UNCHANGED <<requests, created, addInFlight, form>>
                    /\ (addSubOpen' => addSubOpen)
<1>9. CloseAddSub => Quiet
  BY DEF CloseAddSub
<1>15. ProfileLands => Quiet
  BY DEF ProfileLands
<1>10. PickFromCatalog \/ BackToCatalog \/ EditField => Quiet
  BY DEF PickFromCatalog, BackToCatalog, EditField, EditSheet
<1>11. \A d \in Days : PickDay(d) => Quiet
  BY DEF PickDay, EditSheet
<1>12. SaveNewIgnored \/ ListingRead => Quiet
  BY DEF SaveNewIgnored, ListingRead
<1>13. \A ok \in BOOLEAN : ListingAnswered(ok) => Quiet
  BY DEF ListingAnswered
<1>14. UNCHANGED subFormVars => Quiet
  BY DEF subFormVars
<1> QED
  BY <1>1, <1>2, <1>3, <1>4, <1>5, <1>6, <1>7, <1>8, <1>9, <1>10,
     <1>11, <1>12, <1>13, <1>14, <1>15 DEF SubFormNext

\* subscriptionStore: addSubscription lets one POST out at a time, and its answer
\* closes the sheet.
THEOREM OneSubscriptionPerForm ==
  SubFormSpec => []OneRowPerForm
<1>1. SubFormInit => RowInv /\ OpenIsNumbered
  BY DEF SubFormInit, RowInv, OneAdd, UncreatedBefore, OneRowPerForm, AddsOf,
     OpenIsNumbered, Forms
<1>2. SubFormTypeOK /\ (RowInv /\ OpenIsNumbered) /\ [SubFormNext]_subFormVars
        => (RowInv /\ OpenIsNumbered)'
  BY RowInvInductive
<1>3. RowInv => OneRowPerForm
  BY DEF RowInv
<1> QED
  BY <1>1, <1>2, <1>3, SubFormTypeCorrect, PTL DEF SubFormSpec

(***************************************************************************)
(* The day an edit leaves alone.                                           *)
(***************************************************************************)
\* What the effect on [open, initial, userTimezone] fills in once the profile has
\* landed.
LEMMA ResetShowsTheDay ==
  ASSUME NEW row, row # None, row.day \in Int, ResetForm(row, TRUE)
  PROVE  draft'.day = row.day
<1> DEFINE n == DayIn(NoonOf(row.day, StoredZone), StoredZone)
<1>1. n = row.day
  BY NoonIsThatDay
<1> HIDE DEF n
<1>2. draft' = [DraftOf(row) EXCEPT !.day = n]
  BY DEF ResetForm, n
<1> QED
  BY <1>1, <1>2 DEF DraftOf

\* AddSubscriptionSheet: `userTimezone` is a dependency of the effect that fills
\* the fields, so a sheet opened before the profile landed is filled in again.
THEOREM EditKeepsTheDay ==
  SubFormSpec => []UntouchedDateKept
<1>1. SubFormInit => UntouchedDateKept
  BY DEF SubFormInit, UntouchedDateKept
<1>2. SubFormTypeOK /\ UntouchedDateKept /\ [SubFormNext]_subFormVars => UntouchedDateKept'
  <2> SUFFICES ASSUME SubFormTypeOK, UntouchedDateKept, [SubFormNext]_subFormVars
               PROVE  UntouchedDateKept'
    OBVIOUS
  <2> USE DEF sheetVars, fetchVars
  <2>a. items \in [Ids -> Int \cup {None}] /\ initial \in [id : Ids, day : Int] \cup {None}
        /\ landed \in BOOLEAN /\ draft \in [edited : BOOLEAN, dated : BOOLEAN, day : Int]
    BY DEF SubFormTypeOK
  <2>1. ASSUME NEW id \in Ids \cup {None}, OpenAddSub(id) PROVE UntouchedDateKept'
    <3>1. SUFFICES ASSUME landed', initial' # None PROVE draft'.day = initial'.day
      BY DEF UntouchedDateKept
    <3>2. landed = TRUE
      BY <2>1, <2>a, <3>1, Zenon DEF OpenAddSub
    <3>3. initial' = [id |-> id, day |-> items[id]] /\ id \in Ids /\ items[id] \in Int
      BY <2>1, <2>a, <3>1 DEF OpenAddSub
    <3>4. initial'.day \in Int
      BY <3>3
    <3>5. ResetForm(initial', TRUE)
      BY <2>1, <3>2 DEF OpenAddSub
    <3> DEFINE i == initial'
    <3> HIDE DEF i
    <3>6. i # None /\ i.day \in Int /\ ResetForm(i, TRUE)
      BY <3>1, <3>4, <3>5 DEF i
    <3>7. draft'.day = i.day
      BY <3>6, ResetShowsTheDay
    <3> QED
      BY <3>7 DEF i
  <2>2. CASE ProfileLands
    <3>1. SUFFICES ASSUME addSubOpen, initial # None PROVE draft'.day = initial.day
      BY <2>2 DEF ProfileLands, UntouchedDateKept
    <3>2. ResetForm(initial, TRUE) /\ initial.day \in Int
      BY <2>2, <2>a, <3>1 DEF ProfileLands
    <3> QED
      BY <3>1, <3>2, ResetShowsTheDay
  <2>3. ASSUME UNCHANGED <<initial, landed>>, draft'.day = draft.day,
               draft'.dated = draft.dated, addSubOpen' => addSubOpen
        PROVE  UntouchedDateKept'
    BY <2>3 DEF UntouchedDateKept
  <2>4. CASE PickFromCatalog \/ EditField
    BY <2>3, <2>4, <2>a DEF PickFromCatalog, EditField, EditSheet
  <2>5. CASE BackToCatalog
    BY <2>3, <2>5 DEF BackToCatalog, EditSheet
  <2>6. ASSUME NEW d \in Days, PickDay(d) PROVE UntouchedDateKept'
    <3>1. draft'.dated = TRUE
      BY <2>6, <2>a DEF PickDay
    <3> QED
      BY <3>1 DEF UntouchedDateKept
  <2>7. CASE CloseAddSub
    BY <2>7 DEF CloseAddSub, UntouchedDateKept
  <2>8. CASE SaveNew \/ SaveNewIgnored \/ SaveEdit
    BY <2>3, <2>8 DEF SaveNew, SaveNewIgnored, SaveEdit
  <2>9. ASSUME NEW id \in Ids, DeleteSubscription(id) PROVE UntouchedDateKept'
    BY <2>3, <2>9 DEF DeleteSubscription
  <2>10. ASSUME NEW r \in requests, NEW id \in Ids, HandleAdd(r, id) PROVE UntouchedDateKept'
    BY <2>3, <2>10 DEF HandleAdd
  <2>11. ASSUME NEW r \in requests, HandleChange(r) PROVE UntouchedDateKept'
    BY <2>3, <2>11 DEF HandleChange
  <2>12. ASSUME NEW r \in requests, NEW ok \in BOOLEAN, Answered(r, ok)
         PROVE  UntouchedDateKept'
    <3>1. (UNCHANGED <<addSubOpen, initial>>) \/ ~addSubOpen'
      BY <2>12 DEF Answered
    <3> QED
      BY <2>12, <3>1 DEF Answered, UntouchedDateKept
  <2>13. CASE ListingRead
    BY <2>3, <2>13 DEF ListingRead
  <2>14. ASSUME NEW ok \in BOOLEAN, ListingAnswered(ok) PROVE UntouchedDateKept'
    BY <2>3, <2>14 DEF ListingAnswered
  <2>15. CASE UNCHANGED subFormVars
    BY <2>3, <2>15 DEF subFormVars
  <2> QED
    BY <2>1, <2>2, <2>4, <2>5, <2>6, <2>7, <2>8, <2>9, <2>10, <2>11, <2>12, <2>13,
       <2>14, <2>15 DEF SubFormNext
<1> QED
  BY <1>1, <1>2, SubFormTypeCorrect, PTL DEF SubFormSpec

(***************************************************************************)
(* RoomPicker.                                                             *)
(***************************************************************************)
\* The sheet, its picker and the requests keep their types.
THEOREM PickerTypeCorrect ==
  PickerSpec => []PickerTypeOK
<1> USE PickerAssumption
<1>1. PickerInit => PickerTypeOK
  <2> SUFFICES ASSUME PickerInit PROVE PickerTypeOK
    OBVIOUS
  <2>1. room \in Seq(Service) /\ shown \in Seq(Service)
    BY DEF PickerInit
  <2> QED
    <3>1. sent \in 0 .. MaxAdds /\ adds \subseteq Adds /\ unsure \subseteq Brands \cup {"default"}
      BY DEF PickerInit
    <3> QED
      BY <2>1, <3>1 DEF PickerInit, PickerTypeOK, Queries
<1>2. PickerTypeOK /\ [PickerNext]_pickerVars => PickerTypeOK'
  <2> SUFFICES ASSUME PickerTypeOK, [PickerNext]_pickerVars
               PROVE  PickerTypeOK'
    OBVIOUS
  <2> USE DEF PickerTypeOK, view, pickerForm
  <2>a. <<>> \in Seq(Service)
    OBVIOUS
  <2>b. ASSUME NEW brand \in Brands \cup {"default"}, NEW noted \in BOOLEAN,
               Post(brand, noted)
        PROVE  /\ adds' \subseteq Adds /\ sent' \in 0 .. MaxAdds
               /\ unsure' \subseteq Brands \cup {"default"}
               /\ UNCHANGED <<room, view>>
    <3>1. sent + 1 \in 1 .. MaxAdds
      BY <2>b DEF Post
    <3> DEFINE a == [n |-> sent + 1, brand |-> brand, noted |-> noted, handled |-> FALSE]
    <3>2. a \in Adds
      BY <3>1 DEF Adds
    <3>5. adds' = adds \cup {a} /\ sent' = sent + 1 /\ UNCHANGED <<room, view>>
      BY <2>b DEF Post
    <3> HIDE DEF a
    <3>3. adds' \subseteq Adds /\ sent' \in 0 .. MaxAdds /\ UNCHANGED <<room, view>>
      BY <3>1, <3>2, <3>5
    <3>4. unsure' = unsure \/ unsure' = unsure \cup {brand}
      BY <2>b DEF Post
    <3> QED
      BY <3>3, <3>4
  <2>1. CASE OpenSheet
    BY <2>1 DEF OpenSheet
  <2>2. CASE TogglePicking
    BY <2>2 DEF TogglePicking, Only, Queries
  <2>3. CASE SearchSettles
    BY <2>3 DEF SearchSettles, Only
  <2>4. CASE AddCustom
    <3>1. PICK noted \in BOOLEAN : Post("default", noted)
      BY <2>4 DEF AddCustom
    <3> QED
      BY <2>b, <2>4, <3>1 DEF AddCustom
  <2>5. ASSUME NEW yes \in BOOLEAN, CloseSheet(yes) PROVE PickerTypeOK'
    BY <2>a, <2>5 DEF CloseSheet
  <2>6. ASSUME NEW yes \in BOOLEAN, DetailArrives(yes) PROVE PickerTypeOK'
    BY <2>a, <2>6 DEF DetailArrives, Show
  <2>7. ASSUME NEW yes \in BOOLEAN, ToggleCustom(yes) PROVE PickerTypeOK'
    BY <2>7 DEF ToggleCustom, Only
  <2>8. ASSUME NEW yes \in BOOLEAN, TypeCustom(yes) PROVE PickerTypeOK'
    BY <2>8 DEF TypeCustom, Only
  <2>9. ASSUME NEW yes \in BOOLEAN, TypeDupNote(yes) PROVE PickerTypeOK'
    BY <2>9 DEF TypeDupNote, Only
  <2>10. ASSUME NEW yes \in BOOLEAN, AnswerDup(yes) PROVE PickerTypeOK'
    <3>1. CASE yes /\ showing
      <4>1. Post(dup, TRUE) /\ dup \in Brands
        BY <2>10, <3>1 DEF AnswerDup
      <4> QED
        BY <2>b, <2>10, <4>1 DEF AnswerDup
    <3>2. CASE ~(yes /\ showing)
      BY <2>10, <3>2 DEF AnswerDup
    <3> QED
      BY <3>1, <3>2
  <2>11. ASSUME NEW q \in Queries, TypeServiceSearch(q) PROVE PickerTypeOK'
    BY <2>11 DEF TypeServiceSearch, Only
  <2>12. ASSUME NEW b \in Brands, TapService(b) PROVE PickerTypeOK'
    <3>1. CASE HasBrand(b)
      BY <2>12, <3>1 DEF TapService, Only
    <3>2. CASE ~HasBrand(b)
      <4>1. Post(b, FALSE) /\ UNCHANGED pickerForm
        BY <2>12, <3>2 DEF TapService
      <4> QED
        BY <2>b, <4>1
    <3> QED
      BY <3>1, <3>2
  <2>13. ASSUME NEW r \in adds, HandleAddService(r) PROVE PickerTypeOK'
    <3>1. r \in Adds
      OBVIOUS
    <3>2. [brand |-> r.brand, noted |-> r.noted] \in Service
          /\ [r EXCEPT !.handled = TRUE] \in Adds
      BY <3>1 DEF Service, Adds
    <3>3. room' \in Seq(Service)
      BY <2>13, <3>2 DEF HandleAddService
    <3>4. adds' \subseteq Adds
      BY <2>13, <3>2 DEF HandleAddService
    <3> QED
      BY <2>13, <3>3, <3>4 DEF HandleAddService
  <2>14. ASSUME NEW r \in adds, AddFails(r) PROVE PickerTypeOK'
    <3>1. r.brand \in Brands \cup {"default"}
      BY DEF Adds
    <3> QED
      BY <2>14, <3>1 DEF AddFails
  <2>15. ASSUME NEW r \in adds, NEW ok \in BOOLEAN, AddSettled(r, ok) PROVE PickerTypeOK'
    <3>1. shown' \in Seq(Service) /\ showing' \in BOOLEAN /\ loading' \in BOOLEAN
      BY <2>a, <2>15 DEF AddSettled, Show
    <3>2. customMode' \in BOOLEAN /\ custom' \in BOOLEAN
          /\ dup' \in Brands \cup {"none"} /\ note' \in BOOLEAN
      BY <2>15 DEF AddSettled
    <3> QED
      BY <2>15, <3>1, <3>2 DEF AddSettled
  <2>16. ASSUME NEW i \in 1 .. Len(shown), RemoveShown(i) PROVE PickerTypeOK'
    <3>1. room' \in Seq(Service)
      BY <2>16, OneRemoved DEF RemoveShown
    <3> QED
      BY <2>16, <3>1 DEF RemoveShown
  <2>17. CASE UNCHANGED pickerVars
    BY <2>17 DEF pickerVars
  <2> QED
    BY <2>1, <2>2, <2>3, <2>4, <2>5, <2>6, <2>7, <2>8, <2>9, <2>10, <2>11, <2>12,
       <2>13, <2>14, <2>15, <2>16, <2>17 DEF PickerNext
<1> QED
  BY <1>1, <1>2, PTL DEF PickerSpec

(***************************************************************************)
(* Two services of one brand are told apart by a note.  For a brand that   *)
(* is not unsure at most one POST is out; a bare one is out only while the *)
(* room has none; and a sheet that shows the room shows the brand, unless  *)
(* its POST was handled and is not answered yet.                           *)
(***************************************************************************)
IsBare(list, b, i) == list[i].brand = b /\ ~list[i].noted
OneBare(list, b) ==
    \A i, j \in 1 .. Len(list) : IsBare(list, b, i) /\ IsBare(list, b, j) => i = j
NoBare(list, b) == \A i \in 1 .. Len(list) : ~IsBare(list, b, i)

TellsApart(b) ==
    /\ \A r, q \in adds : r.brand = b /\ q.brand = b => r = q
    /\ \A r \in adds : r.brand = b /\ ~r.noted /\ ~r.handled => NoBare(room, b)
    /\ showing /\ ~HasBrand(b) /\ (\A r \in adds : r.brand = b => ~r.handled)
         => NoBare(room, b)
    /\ OneBare(room, b)
PickerInv == \A b \in Brands \ unsure : TellsApart(b)

\* With any two bare entries of a brand equal, its count of bare entries is at most one.
LEMMA OneBareCounts ==
  ASSUME NEW b, OneBare(room, b), Len(room) \in Nat
  PROVE  Bare(b) <= 1
<1> DEFINE S == {i \in 1 .. Len(room) : room[i].brand = b /\ ~room[i].noted}
<1>1. \A i, j \in S : i = j
  BY DEF OneBare, IsBare
<1>2. CASE S = {}
  <2>1. Cardinality(S) = 0
    BY <1>2, FS_EmptySet
  <2> QED
    BY <2>1 DEF Bare
<1>3. CASE S # {}
  <2>1. PICK x \in S : S = {x}
    BY <1>1, <1>3
  <2>2. Cardinality(S) = 1
    BY <2>1, FS_Singleton
  <2> QED
    BY <2>2 DEF Bare
<1> QED
  BY <1>2, <1>3

\* One service more at the end of the room.
LEMMA BareAppended ==
  ASSUME NEW s \in Seq(Service), NEW e \in Service, NEW b
  PROVE  LET t == Append(s, e)
         IN  /\ e.brand # b \/ e.noted =>
                  /\ OneBare(s, b) => OneBare(t, b)
                  /\ NoBare(s, b) => NoBare(t, b)
             /\ NoBare(s, b) => OneBare(t, b)
<1> DEFINE t == Append(s, e)
<1>1. /\ Len(t) = Len(s) + 1 /\ Len(s) \in Nat /\ t[Len(s) + 1] = e
      /\ \A i \in 1 .. Len(s) : t[i] = s[i]
  OBVIOUS
<1> HIDE DEF t
<1>2. \A i \in 1 .. Len(t) : i = Len(s) + 1 \/ i \in 1 .. Len(s)
  BY <1>1
<1>3. \A i \in 1 .. Len(t) : e.brand # b \/ e.noted => (IsBare(t, b, i) => i \in 1 .. Len(s))
  BY <1>1, <1>2 DEF IsBare
<1>4. \A i \in 1 .. Len(s) : IsBare(t, b, i) <=> IsBare(s, b, i)
  BY <1>1 DEF IsBare
<1>5. NoBare(s, b) => OneBare(t, b)
  BY <1>2, <1>4 DEF NoBare, OneBare
<1>6. ASSUME e.brand # b \/ e.noted
      PROVE  (OneBare(s, b) => OneBare(t, b)) /\ (NoBare(s, b) => NoBare(t, b))
  BY <1>3, <1>4, <1>6 DEF NoBare, OneBare
<1> QED
  BY <1>5, <1>6 DEF t

\* One service less.
LEMMA BareRemoved ==
  ASSUME NEW s \in Seq(Service), NEW i \in 1 .. Len(s), NEW b
  PROVE  LET t == [j \in 1 .. Len(s) - 1 |-> IF j < i THEN s[j] ELSE s[j + 1]]
         IN  /\ OneBare(s, b) => OneBare(t, b)
             /\ NoBare(s, b) => NoBare(t, b)
<1> DEFINE n == Len(s) - 1
           t == [j \in 1 .. n |-> IF j < i THEN s[j] ELSE s[j + 1]]
           at(j) == IF j < i THEN j ELSE j + 1
<1>1. n \in Nat /\ Len(s) \in Nat /\ Len(s) = n + 1
  OBVIOUS
<1>2. \A j \in 1 .. n : at(j) \in 1 .. Len(s) /\ t[j] = s[at(j)]
  BY <1>1
<1>3. \A j, k \in 1 .. n : at(j) = at(k) => j = k
  BY <1>1
<1>4. Len(t) = n
  BY <1>1
<1> HIDE DEF n, t, at
<1>5. \A j \in 1 .. n : IsBare(t, b, j) <=> IsBare(s, b, at(j))
  BY <1>2 DEF IsBare
<1>6. (OneBare(s, b) => OneBare(t, b)) /\ (NoBare(s, b) => NoBare(t, b))
  BY <1>2, <1>3, <1>4, <1>5 DEF OneBare, NoBare
<1> QED
  BY <1>6 DEF n, t

\* Every step of the service picker keeps PickerInv.
LEMMA PickerInvInductive ==
  ASSUME PickerTypeOK, PickerInv, [PickerNext]_pickerVars
  PROVE  PickerInv'
<1> USE DEF view, pickerForm
<1>a. room \in Seq(Service) /\ shown \in Seq(Service) /\ adds \subseteq Adds
  BY DEF PickerTypeOK
\* Steps that send and handle nothing: what is shown stays or is the room.
<1>b. ASSUME UNCHANGED <<room, adds>>, unsure \subseteq unsure',
             showing' => (showing /\ shown' = shown) \/ shown' = room
      PROVE  PickerInv'
  <2> SUFFICES ASSUME NEW b \in Brands \ unsure, TellsApart(b) PROVE TellsApart(b)'
    BY <1>b DEF PickerInv
  <2>1. showing' /\ ~HasBrand(b)' /\ (\A r \in adds : r.brand = b => ~r.handled)
          => NoBare(room, b)
    BY <1>b DEF TellsApart, HasBrand, NoBare, IsBare
  <2> QED
    BY <1>b, <2>1 DEF TellsApart
\* A POST for a brand the shown room lacks, or with a note, or a custom one.
<1>c. ASSUME NEW brand, NEW noted \in BOOLEAN, Post(brand, noted),
             noted \/ brand \notin Brands \/ (showing /\ ~HasBrand(brand))
      PROVE  PickerInv'
  <2> DEFINE a == [n |-> sent + 1, brand |-> brand, noted |-> noted, handled |-> FALSE]
  <2>1. adds' = adds \cup {a} /\ UNCHANGED <<room, showing, shown>>
    BY <1>c DEF Post
  <2>2. a.brand = brand /\ a.noted = noted /\ ~a.handled
    OBVIOUS
  <2> HIDE DEF a
  <2>3. unsure \subseteq unsure' /\ ((\E r \in adds : r.brand = brand) => brand \in unsure')
    BY <1>c DEF Post
  <2> SUFFICES ASSUME NEW b \in Brands \ unsure', TellsApart(b) PROVE TellsApart(b)'
    BY <2>3 DEF PickerInv
  <2>4. b = brand => \A r \in adds : r.brand # b
    BY <2>3
  <2>5. \A r, q \in adds' : r.brand = b /\ q.brand = b => r = q
    BY <2>1, <2>2, <2>4 DEF TellsApart
  <2>6. b = brand /\ ~noted => NoBare(room, b)
    BY <1>c, <2>4 DEF TellsApart
  <2>7. \A r \in adds' : r.brand = b /\ ~r.noted /\ ~r.handled => NoBare(room, b)
    BY <2>1, <2>2, <2>6 DEF TellsApart
  <2>8. showing /\ ~HasBrand(b) /\ (\A r \in adds' : r.brand = b => ~r.handled)
          => NoBare(room, b)
    BY <2>1 DEF TellsApart
  <2>9. HasBrand(b)' = HasBrand(b)
    BY <2>1 DEF HasBrand
  <2> QED
    BY <2>1, <2>5, <2>7, <2>8, <2>9 DEF TellsApart
<1>1. CASE OpenSheet \/ TogglePicking \/ SearchSettles
  BY <1>b, <1>1 DEF OpenSheet, TogglePicking, SearchSettles, Only
<1>2. CASE AddCustom
  BY <1>c, <1>2, CatalogueAssumption DEF AddCustom
<1>3. ASSUME NEW yes \in BOOLEAN, CloseSheet(yes) \/ DetailArrives(yes) PROVE PickerInv'
  BY <1>b, <1>3 DEF CloseSheet, DetailArrives, Show
<1>4. ASSUME NEW yes \in BOOLEAN, ToggleCustom(yes) \/ TypeCustom(yes) \/ TypeDupNote(yes)
      PROVE  PickerInv'
  BY <1>b, <1>4 DEF ToggleCustom, TypeCustom, TypeDupNote, Only
<1>5. ASSUME NEW yes \in BOOLEAN, AnswerDup(yes) PROVE PickerInv'
  <2>1. CASE yes /\ showing
    <3>1. Post(dup, TRUE)
      BY <1>5, <2>1 DEF AnswerDup
    <3> QED
      BY <1>c, <3>1
  <2>2. CASE ~(yes /\ showing)
    BY <1>b, <1>5, <2>2 DEF AnswerDup
  <2> QED
    BY <2>1, <2>2
<1>6. ASSUME NEW q \in Queries, TypeServiceSearch(q) PROVE PickerInv'
  BY <1>b, <1>6 DEF TypeServiceSearch, Only
<1>7. ASSUME NEW b \in Brands, TapService(b) PROVE PickerInv'
  <2>1. CASE HasBrand(b)
    BY <1>b, <1>7, <2>1 DEF TapService, Only
  <2>2. CASE ~HasBrand(b)
    <3>1. Post(b, FALSE) /\ showing
      BY <1>7, <2>2 DEF TapService, Listing, Picking, Touchable
    <3> QED
      BY <1>c, <2>2, <3>1
  <2> QED
    BY <2>1, <2>2
<1>8. ASSUME NEW r \in adds, HandleAddService(r) PROVE PickerInv'
  <2> DEFINE h == [r EXCEPT !.handled = TRUE]
             e == [brand |-> r.brand, noted |-> r.noted]
  <2>1. /\ ~r.handled /\ room' = Append(room, e) /\ adds' = (adds \ {r}) \cup {h}
        /\ UNCHANGED <<showing, shown, unsure>>
    BY <1>8 DEF HandleAddService
  <2>2. /\ h.brand = r.brand /\ h.noted = r.noted /\ h.handled
        /\ e.brand = r.brand /\ e.noted = r.noted /\ e \in Service
    BY <1>a DEF Adds, Service
  <2> HIDE DEF h, e
  <2> SUFFICES ASSUME NEW b \in Brands \ unsure, TellsApart(b) PROVE TellsApart(b)'
    BY <2>1 DEF PickerInv
  <2>3. \A q, p \in adds' : q.brand = b /\ p.brand = b => q = p
    BY <2>1, <2>2 DEF TellsApart
  <2>4. HasBrand(b)' = HasBrand(b)
    BY <2>1 DEF HasBrand
  <2>5. CASE r.brand = b /\ ~r.noted
    <3>1. OneBare(room', b)
      BY <1>a, <2>1, <2>2, <2>5, BareAppended DEF TellsApart
    <3>2. \A q \in adds' : q.brand = b => q.handled
      BY <2>1, <2>2, <2>5 DEF TellsApart
    <3>3. h \in adds' /\ h.brand = b /\ h.handled
      BY <2>1, <2>2, <2>5
    <3> QED
      BY <2>3, <2>4, <3>1, <3>2, <3>3 DEF TellsApart
  <2>6. CASE ~(r.brand = b /\ ~r.noted)
    <3>1. (OneBare(room, b) => OneBare(room', b)) /\ (NoBare(room, b) => NoBare(room', b))
      <4>1. e.brand # b \/ e.noted
        BY <2>2, <2>6
      <4>2. /\ OneBare(room, b) => OneBare(Append(room, e), b)
            /\ NoBare(room, b) => NoBare(Append(room, e), b)
        BY <1>a, <2>2, <4>1, BareAppended
      <4> QED
        BY <2>1, <4>2
    <3>2. \A q \in adds' : q.brand = b /\ ~q.noted /\ ~q.handled => NoBare(room', b)
      BY <2>1, <2>2, <3>1 DEF TellsApart
    <3>3. (\A q \in adds' : q.brand = b => ~q.handled)
            => \A q \in adds : q.brand = b => ~q.handled
      BY <2>1
    <3> QED
      BY <2>1, <2>3, <2>4, <3>1, <3>2, <3>3 DEF TellsApart
  <2> QED
    BY <2>5, <2>6
<1>9. ASSUME NEW r \in adds, AddFails(r) PROVE PickerInv'
  <2>1. /\ adds' = adds \ {r} /\ UNCHANGED <<room, showing, shown>>
        /\ unsure \subseteq unsure' /\ (r.handled => r.brand \in unsure')
    BY <1>9 DEF AddFails
  <2> SUFFICES ASSUME NEW b \in Brands \ unsure', TellsApart(b) PROVE TellsApart(b)'
    BY <2>1 DEF PickerInv
  <2>2. HasBrand(b)' = HasBrand(b)
    BY <2>1 DEF HasBrand
  <2>3. (\A q \in adds' : q.brand = b => ~q.handled) => \A q \in adds : q.brand = b => ~q.handled
    BY <2>1
  <2> QED
    BY <2>1, <2>2, <2>3 DEF TellsApart
<1>10. ASSUME NEW r \in adds, NEW ok \in BOOLEAN, AddSettled(r, ok) PROVE PickerInv'
  <2>1. /\ adds' = adds \ {r} /\ UNCHANGED <<room, unsure>>
        /\ showing' = ok /\ shown' = IF ok THEN room ELSE <<>>
    BY <1>10 DEF AddSettled, Show
  <2> SUFFICES ASSUME NEW b \in Brands \ unsure, TellsApart(b) PROVE TellsApart(b)'
    BY <2>1 DEF PickerInv
  <2>2. showing' /\ ~HasBrand(b)' => NoBare(room, b)
    BY <2>1 DEF HasBrand, NoBare, IsBare
  <2> QED
    BY <2>1, <2>2 DEF TellsApart
<1>11. ASSUME NEW i \in 1 .. Len(shown), RemoveShown(i) PROVE PickerInv'
  <2>1. room = shown /\ shown' = room' /\ adds = {} /\ UNCHANGED <<adds, unsure>>
    BY <1>11 DEF RemoveShown
  <2>2. room' = [j \in 1 .. Len(room) - 1 |-> IF j < i THEN room[j] ELSE room[j + 1]]
    BY <1>11 DEF RemoveShown
  <2> SUFFICES ASSUME NEW b \in Brands \ unsure, TellsApart(b) PROVE TellsApart(b)'
    BY <2>1 DEF PickerInv
  <2>3. OneBare(room', b)
    BY <1>a, <2>1, <2>2, BareRemoved DEF TellsApart
  <2>4. ~HasBrand(b)' => NoBare(room', b)
    BY <2>1 DEF HasBrand, NoBare, IsBare
  <2> QED
    BY <2>1, <2>3, <2>4 DEF TellsApart
<1>12. CASE UNCHANGED pickerVars
  BY <1>b, <1>12 DEF pickerVars
<1> QED
  BY <1>1, <1>2, <1>3, <1>4, <1>5, <1>6, <1>7, <1>8, <1>9, <1>10, <1>11, <1>12
     DEF PickerNext

\* handleServiceClick: the shown services are asked before a bare POST leaves, so
\* the room has two bare services of a brand only when the user tapped again before
\* the answer, or the answer was lost.
THEOREM PickerTellsApart ==
  PickerSpec => []NoteTellsApart
<1>1. PickerInit => PickerInv
  BY DEF PickerInit, PickerInv, TellsApart, NoBare, OneBare
<1>2. PickerTypeOK /\ PickerInv /\ [PickerNext]_pickerVars => PickerInv'
  BY PickerInvInductive
<1>3. PickerTypeOK /\ PickerInv => NoteTellsApart
  <2> SUFFICES ASSUME PickerTypeOK, PickerInv, NEW b \in Brands \ unsure PROVE Bare(b) <= 1
    BY DEF NoteTellsApart
  <2>1. Len(room) \in Nat /\ OneBare(room, b)
    BY DEF PickerTypeOK, PickerInv, TellsApart
  <2> QED
    BY <2>1, OneBareCounts
<1> QED
  BY <1>1, <1>2, <1>3, PickerTypeCorrect, PTL DEF PickerSpec
=============================================================================
