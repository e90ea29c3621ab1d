---------------------------- MODULE DashboardList ----------------------------
(***************************************************************************)
(* What the client shows of the user's subscriptions: the dashboard's list *)
(* behind search and FilterSheet, the calendar, the analytics, and the     *)
(* rooms page with the sort order it keeps in localStorage.  Days and      *)
(* months are numbers, a name its place in the alphabet; name, tag and     *)
(* note together are the set of queries they meet.                         *)
(***************************************************************************)
EXTENDS Integers, Sequences, FiniteSets
LOCAL INSTANCE FiniteSetsExt

CONSTANTS Pool,          \* subscriptions the user may have
          ViewQueries, Categories,
          MonthLength, Now,
          LiveRates, StaticRates, Display,   \* rates, the user's currency
          RoomPool, MaxShown                 \* bound: subscriptions

ASSUME ListAssumption ==
    /\ MonthLength \in Nat \ {0} /\ Now \in Nat /\ MaxShown \in Nat
    /\ \A s \in Pool : /\ s.words \subseteq ViewQueries
                       /\ s.name \in Nat /\ s.due \in Nat /\ s.amount \in Nat
                       /\ s.currency \in DOMAIN StaticRates
    /\ IsFiniteSet(RoomPool)
    /\ \A r \in RoomPool : /\ r.words \subseteq ViewQueries
                           /\ r.name \in Nat /\ r.members \in Nat /\ r.cost \in Nat

VARIABLES shownItems,                           \* the store's items
          query, debounced,
          sortBy, filterTypes, filterCategories,
          filterSheet, draft,
          view,                                 \* the tab, or the rooms page
          cursor, selectedDate,
          preset, dateRange,
          rates,                                \* fxStore: live ones or none
          roomQuery, roomSort, storedSort

filterVars == <<sortBy, filterTypes, filterCategories>>
searchVars == <<query, debounced>>
sheetVars == <<filterSheet, draft>>
calendarVars == <<cursor, selectedDate>>
rangeVars == <<preset, dateRange>>
roomsPageVars == <<roomQuery, roomSort, storedSort>>
listVars == <<shownItems, filterVars, searchVars, sheetVars, view, calendarVars,
              rangeVars, rates, roomsPageVars>>

SORT_OPTIONS == {"nextPayment", "priceDesc", "priceAsc", "alphabetical"}
DEFAULT_SORT == "nextPayment"
TYPE_OPTIONS == {"subscription", "room"}
RoomSorts == {"name", "members", "cost"}
NoDay == -1
MonthOf(day) == day \div MonthLength
ThisMonth == MonthOf(Now)
Presets == {"7d", "30d", "this_month", "3m", "all"}

range(p) ==
    CASE p = "7d" -> [from |-> Now - 7, to |-> Now]
      [] p = "30d" -> [from |-> Now - 30, to |-> Now]
      [] p = "this_month" -> [from |-> ThisMonth * MonthLength,
                              to |-> (ThisMonth + 1) * MonthLength - 1]
      [] p = "3m" -> [from |-> Now - 3 * MonthLength, to |-> Now]
      [] p = "all" -> [from |-> 0, to |-> Now + 60 * MonthLength]

DefaultFilters == [sort |-> DEFAULT_SORT, types |-> {}, categories |-> {}]

ListInit ==
    /\ shownItems = <<>> /\ query = "" /\ debounced = ""
    /\ sortBy = DEFAULT_SORT /\ filterTypes = {} /\ filterCategories = {}
    /\ filterSheet = FALSE /\ draft = DefaultFilters
    /\ view = "dashboard" /\ cursor = ThisMonth /\ selectedDate = NoDay
    /\ preset = "all" /\ dateRange = range("all")
    /\ rates = "none"
    /\ roomQuery = "" /\ roomSort = "name" /\ storedSort \in RoomSorts

-----------------------------------------------------------------------------
(* The pipelines, as the components compute them.                          *)
Kept(seq, S) == {i \in DOMAIN seq : seq[i] \in S}
Preceding(seq, S, key, i) ==
    {j \in Kept(seq, S) : \/ key[seq[j]] < key[seq[i]]
                          \/ key[seq[j]] = key[seq[i]] /\ j < i}
Sorted(seq, S, key) ==   \* Array.filter, then Array.sort, which is stable
    [k \in 1 .. Cardinality(Kept(seq, S)) |->
        seq[CHOOSE i \in Kept(seq, S) :
               Cardinality(Preceding(seq, S, key, i)) = k - 1]]
Filtered(seq, S) == Sorted(seq, S, [s \in S |-> 0])

hasActiveFilters ==
    sortBy # DEFAULT_SORT \/ filterTypes # {} \/ filterCategories # {}
showSubscriptions == filterTypes = {} \/ "subscription" \in filterTypes
showRooms == filterTypes = {} \/ "room" \in filterTypes

sortKey == [s \in Pool |-> CASE sortBy = "priceDesc" -> -s.amount
                              [] sortBy = "priceAsc" -> s.amount
                              [] sortBy = "alphabetical" -> s.name
                              [] OTHER -> s.due]
dueKey == [s \in Pool |-> s.due]
roomKey == [r \in RoomPool |-> CASE roomSort = "name" -> r.name
                                 [] roomSort = "members" -> -r.members
                                 [] OTHER -> -r.cost]

filteredSubscriptions ==
    IF ~showSubscriptions THEN <<>>
    ELSE Sorted(shownItems,
                {s \in Pool : /\ debounced = "" \/ debounced \in s.words
                              /\ filterCategories = {} \/ s.tag \in filterCategories},
                sortKey)

filteredRooms(rooms) ==
    Sorted(rooms, {r \in RoomPool : roomQuery = "" \/ roomQuery \in r.words}, roomKey)

billsByDay(d) == Filtered(shownItems, {s \in Pool : MonthOf(s.due) = cursor /\ s.due = d})
calendarList ==
    IF selectedDate # NoDay
    THEN Filtered(shownItems, {s \in Pool : s.due = selectedDate})
    ELSE Sorted(shownItems, {s \in Pool : MonthOf(s.due) = cursor}, dueKey)

(* Rates are units per dollar; what the live table lacks the static has.   *)
Rate(c) == IF rates = "live" /\ c \in DOMAIN LiveRates
           THEN LiveRates[c] ELSE StaticRates[c]
convertCurrency(amount, c, to) ==
    IF c = to THEN amount ELSE IF Rate(c) = 0 THEN 0
    ELSE (amount * Rate(to)) \div Rate(c)
periodToMonthly(s) == CASE s.period = "yearly" -> s.amount \div 12
                        [] s.period = "weekly" -> (s.amount * 4345) \div 1000
                        [] OTHER -> s.amount
Monthly(s) == convertCurrency(periodToMonthly(s), s.currency, Display)
Total(seq) == MapThenSumSet(LAMBDA i : Monthly(seq[i]), DOMAIN seq)

totalMonthly == Total(Filtered(shownItems, {s \in Pool : ~s.trial}))
InRange == {s \in Pool : s.due \in dateRange.from .. dateRange.to}
analysed == Filtered(shownItems, InRange)
upcoming == LET sorted == Sorted(shownItems, InRange, dueKey)
            IN [k \in DOMAIN sorted \cap 1 .. 4 |-> sorted[k]]   \* slice(0, 4)

-----------------------------------------------------------------------------
(* The store's rows change under any of the views.                         *)
ItemAdded(s) ==
    /\ Len(shownItems) < MaxShown /\ \A i \in DOMAIN shownItems : shownItems[i] # s
    /\ shownItems' = Append(shownItems, s)
    /\ UNCHANGED <<filterVars, searchVars, sheetVars, view, calendarVars,
                   rangeVars, rates, roomsPageVars>>

ItemRemoved(i) ==
    /\ i \in DOMAIN shownItems
    /\ shownItems' = [j \in 1 .. Len(shownItems) - 1 |->
                        shownItems[IF j < i THEN j ELSE j + 1]]
    /\ UNCHANGED <<filterVars, searchVars, sheetVars, view, calendarVars,
                   rangeVars, rates, roomsPageVars>>

(* fetchRates: an empty or failed answer keeps what there was.             *)
fetchRates ==
    /\ rates' = "live"
    /\ UNCHANGED <<shownItems, filterVars, searchVars, sheetVars, view,
                   calendarVars, rangeVars, roomsPageVars>>

(* The filter bar is part of a list that is not empty.                     *)
OnBar == view = "dashboard" /\ shownItems # <<>> /\ ~filterSheet

setFilter(q) ==
    /\ OnBar
    /\ query' = q
    /\ UNCHANGED <<shownItems, filterVars, debounced, sheetVars, view,
                   calendarVars, rangeVars, rates, roomsPageVars>>

SearchSettles ==
    /\ view # "rooms"
    /\ debounced' = query
    /\ UNCHANGED <<shownItems, filterVars, query, sheetVars, view, calendarVars,
                   rangeVars, rates, roomsPageVars>>

-----------------------------------------------------------------------------
(* FilterSheet works on a draft that its effect fills from the store; that *)
(* of a closed sheet is of no account.                                     *)
openFilter ==
    /\ OnBar
    /\ filterSheet' = TRUE
    /\ draft' = [sort |-> sortBy, types |-> filterTypes,
                 categories |-> filterCategories]
    /\ UNCHANGED <<shownItems, filterVars, searchVars, view, calendarVars,
                   rangeVars, rates, roomsPageVars>>

closeFilter ==
    /\ filterSheet
    /\ filterSheet' = FALSE /\ draft' = DefaultFilters
    /\ UNCHANGED <<shownItems, filterVars, searchVars, view, calendarVars,
                   rangeVars, rates, roomsPageVars>>

Toggled(S, x) == IF x \in S THEN S \ {x} ELSE S \cup {x}
Drafted(d) ==
    /\ filterSheet
    /\ draft' = d
    /\ UNCHANGED <<shownItems, filterVars, searchVars, filterSheet, view,
                   calendarVars, rangeVars, rates, roomsPageVars>>
pickSort(s) == Drafted([draft EXCEPT !.sort = s])
toggleType(t) == Drafted([draft EXCEPT !.types = Toggled(@, t)])
toggleCategory(c) == Drafted([draft EXCEPT !.categories = Toggled(@, c)])

(* Reset also writes the store at once.                                    *)
handleReset ==
    /\ filterSheet
    /\ draft' = DefaultFilters
    /\ sortBy' = DEFAULT_SORT /\ filterTypes' = {} /\ filterCategories' = {}
    /\ UNCHANGED <<shownItems, searchVars, filterSheet, view, calendarVars,
                   rangeVars, rates, roomsPageVars>>

handleApply ==
    /\ filterSheet
    /\ sortBy' = draft.sort /\ filterTypes' = draft.types
    /\ filterCategories' = draft.categories
    /\ filterSheet' = FALSE /\ draft' = DefaultFilters
    /\ UNCHANGED <<shownItems, searchVars, view, calendarVars, rangeVars,
                   rates, roomsPageVars>>

-----------------------------------------------------------------------------
(* A view that is shown again starts over, but for the store's filters and *)
(* the stored sort order; the dashboard remounts when the rooms are left.  *)
showView(v) ==
    /\ ~filterSheet /\ v # view
    /\ view' = v
    /\ cursor' = ThisMonth /\ selectedDate' = NoDay
    /\ preset' = "all" /\ dateRange' = range("all")
    /\ roomQuery' = "" /\ roomSort' = storedSort
    /\ debounced' = IF view = "rooms" THEN query ELSE debounced
    /\ UNCHANGED <<shownItems, filterVars, query, sheetVars, rates, storedSort>>

shiftMonthKeepsDay(delta) ==   \* mutant: the chosen day stays chosen
    /\ view = "calendar" /\ cursor + delta \in ThisMonth - 1 .. ThisMonth + 1
    /\ cursor' = cursor + delta
    /\ UNCHANGED <<shownItems, filterVars, searchVars, sheetVars, view, rangeVars,
                   rates, roomsPageVars, selectedDate>>

shiftMonth(delta) ==   \* bound: a month around this one
    /\ view = "calendar" /\ cursor + delta \in ThisMonth - 1 .. ThisMonth + 1
    /\ cursor' = cursor + delta /\ selectedDate' = NoDay
    /\ UNCHANGED <<shownItems, filterVars, searchVars, sheetVars, view, rangeVars,
                   rates, roomsPageVars>>

selectDay(d) ==
    /\ view = "calendar" /\ MonthOf(d) = cursor
    /\ selectedDate' = IF selectedDate = d THEN NoDay ELSE d
    /\ UNCHANGED <<shownItems, filterVars, searchVars, sheetVars, view, cursor,
                   rangeVars, rates, roomsPageVars>>

handlePreset(p) ==
    /\ view = "analytics"
    /\ preset' = p /\ dateRange' = range(p)
    /\ UNCHANGED <<shownItems, filterVars, searchVars, sheetVars, view,
                   calendarVars, rates, roomsPageVars>>

(* Days to come cannot be picked.                                          *)
handleCustomRange(from, to) ==
    /\ view = "analytics" /\ from <= to /\ to <= Now
    /\ preset' = "custom" /\ dateRange' = [from |-> from, to |-> to]
    /\ UNCHANGED <<shownItems, filterVars, searchVars, sheetVars, view,
                   calendarVars, rates, roomsPageVars>>

searchRooms(q) ==
    /\ view = "rooms"
    /\ roomQuery' = q
    /\ UNCHANGED <<shownItems, filterVars, searchVars, sheetVars, view,
                   calendarVars, rangeVars, rates, roomSort, storedSort>>

setSort(s) ==
    /\ view = "rooms"
    /\ roomSort' = s /\ storedSort' = s
    /\ UNCHANGED <<shownItems, filterVars, searchVars, sheetVars, view,
                   calendarVars, rangeVars, rates, roomQuery>>

Dues == {s.due : s \in Pool}
ListNext ==
    \/ \E s \in Pool : ItemAdded(s)
    \/ \E i \in DOMAIN shownItems : ItemRemoved(i)
    \/ fetchRates
    \/ \E q \in ViewQueries \cup {""} : setFilter(q) \/ searchRooms(q)
    \/ SearchSettles
    \/ openFilter \/ closeFilter \/ handleReset \/ handleApply
    \/ \E s \in SORT_OPTIONS : pickSort(s)
    \/ \E t \in TYPE_OPTIONS : toggleType(t)
    \/ \E c \in Categories : toggleCategory(c)
    \/ \E v \in {"dashboard", "calendar", "analytics", "rooms"} : showView(v)
    \/ \E delta \in {-1, 1} : shiftMonth(delta)
    \/ \E d \in Dues \cup {Now} : selectDay(d)
    \/ \E p \in Presets : handlePreset(p)
    \/ \E from, to \in Dues \cup {Now} : handleCustomRange(from, to)
    \/ \E s \in RoomSorts : setSort(s)

ListSpec == ListInit /\ [][ListNext]_listVars

-----------------------------------------------------------------------------
ListTypeOK ==
    /\ shownItems \in Seq(Pool) /\ Len(shownItems) <= MaxShown
    /\ query \in ViewQueries \cup {""} /\ debounced \in ViewQueries \cup {""}
    /\ sortBy \in SORT_OPTIONS /\ filterTypes \subseteq TYPE_OPTIONS
    /\ filterCategories \subseteq Categories /\ filterSheet \in BOOLEAN
    /\ draft \in [sort : SORT_OPTIONS, types : SUBSET TYPE_OPTIONS,
                   categories : SUBSET Categories]
    /\ view \in {"dashboard", "calendar", "analytics", "rooms"}
    /\ cursor \in Int /\ selectedDate \in {NoDay, Now} \cup Dues
    /\ preset \in Presets \cup {"custom"} /\ dateRange \in [from : Int, to : Int]
    /\ rates \in {"none", "live"} /\ roomQuery \in ViewQueries \cup {""}
    /\ roomSort \in RoomSorts /\ storedSort \in RoomSorts

Elements(seq) == {seq[i] : i \in DOMAIN seq}

(* Each view against what it promises of the store's rows: the dashboard   *)
(* shows every row that meets the search and the filters once, in the      *)
(* order asked for; the calendar lists the month on display by day, and    *)
(* for a day what its cell shows; the analytics of "all time" ("today+5y   *)
(* so a far-future trial_ends_at still falls inside") add up to the        *)
(* header's total but for trials, and their next payments are the          *)
(* earliest; the rooms page shows all rooms once in the order stored.      *)
InOrder(seq, key) == \A i, j \in DOMAIN seq : i < j => key[seq[i]] <= key[seq[j]]
EachOnce(seq) == Len(seq) = Cardinality(Elements(seq))
DashboardTrue ==
    view = "dashboard" /\ debounced = query =>
        LET shown == filteredSubscriptions IN
        /\ ~hasActiveFilters /\ query = "" => Elements(shown) = Elements(shownItems)
        /\ showSubscriptions =>
              Elements(shown) =
                 {s \in Elements(shownItems) :
                    (query = "" \/ query \in s.words)
                    /\ (filterCategories = {} \/ s.tag \in filterCategories)}
        /\ EachOnce(shown) /\ InOrder(shown, sortKey)
CalendarTrue ==
    view = "calendar" =>
        /\ Elements(calendarList) =
              UNION {Elements(billsByDay(d)) :
                       d \in IF selectedDate = NoDay THEN Dues ELSE {selectedDate}}
        /\ \A s \in Elements(calendarList) : MonthOf(s.due) = cursor
        /\ EachOnce(calendarList) /\ InOrder(calendarList, dueKey)
AnalyticsTrue ==
    view = "analytics" =>
        /\ (/\ preset = "all"
            /\ \A s \in Elements(shownItems) :
                  ~s.trial /\ s.due <= Now + 60 * MonthLength)
              => Total(analysed) = totalMonthly
        /\ EachOnce(upcoming) /\ InOrder(upcoming, dueKey)
        /\ \A s \in Elements(analysed) \ Elements(upcoming) :
              /\ Len(upcoming) = 4
              /\ \A u \in Elements(upcoming) : u.due <= s.due
RoomLists == {all \in [1 .. Cardinality(RoomPool) -> RoomPool] :
                \A i, j \in DOMAIN all : all[i] = all[j] => i = j}
RoomsTrue ==
    view = "rooms" =>
        /\ roomSort = storedSort
        /\ \A all \in RoomLists :
              LET shown == filteredRooms(all) IN
              /\ roomQuery = "" => Elements(shown) = RoomPool
              /\ EachOnce(shown) /\ InOrder(shown, roomKey)
ViewsMatchItems == DashboardTrue /\ CalendarTrue /\ AnalyticsTrue /\ RoomsTrue
=============================================================================
