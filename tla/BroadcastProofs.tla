-------------------------- MODULE BroadcastProofs --------------------------
(***************************************************************************)
(* Theorems about Broadcast: types, the lock, what the users get, and why  *)
(* every run ends.                                                         *)
(***************************************************************************)
EXTENDS Broadcast, FiniteSetTheorems, TLAPS

(***************************************************************************)
(* Rows of runs.                                                           *)
(***************************************************************************)
LEMMA Numbers ==
  /\ LastUser \in Nat /\ MaxRuns \in Nat /\ MaxFaults \in Nat
  /\ ChanCap \in Nat \ {0} /\ BatchSize \in Nat \ {0} /\ MaxAttempts \in Nat \ {0}
  /\ Users \subseteq Nat /\ Runs \subseteq Nat
  BY BroadcastAssumption DEF Users, Runs

\* A started run has a row with these fields.
LEMMA RowFields ==
  ASSUME BroadcastTypeOK, NEW r \in Runs, run[r] # NULL
  PROVE  /\ run[r] \in RunRows
         /\ run[r].campaign \in Campaigns /\ run[r].locked \in BOOLEAN /\ run[r].restarts \in Nat
         /\ run[r].phase \in {"feeding", "closing", "releasing", "cooling", "over", "killed"}
         /\ run[r].stop \in {"none", "deadline", "shutdown", "error"}
         /\ KeyOf(run[r].campaign) \in Keys
<1>1. run[r] \in RunRows
  BY DEF BroadcastTypeOK
<1> QED
  BY <1>1 DEF RunRows, KeyOf, Keys, Campaigns

Phases == {"feeding", "closing", "releasing", "cooling", "over", "killed"}
Stops  == {"none", "deadline", "shutdown", "error"}

\* Rows are changed field by field.
Follows(new, row) ==
  /\ new \in RunRows /\ row \in RunRows
  /\ new.campaign = row.campaign /\ new.locked = row.locked
  /\ row.restarts \in Nat /\ new.restarts \in Nat /\ new.restarts >= row.restarts

\* What the handlers write into the row of a run follows from that row.
LEMMA RowUpdates ==
  ASSUME NEW row \in RunRows, NEW phase \in Phases, NEW stop \in Stops
  PROVE  /\ Follows([row EXCEPT !.phase = phase], row)
         /\ Follows([row EXCEPT !.stop = stop], row)
         /\ Follows([row EXCEPT !.phase = phase, !.stop = stop], row)
         /\ Follows([row EXCEPT !.phase = phase, !.stop = stop, !.restarts = row.restarts + 1], row)
<1> DEFINE T == [campaign : Campaigns, locked : BOOLEAN, restarts : Nat, phase : Phases, stop : Stops]
<1>1. T = RunRows
  BY DEF RunRows, Phases, Stops
<1>2. row \in T
  BY <1>1
<1>3. Follows([row EXCEPT !.phase = phase], row)
  <2> DEFINE new == [row EXCEPT !.phase = phase]
  <2>1. row.restarts \in Nat
    BY <1>2
  <2>2. new \in T
    BY <1>2, <2>1
  <2>3. new.campaign = row.campaign /\ new.locked = row.locked /\ new.restarts = row.restarts
    BY <1>2
  <2> HIDE DEF new, T
  <2> QED
    BY <1>1, <1>2, <2>1, <2>2, <2>3 DEF Follows, new
<1>4. Follows([row EXCEPT !.stop = stop], row)
  <2> DEFINE new == [row EXCEPT !.stop = stop]
  <2>1. row.restarts \in Nat
    BY <1>2
  <2>2. new \in T
    BY <1>2, <2>1
  <2>3. new.campaign = row.campaign /\ new.locked = row.locked /\ new.restarts = row.restarts
    BY <1>2
  <2> HIDE DEF new, T
  <2> QED
    BY <1>1, <1>2, <2>1, <2>2, <2>3 DEF Follows, new
<1>5. Follows([row EXCEPT !.phase = phase, !.stop = stop], row)
  <2> DEFINE new == [row EXCEPT !.phase = phase, !.stop = stop]
  <2>1. row.restarts \in Nat
    BY <1>2
  <2>2. new \in T
    BY <1>2, <2>1
  <2>3. new.campaign = row.campaign /\ new.locked = row.locked /\ new.restarts = row.restarts
    BY <1>2
  <2> HIDE DEF new, T
  <2> QED
    BY <1>1, <1>2, <2>1, <2>2, <2>3 DEF Follows, new
<1>6. Follows([row EXCEPT !.phase = phase, !.stop = stop, !.restarts = row.restarts + 1], row)
  <2> DEFINE new == [row EXCEPT !.phase = phase, !.stop = stop, !.restarts = row.restarts + 1]
  <2>1. row.restarts \in Nat
    BY <1>2
  <2> DEFINE k == row.restarts + 1
  <2>4. k \in Nat
    BY <2>1
  <2> HIDE DEF k
  <2>5. [row EXCEPT !.phase = phase, !.stop = stop, !.restarts = k] \in T
    BY <1>2, <2>4
  <2>2. new \in T
    BY <2>5 DEF k
  <2>3. new.campaign = row.campaign /\ new.locked = row.locked /\ new.restarts = row.restarts + 1
    BY <1>2
  <2> HIDE DEF new, T
  <2> QED
    BY <1>1, <1>2, <2>1, <2>2, <2>3 DEF Follows, new
<1> QED
  BY <1>3, <1>4, <1>5, <1>6

\* A step moves the rows of runs: a row stays, keeps its campaign and its lock mark,
\* and its restarts never go down.
Moved ==
  /\ run' \in [Runs -> RunRows \cup {NULL}]
  /\ \A q \in Runs : run[q] # NULL =>
       /\ run'[q] # NULL
       /\ run'[q].campaign = run[q].campaign
       /\ run'[q].locked = run[q].locked
       /\ run'[q].restarts >= run[q].restarts

\* The rows a single step writes.
LEMMA OneRowMoves ==
  ASSUME BroadcastTypeOK, NEW r \in Runs, NEW row \in RunRows,
         run' = [run EXCEPT ![r] = row],
         run[r] = NULL \/ Follows(row, run[r])
  PROVE  Moved
<1>1. run \in [Runs -> RunRows \cup {NULL}] /\ row # NULL
  BY BroadcastAssumption DEF BroadcastTypeOK
<1>2. \A q \in Runs : run[q] # NULL => run[q].restarts \in Nat
  BY RowFields
<1> QED
  BY <1>1, <1>2 DEF Moved, Follows

\* The steps that write the rows of runs.
LEMMA RunSteps ==
  ASSUME BroadcastTypeOK, [Next]_vars
  PROVE  \/ UNCHANGED run
         \/ \E r \in Runs : \/ \E c \in Campaigns : Start(r, c)
                            \/ \E why \in {"none", "deadline", "shutdown", "error"} : CloseChannel(r, why)
                            \/ Finish(r) \/ Release(r) \/ Panic(r) \/ Restart(r) \/ Deadline(r)
         \/ Shutdown \/ Crash
<1>1. CASE UNCHANGED vars
  BY <1>1 DEF vars
<1>2. ASSUME NEW r \in Runs, RunStep(r)
      PROVE  \/ UNCHANGED run
             \/ \E why \in {"none", "deadline", "shutdown", "error"} : CloseChannel(r, why)
             \/ Finish(r) \/ Release(r) \/ Restart(r)
  <2>1. EndOfUsers(r) \/ StopFeeding(r) =>
          \E why \in {"none", "deadline", "shutdown", "error"} : CloseChannel(r, why)
    BY RowFields DEF EndOfUsers, StopFeeding, CloseChannel, Live
  <2>2. FetchBatch(r) \/ Feed(r) \/ Take(r) => UNCHANGED run
    BY DEF FetchBatch, Feed, Take
  <2>3. (\E job \in sending[r], answer \in Answers : Send(r, job, answer)) => UNCHANGED run
    BY DEF Send
  <2> QED
    BY <1>2, <2>1, <2>2, <2>3 DEF RunStep
<1>3. ASSUME NEW r \in Runs, FetchFails(r)
      PROVE  CloseChannel(r, "error")
  BY <1>3 DEF FetchFails
<1>4. ASSUME NEW k \in Keys, LockExpires(k)
      PROVE  UNCHANGED run
  BY <1>4 DEF LockExpires
<1>5. ASSUME NEW u \in Users, SetEligible(u)
      PROVE  UNCHANGED run
  BY <1>5 DEF SetEligible
<1> QED
  BY <1>1, <1>2, <1>3, <1>4, <1>5 DEF Next

\* The steps that write locks.
LEMMA LockSteps ==
  ASSUME [Next]_vars, \A r \in Runs, c \in Campaigns : ~Start(r, c)
  PROVE  UNCHANGED lock \/ (\E k \in Keys : LockExpires(k)) \/ (\E r \in Runs : Release(r))
<1>1. ASSUME NEW r \in Runs, RunStep(r), ~Release(r) PROVE UNCHANGED lock
  <2>1. FetchBatch(r) \/ Feed(r) \/ Take(r) => UNCHANGED lock
    BY DEF FetchBatch, Feed, Take
  <2>2. EndOfUsers(r) \/ StopFeeding(r) \/ Finish(r) \/ Restart(r) => UNCHANGED lock
    BY DEF EndOfUsers, StopFeeding, CloseChannel, Finish, Restart
  <2>3. (\E job \in sending[r], answer \in Answers : Send(r, job, answer)) => UNCHANGED lock
    BY DEF Send
  <2> QED
    BY <1>1, <2>1, <2>2, <2>3 DEF RunStep
<1>2. ASSUME NEW r \in Runs, FetchFails(r) \/ Panic(r) \/ Deadline(r) PROVE UNCHANGED lock
  BY <1>2 DEF FetchFails, CloseChannel, Panic, Deadline
<1>3. Shutdown \/ Crash \/ UNCHANGED vars => UNCHANGED lock
  BY DEF Shutdown, Crash, vars
<1>4. (\E u \in Users : SetEligible(u)) => UNCHANGED lock
  BY DEF SetEligible
<1> QED
  BY <1>1, <1>2, <1>3, <1>4 DEF Next

\* No step moves a row of `run` backwards or gives it another campaign or lock mark.
LEMMA RowsMove ==
  ASSUME BroadcastTypeOK, [Next]_vars
  PROVE  Moved
<1>1. ASSUME UNCHANGED run PROVE Moved
  <2>1. run \in [Runs -> RunRows \cup {NULL}]
    BY DEF BroadcastTypeOK
  <2>2. \A q \in Runs : run[q] # NULL => run[q].restarts \in Nat
    BY RowFields
  <2> QED
    BY <1>1, <2>1, <2>2 DEF Moved
<1>2. ASSUME NEW r \in Runs, NEW c \in Campaigns, Start(r, c) PROVE Moved
  <2>1. PICK locked \in BOOLEAN :
          run' = [run EXCEPT ![r] = [campaign |-> c, locked |-> locked, phase |-> "feeding",
                                     stop |-> "none", restarts |-> 0]]
    BY <1>2 DEF Start
  <2> DEFINE row == [campaign |-> c, locked |-> locked, phase |-> "feeding",
                     stop |-> "none", restarts |-> 0]
  <2>2. row \in RunRows
    BY DEF RunRows
  <2>3. r \notin 1 .. r - 1
    BY Numbers
  <2>4. run[r] = NULL
    BY <1>2, <2>3 DEF Start, Started
  <2> HIDE DEF row
  <2>5. run' = [run EXCEPT ![r] = row]
    BY <2>1 DEF row
  <2> QED
    BY <2>2, <2>4, <2>5, OneRowMoves
<1>3. ASSUME NEW r \in Runs, NEW why \in {"none", "deadline", "shutdown", "error"},
             CloseChannel(r, why) PROVE Moved
  <2>1. run[r] # NULL /\ run' = [run EXCEPT ![r] = [run[r] EXCEPT !.phase = "closing", !.stop = why]]
    BY <1>3 DEF CloseChannel, Live
  <2> DEFINE row == [run[r] EXCEPT !.phase = "closing", !.stop = why]
  <2>2. Follows(row, run[r])
    <3>1. run[r] \in RunRows
      BY <2>1, RowFields
    <3>2. "none" \in Stops /\ "deadline" \in Stops /\ "feeding" \in Phases
      BY DEF Stops, Phases
    <3> QED
      BY <2>1, <3>1, <3>2, RowUpdates DEF Phases, Stops
  <2>3. row \in RunRows
    BY <2>2 DEF Follows
  <2> HIDE DEF row
  <2> QED
    BY <2>1, <2>2, <2>3, OneRowMoves DEF row
<1>4. ASSUME NEW r \in Runs, Finish(r) \/ Release(r) \/ Panic(r) PROVE Moved
  <2>1. PICK phase \in {"releasing", "over", "cooling"} :
          run[r] # NULL /\ run' = [run EXCEPT ![r] = [run[r] EXCEPT !.phase = phase]]
    BY <1>4 DEF Finish, Release, Panic, Live
  <2> DEFINE row == [run[r] EXCEPT !.phase = phase]
  <2>2. Follows(row, run[r])
    <3>1. run[r] \in RunRows
      BY <2>1, RowFields
    <3>2. "none" \in Stops /\ "deadline" \in Stops /\ "feeding" \in Phases
      BY DEF Stops, Phases
    <3> QED
      BY <2>1, <3>1, <3>2, RowUpdates DEF Phases, Stops
  <2>3. row \in RunRows
    BY <2>2 DEF Follows
  <2> HIDE DEF row
  <2> QED
    BY <2>1, <2>2, <2>3, OneRowMoves DEF row
<1>5. ASSUME NEW r \in Runs, Restart(r) PROVE Moved
  <2> DEFINE stop == IF run[r].stop = "shutdown" THEN "shutdown" ELSE "none"
             row  == [run[r] EXCEPT !.phase = "feeding", !.stop = stop, !.restarts = run[r].restarts + 1]
  <2>1. run[r] # NULL
    BY <1>5 DEF Restart, Live
  <2>2. run' = [run EXCEPT ![r] = row]
    BY <1>5 DEF Restart
  <2>3. run[r] \in RunRows /\ stop \in Stops /\ "feeding" \in Phases
    BY <2>1, RowFields DEF Stops, Phases
  <2> HIDE DEF stop
  <2>4. Follows(row, run[r])
    BY <2>3, RowUpdates
  <2> HIDE DEF row
  <2>5. row \in RunRows
    BY <2>4 DEF Follows
  <2> QED
    BY <2>2, <2>4, <2>5, OneRowMoves
<1>6. ASSUME NEW r \in Runs, Deadline(r) PROVE Moved
  <2>1. run[r] # NULL /\ run' = [run EXCEPT ![r] = [run[r] EXCEPT !.stop = "deadline"]]
    BY <1>6 DEF Deadline, Live
  <2> DEFINE row == [run[r] EXCEPT !.stop = "deadline"]
  <2>2. Follows(row, run[r])
    <3>1. run[r] \in RunRows
      BY <2>1, RowFields
    <3>2. "none" \in Stops /\ "deadline" \in Stops /\ "feeding" \in Phases
      BY DEF Stops, Phases
    <3> QED
      BY <2>1, <3>1, <3>2, RowUpdates DEF Phases, Stops
  <2>3. row \in RunRows
    BY <2>2 DEF Follows
  <2> HIDE DEF row
  <2> QED
    BY <2>1, <2>2, <2>3, OneRowMoves DEF row
<1>7. ASSUME Shutdown \/ Crash PROVE Moved
  <2>1. \/ run' = [q \in Runs |-> IF Live(q) THEN [run[q] EXCEPT !.stop = "shutdown"] ELSE run[q]]
        \/ run' = [q \in Runs |-> IF Live(q) THEN [run[q] EXCEPT !.phase = "killed"] ELSE run[q]]
    BY <1>7 DEF Shutdown, Crash
  <2>2. \A q \in Runs : run[q] \in RunRows \cup {NULL} /\ (Live(q) => run[q] # NULL)
    BY DEF BroadcastTypeOK, Live
  <2>3. ASSUME NEW row \in RunRows
        PROVE  /\ Follows([row EXCEPT !.stop = "shutdown"], row)
               /\ Follows([row EXCEPT !.phase = "killed"], row)
               /\ Follows(row, row)
               /\ row # NULL
    <3>1. "shutdown" \in Stops /\ "killed" \in Phases
      BY DEF Stops, Phases
    <3>2. row.restarts \in Nat
      BY DEF RunRows
    <3>3. Follows([row EXCEPT !.stop = "shutdown"], row) /\ Follows([row EXCEPT !.phase = "killed"], row)
      BY <3>1, RowUpdates
    <3>4. row # NULL
      BY BroadcastAssumption
    <3> QED
      BY <3>2, <3>3, <3>4 DEF Follows
  <2>4. ASSUME NEW q \in Runs, run[q] # NULL
        PROVE  Follows(run'[q], run[q])
    <3>1. run[q] \in RunRows
      BY <2>2, <2>4
    <3>2. run'[q] \in {run[q], [run[q] EXCEPT !.stop = "shutdown"], [run[q] EXCEPT !.phase = "killed"]}
      BY <2>1
    <3> QED
      BY <2>3, <3>1, <3>2
  <2>5. \A q \in Runs : run[q] = NULL => run'[q] = NULL
    BY <2>1, <2>2
  <2>6. run' \in [Runs -> RunRows \cup {NULL}]
    <3>1. \A q \in Runs : run'[q] \in RunRows \cup {NULL}
      BY <2>4, <2>5 DEF Follows
    <3>2. run' = [q \in Runs |-> run'[q]]
      BY <2>1
    <3> HIDE <2>1
    <3> QED
      BY <3>1, <3>2
  <2> QED
    BY <2>3, <2>4, <2>6 DEF Moved, Follows
<1>8. \/ UNCHANGED run
      \/ \E r \in Runs : \/ \E c \in Campaigns : Start(r, c)
                         \/ \E why \in {"none", "deadline", "shutdown", "error"} : CloseChannel(r, why)
                         \/ Finish(r) \/ Release(r) \/ Panic(r) \/ Restart(r) \/ Deadline(r)
      \/ Shutdown \/ Crash
  BY RunSteps
<1> QED
  BY <1>1, <1>2, <1>3, <1>4, <1>5, <1>6, <1>7, <1>8

(***************************************************************************)
(* Types.                                                                  *)
(***************************************************************************)
Feeds == [last : 0 .. LastUser, batch : SUBSET Users, more : BOOLEAN]
Jobs  == [user : Users, attempt : 1 .. MaxAttempts]

\* What is not a row of a run.
OthersTyped ==
  /\ eligible \subseteq Users
  /\ lock \in [Keys -> Runs \cup {NULL}]
  /\ feed \in [Runs -> Feeds]
  /\ queue \in [Runs -> Seq(Users)]
  /\ sending \in [Runs -> SUBSET Jobs]
  /\ count \in [Runs -> [sent : Nat, failed : Nat]]
  /\ faults \in 0 .. MaxFaults
  /\ fed \in [Runs -> SUBSET Users] /\ due \in [Runs -> SUBSET Users]
  /\ copies \in [Runs -> [Users -> Nat]]

\* The type invariant splits into the rows of the runs and everything else.
LEMMA TypeParts ==
  BroadcastTypeOK <=> OthersTyped /\ run \in [Runs -> RunRows \cup {NULL}]
  BY DEF BroadcastTypeOK, OthersTyped, Feeds, Jobs

\* The values a run starts with have their types.
LEMMA Blanks ==
  NoFeed \in Feeds /\ NoCount \in [sent : Nat, failed : Nat] /\ NoCopies \in [Users -> Nat]
  BY Numbers DEF NoFeed, NoCount, NoCopies, Feeds

\* A fault counts itself and stays within the bound.
LEMMA FaultCounts ==
  ASSUME faults \in 0 .. MaxFaults, Fault
  PROVE  faults' \in 0 .. MaxFaults
  BY Numbers DEF Fault

\* Forgetting the work of runs that ended keeps the types.
LEMMA ForgetTypes ==
  ASSUME OthersTyped, NEW ended, Forget(ended),
         eligible' \subseteq Users, lock' \in [Keys -> Runs \cup {NULL}], faults' \in 0 .. MaxFaults
  PROVE  OthersTyped'
<1>1. feed' \in [Runs -> Feeds] /\ count' \in [Runs -> [sent : Nat, failed : Nat]]
      /\ copies' \in [Runs -> [Users -> Nat]]
  BY Blanks DEF OthersTyped, Forget
<1>2. queue' \in [Runs -> Seq(Users)]
  BY DEF OthersTyped, Forget
<1>3. sending' \in [Runs -> SUBSET Jobs]
  BY DEF OthersTyped, Forget
<1>4. fed' \in [Runs -> SUBSET Users] /\ due' \in [Runs -> SUBSET Users]
  BY DEF OthersTyped, Forget
<1> QED
  BY <1>1, <1>2, <1>3, <1>4 DEF OthersTyped

\* Everything but the runs and the locks.
LEMMA JobsUnchanged ==
  ASSUME OthersTyped, UNCHANGED <<jobVars, fed, copies>>,
         eligible' \subseteq Users, lock' \in [Keys -> Runs \cup {NULL}], faults' \in 0 .. MaxFaults,
         due' \in [Runs -> SUBSET Users]
  PROVE  OthersTyped'
  BY DEF OthersTyped, jobVars

\* Counting one message sent or failed keeps the counters numbers.
LEMMA CountTypes ==
  ASSUME OthersTyped, NEW r \in Runs,
         count' = count \/ Counted(r, 1, 0) \/ Counted(r, 0, 1)
  PROVE  count' \in [Runs -> [sent : Nat, failed : Nat]]
<1>1. count \in [Runs -> [sent : Nat, failed : Nat]] /\ count[r].sent \in Nat /\ count[r].failed \in Nat
  BY DEF OthersTyped
<1>2. \/ count' = count
      \/ count' = [count EXCEPT ![r] = [sent |-> count[r].sent + 1, failed |-> count[r].failed + 0]]
      \/ count' = [count EXCEPT ![r] = [sent |-> count[r].sent + 0, failed |-> count[r].failed + 1]]
  BY DEF Counted
<1>3. /\ [sent |-> count[r].sent + 1, failed |-> count[r].failed + 0] \in [sent : Nat, failed : Nat]
      /\ [sent |-> count[r].sent + 0, failed |-> count[r].failed + 1] \in [sent : Nat, failed : Nat]
  BY <1>1
<1> QED
  BY <1>1, <1>2, <1>3

\* A step of a running broadcast (reader, senders, end of the run) keeps the types.
LEMMA StepTypes ==
  ASSUME BroadcastTypeOK, NEW r \in Runs, RunStep(r)
  PROVE  OthersTyped'
<1>0. OthersTyped
  BY TypeParts
<1>1. CASE FetchBatch(r)
  <2>1. feed' \in [Runs -> Feeds]
    <3>1. feed[r] \in Feeds /\ feed \in [Runs -> Feeds] /\ eligible \subseteq Users
      BY <1>0 DEF OthersTyped
    <3>2. \/ feed' = [feed EXCEPT ![r] = [feed[r] EXCEPT !.more = FALSE]]
          \/ \E batch \in SUBSET {u \in Matching(r) : u > feed[r].last},
                last \in {u \in Matching(r) : u > feed[r].last} :
               feed' = [feed EXCEPT ![r] =
                 [last |-> last, batch |-> batch, more |-> Cardinality(batch) = BatchSize]]
      BY <1>1 DEF FetchBatch
    <3>3. Matching(r) \subseteq Users
      BY <3>1 DEF Matching
    <3>4. CASE feed' = [feed EXCEPT ![r] = [feed[r] EXCEPT !.more = FALSE]]
      <4>1. [feed[r] EXCEPT !.more = FALSE] \in Feeds
        BY <3>1 DEF Feeds
      <4> QED
        BY <3>1, <3>4, <4>1
    <3>5. ASSUME NEW batch \in SUBSET {u \in Matching(r) : u > feed[r].last},
                 NEW last \in {u \in Matching(r) : u > feed[r].last},
                 feed' = [feed EXCEPT ![r] =
                   [last |-> last, batch |-> batch, more |-> Cardinality(batch) = BatchSize]]
          PROVE  feed' \in [Runs -> Feeds]
      <4>1. last \in 0 .. LastUser /\ batch \in SUBSET Users
        BY <3>3, Numbers DEF Users
      <4>2. [last |-> last, batch |-> batch, more |-> Cardinality(batch) = BatchSize] \in Feeds
        BY <4>1 DEF Feeds
      <4> QED
        BY <3>1, <3>5, <4>2
    <3> QED
      BY <3>2, <3>4, <3>5
  <2> QED
    BY <1>0, <1>1, <2>1 DEF OthersTyped, FetchBatch, history
<1>2. CASE Feed(r)
  <2>1. PICK u \in feed[r].batch :
          /\ feed' = [feed EXCEPT ![r] = [feed[r] EXCEPT !.batch = feed[r].batch \ {u}]]
          /\ queue' \in {queue, [queue EXCEPT ![r] = Append(queue[r], u)]}
          /\ fed' \in {fed, [fed EXCEPT ![r] = fed[r] \cup {u}]}
    BY <1>2 DEF Feed
  <2>2. feed[r] \in Feeds /\ feed[r].batch \subseteq Users /\ u \in Users
    BY <1>0 DEF OthersTyped, Feeds
  <2>3. feed' \in [Runs -> Feeds]
    <3>1. [feed[r] EXCEPT !.batch = feed[r].batch \ {u}] \in Feeds
      BY <2>2 DEF Feeds
    <3> QED
      BY <1>0, <2>1, <3>1 DEF OthersTyped
  <2>4. queue' \in [Runs -> Seq(Users)]
    <3>1. queue \in [Runs -> Seq(Users)] /\ Append(queue[r], u) \in Seq(Users)
      BY <1>0, <2>2 DEF OthersTyped
    <3> QED
      BY <2>1, <3>1
  <2>5. fed' \in [Runs -> SUBSET Users]
    <3>1. fed \in [Runs -> SUBSET Users] /\ fed[r] \cup {u} \in SUBSET Users
      BY <1>0, <2>2 DEF OthersTyped
    <3> QED
      BY <2>1, <3>1
  <2> QED
    BY <1>0, <1>2, <2>3, <2>4, <2>5 DEF OthersTyped, Feed
<1>3. CASE EndOfUsers(r) \/ StopFeeding(r) \/ Finish(r)
  BY <1>0, <1>3 DEF OthersTyped, EndOfUsers, StopFeeding, Finish, CloseChannel, jobVars, history
<1>4. CASE Take(r)
  <2>1. /\ queue[r] # <<>> /\ queue' = [queue EXCEPT ![r] = Tail(queue[r])]
        /\ count' = count \/ Counted(r, 0, 1)
        /\ sending' \in {sending, [sending EXCEPT ![r] =
                            sending[r] \cup {[user |-> Head(queue[r]), attempt |-> 1]}]}
    BY <1>4 DEF Take
  <2>2. queue[r] \in Seq(Users) /\ Head(queue[r]) \in Users /\ Tail(queue[r]) \in Seq(Users)
    BY <1>0, <2>1 DEF OthersTyped
  <2>3. queue' \in [Runs -> Seq(Users)]
    BY <1>0, <2>1, <2>2 DEF OthersTyped
  <2>4. [user |-> Head(queue[r]), attempt |-> 1] \in Jobs
    BY <2>2, Numbers DEF Jobs
  <2>5. sending' \in [Runs -> SUBSET Jobs]
    <3>1. sending \in [Runs -> SUBSET Jobs]
          /\ sending[r] \cup {[user |-> Head(queue[r]), attempt |-> 1]} \in SUBSET Jobs
      BY <1>0, <2>4 DEF OthersTyped
    <3> QED
      BY <2>1, <3>1
  <2>6. count' \in [Runs -> [sent : Nat, failed : Nat]]
    BY <1>0, <2>1, CountTypes
  <2> QED
    BY <1>0, <1>4, <2>3, <2>5, <2>6 DEF OthersTyped, Take, history
<1>5. ASSUME NEW job \in sending[r], NEW answer \in Answers, Send(r, job, answer) PROVE OthersTyped'
  <2>1. job \in Jobs /\ sending[r] \in SUBSET Jobs
    BY <1>0 DEF OthersTyped
  <2>2. sending' \in [Runs -> SUBSET Jobs]
    <3>1. CASE sending' = [sending EXCEPT ![r] = (sending[r] \ {job}) \cup {}]
      BY <1>0, <2>1, <3>1 DEF OthersTyped
    <3>2. CASE /\ job.attempt < MaxAttempts
               /\ sending' = [sending EXCEPT ![r] =
                    (sending[r] \ {job}) \cup {[job EXCEPT !.attempt = job.attempt + 1]}]
      <4>1. job.attempt \in 1 .. MaxAttempts
        BY <2>1 DEF Jobs
      <4> DEFINE n == job.attempt + 1
      <4>2. n \in 1 .. MaxAttempts
        BY <3>2, <4>1, Numbers
      <4> HIDE DEF n
      <4>3. [job EXCEPT !.attempt = n] \in Jobs
        BY <2>1, <4>2 DEF Jobs
      <4>4. [job EXCEPT !.attempt = job.attempt + 1] \in Jobs
        BY <4>3 DEF n
      <4> QED
        BY <1>0, <2>1, <3>2, <4>4 DEF OthersTyped
    <3> QED
      BY <1>5, <3>1, <3>2 DEF Send, Retries
  <2>3. count' \in [Runs -> [sent : Nat, failed : Nat]]
    <3>1. count' = count \/ Counted(r, 1, 0) \/ Counted(r, 0, 1)
      BY <1>5 DEF Send
    <3> QED
      BY <1>0, <3>1, CountTypes
  <2>4. copies' \in [Runs -> [Users -> Nat]]
    <3>1. copies[r] \in [Users -> Nat] /\ job.user \in Users
      BY <1>0, <2>1 DEF OthersTyped, Jobs
    <3> DEFINE f == [copies[r] EXCEPT ![job.user] = copies[r][job.user] + 1]
    <3>2. f \in [Users -> Nat]
      BY <3>1
    <3>3. copies' = copies \/ copies' = [copies EXCEPT ![r] = f]
      BY <1>5 DEF Send
    <3> HIDE DEF f
    <3> QED
      BY <1>0, <3>2, <3>3 DEF OthersTyped
  <2> QED
    BY <1>0, <1>5, <2>2, <2>3, <2>4 DEF OthersTyped, Send
<1>6. CASE Release(r)
  <2>1. lock' \in [Keys -> Runs \cup {NULL}]
    BY <1>0, <1>6 DEF OthersTyped, Release
  <2>2. faults' \in 0 .. MaxFaults
    BY <1>0, <1>6, FaultCounts DEF OthersTyped, Release
  <2>3. Forget({r}) /\ eligible' \subseteq Users
    BY <1>0, <1>6 DEF OthersTyped, Release
  <2> QED
    BY <1>0, <2>1, <2>2, <2>3, ForgetTypes
<1>7. CASE Restart(r)
  <2>1. eligible \subseteq Users /\ fed \in [Runs -> SUBSET Users] /\ due \in [Runs -> SUBSET Users]
    BY <1>0 DEF OthersTyped
  <2>2. fed' \in [Runs -> SUBSET Users] /\ due' \in [Runs -> SUBSET Users]
    BY <1>7, <2>1 DEF Restart
  <2> QED
    BY <1>0, <1>7, <2>2 DEF OthersTyped, Restart, jobVars
<1> QED
  BY <1>1, <1>2, <1>3, <1>4, <1>5, <1>6, <1>7 DEF RunStep

\* Every step keeps the type invariant.
LEMMA TypesPreserved ==
  ASSUME BroadcastTypeOK, [Next]_vars
  PROVE  BroadcastTypeOK'
<1>0. OthersTyped
  BY TypeParts
<1>a. /\ eligible \subseteq Users /\ lock \in [Keys -> Runs \cup {NULL}] /\ faults \in 0 .. MaxFaults
      /\ due \in [Runs -> SUBSET Users]
  BY <1>0 DEF OthersTyped
<1>1. ASSUME NEW r \in Runs, NEW c \in Campaigns, Start(r, c) PROVE OthersTyped'
  <2>1. KeyOf(c) \in Keys
    BY DEF KeyOf, Keys
  <2>2. lock' \in [Keys -> Runs \cup {NULL}] /\ faults' \in 0 .. MaxFaults
    BY <1>a, <1>1, <2>1, FaultCounts DEF Start, TakeLock, LockFails
  <2>3. due' \in [Runs -> SUBSET Users] /\ eligible' \subseteq Users
    BY <1>a, <1>1 DEF Start
  <2>4. UNCHANGED <<jobVars, fed, copies>>
    BY <1>1 DEF Start
  <2> QED
    BY <1>0, <2>2, <2>3, <2>4, JobsUnchanged
<1>2. ASSUME NEW r \in Runs, FetchFails(r) \/ Deadline(r) \/ Shutdown PROVE OthersTyped'
  <2>1. faults' \in 0 .. MaxFaults /\ UNCHANGED <<eligible, lock, due>> /\ UNCHANGED <<jobVars, fed, copies>>
    BY <1>a, <1>2, FaultCounts DEF FetchFails, Deadline, Shutdown, CloseChannel, history
  <2> QED
    BY <1>0, <1>a, <2>1, JobsUnchanged
<1>3. ASSUME NEW r \in Runs, Panic(r) PROVE OthersTyped'
  <2>1. faults' \in 0 .. MaxFaults
    BY <1>a, <1>3, FaultCounts DEF Panic
  <2>2. feed' \in [Runs -> Feeds] /\ count' \in [Runs -> [sent : Nat, failed : Nat]]
    BY <1>0, <1>3, Blanks DEF OthersTyped, Panic
  <2>3. queue' \in [Runs -> Seq(Users)]
    BY <1>0, <1>3 DEF OthersTyped, Panic
  <2>4. sending' \in [Runs -> SUBSET Jobs]
    BY <1>0, <1>3 DEF OthersTyped, Panic
  <2>5. copies' \in [Runs -> [Users -> Nat]]
    <3>1. PICK arrived : copies' =
            [copies EXCEPT ![r] = [u \in Users |-> copies[r][u] + IF u \in arrived THEN 1 ELSE 0]]
      BY <1>3 DEF Panic
    <3>2. copies[r] \in [Users -> Nat]
      BY <1>0 DEF OthersTyped
    <3>3. [u \in Users |-> copies[r][u] + IF u \in arrived THEN 1 ELSE 0] \in [Users -> Nat]
      BY <3>2
    <3> QED
      BY <1>0, <3>1, <3>3 DEF OthersTyped
  <2> QED
    BY <1>0, <1>3, <2>1, <2>2, <2>3, <2>4, <2>5 DEF OthersTyped, Panic
<1>4. ASSUME NEW k \in Keys, LockExpires(k) PROVE OthersTyped'
  <2>1. lock' \in [Keys -> Runs \cup {NULL}] /\ UNCHANGED <<eligible, faults, due>>
        /\ UNCHANGED <<jobVars, fed, copies>>
    BY <1>a, <1>4 DEF LockExpires, history
  <2> QED
    BY <1>0, <1>a, <2>1, JobsUnchanged
<1>5. ASSUME Crash PROVE OthersTyped'
  <2>1. faults' \in 0 .. MaxFaults /\ UNCHANGED <<eligible, lock>>
    BY <1>a, <1>5, FaultCounts DEF Crash
  <2>2. Forget({r \in Runs : Live(r)})
    BY <1>5 DEF Crash
  <2> DEFINE ended == {r \in Runs : Live(r)}
  <2> HIDE DEF ended
  <2>3. Forget(ended)
    BY <2>2 DEF ended
  <2>4. eligible' \subseteq Users /\ lock' \in [Keys -> Runs \cup {NULL}]
    BY <1>a, <2>1
  <2> QED
    BY <1>0, <2>1, <2>3, <2>4, ForgetTypes
<1>6. ASSUME NEW u \in Users, SetEligible(u) PROVE OthersTyped'
  <2>1. eligible' \subseteq Users /\ due' \in [Runs -> SUBSET Users]
    BY <1>a, <1>6 DEF SetEligible
  <2>2. UNCHANGED <<lock, faults>> /\ UNCHANGED <<jobVars, fed, copies>>
    BY <1>6 DEF SetEligible
  <2> QED
    BY <1>0, <1>a, <2>1, <2>2, JobsUnchanged
<1>7. ASSUME UNCHANGED vars PROVE OthersTyped'
  <2>1. UNCHANGED <<eligible, lock, faults, due>> /\ UNCHANGED <<jobVars, fed, copies>>
    BY <1>7 DEF vars, history
  <2> QED
    BY <1>0, <1>a, <2>1, JobsUnchanged
<1>8. OthersTyped'
  <2>1. \/ \E r \in Runs : RunStep(r)
        \/ \E r \in Runs, c \in Campaigns : Start(r, c)
        \/ \E r \in Runs : FetchFails(r) \/ Panic(r) \/ Deadline(r)
        \/ \E k \in Keys : LockExpires(k)
        \/ Shutdown \/ Crash
        \/ \E u \in Users : SetEligible(u)
        \/ UNCHANGED vars
    BY DEF Next
  <2>2. CASE Shutdown
    <3>1. PICK r \in Runs : Live(r)
      BY <2>2 DEF Shutdown
    <3> QED
      BY <2>2, <3>1, <1>2
  <2> QED
    BY <1>1, <1>2, <1>3, <1>4, <1>5, <1>6, <1>7, <2>1, <2>2, StepTypes
<1>9. run' \in [Runs -> RunRows \cup {NULL}]
  BY RowsMove DEF Moved
<1> QED
  BY <1>8, <1>9 DEF BroadcastTypeOK, OthersTyped, Feeds, Jobs

\* The variables have their types, in every instance.
THEOREM BroadcastTypeCorrect == Spec => []BroadcastTypeOK
<1>1. Init => BroadcastTypeOK
  <2> SUFFICES ASSUME Init PROVE BroadcastTypeOK
    OBVIOUS
  <2>1. OthersTyped
    BY Blanks, Numbers DEF Init, OthersTyped
  <2>2. run \in [Runs -> RunRows \cup {NULL}]
    BY DEF Init
  <2> QED
    BY <2>1, <2>2, TypeParts
<1> QED
  BY <1>1, TypesPreserved, PTL DEF Spec

(***************************************************************************)
(* The lock.                                                               *)
(***************************************************************************)
Disowned(k) == \E q \in Runs : Stray(q) /\ KeyOf(run[q].campaign) = k

\* A stray run stays one.
LEMMA StrayStays ==
  ASSUME BroadcastTypeOK, Moved
  PROVE  /\ \A q \in Runs : Stray(q) => Stray(q)'
         /\ \A k : Disowned(k) => Disowned(k)'
<1>1. ASSUME NEW q \in Runs, Stray(q)
      PROVE  Stray(q)' /\ run'[q].campaign = run[q].campaign
  <2>1. run[q] # NULL /\ run[q].restarts \in Nat
    BY <1>1, RowFields DEF Stray
  <2>2. /\ run'[q] # NULL /\ run'[q].campaign = run[q].campaign
        /\ run'[q].locked = run[q].locked /\ run'[q].restarts >= run[q].restarts
    BY <2>1 DEF Moved
  <2>3. run'[q] \in RunRows
    BY <2>2 DEF Moved
  <2>4. run'[q].restarts \in Nat
    BY <2>3 DEF RunRows
  <2> QED
    BY <1>1, <2>1, <2>2, <2>4 DEF Stray
<1> QED
  BY <1>1 DEF Disowned, KeyOf

\* A step that starts no run gives no run a lock mark it had not.
LEMMA MarksWane ==
  ASSUME BroadcastTypeOK, Moved, NEW q \in Runs, Locked(q)', Live(q)
  PROVE  Locked(q) /\ run'[q].campaign = run[q].campaign
<1>1. run[q] # NULL /\ run[q].restarts \in Nat
  BY RowFields DEF Live
<1>2. /\ run'[q].campaign = run[q].campaign
      /\ run'[q].locked = run[q].locked /\ run'[q].restarts >= run[q].restarts
  BY <1>1 DEF Moved
<1> QED
  BY <1>1, <1>2 DEF Locked

\* What it takes of a step: the key is not taken from a run that marks it as its own.
LEMMA KeepsLock ==
  ASSUME BroadcastTypeOK, RunKeepsItsLock, Moved,
         NEW q \in Runs, Locked(q)', Live(q),
         NEW k \in Keys, k = KeyOf(run[q].campaign),
         lock'[k] = lock[k] \/ lock[k] # q \/ Disowned(k)'
  PROVE  lock'[k] = q \/ Disowned(k)'
<1>1. Locked(q)
  BY MarksWane
<1>2. lock[k] = q \/ Disowned(k)
  BY <1>1 DEF RunKeepsItsLock, Disowned
<1>3. Disowned(k) => Disowned(k)'
  BY StrayStays
<1> QED
  BY <1>2, <1>3

\* The steps of a run are steps of a live one, and the dead do not come back.
LEMMA OnlyStartRevives ==
  ASSUME BroadcastTypeOK, [Next]_vars,
         \A r \in Runs, c \in Campaigns : ~Start(r, c)
  PROVE  \A q \in Runs : Live(q)' => Live(q)
<1>1. ASSUME UNCHANGED run PROVE \A q \in Runs : Live(q)' => Live(q)
  BY <1>1 DEF Live
<1>2. ASSUME NEW r \in Runs, Live(r), NEW row, run' = [run EXCEPT ![r] = row]
      PROVE  \A q \in Runs : Live(q)' => Live(q)
  BY <1>2 DEF Live, BroadcastTypeOK
<1>3. ASSUME NEW r \in Runs,
             \/ \E why \in Stops : CloseChannel(r, why)
             \/ Finish(r) \/ Release(r) \/ Panic(r) \/ Restart(r) \/ Deadline(r)
      PROVE  Live(r) /\ \E row : run' = [run EXCEPT ![r] = row]
  BY <1>3 DEF CloseChannel, Finish, Release, Panic, Restart, Deadline
<1>4. ASSUME Shutdown \/ Crash PROVE \A q \in Runs : Live(q)' => Live(q)
  <2>1. \A q \in Runs : ~Live(q) => run'[q] = run[q]
    BY <1>4 DEF Shutdown, Crash
  <2> QED
    BY <2>1 DEF Live
<1>5. \/ UNCHANGED run
      \/ \E r \in Runs : \/ \E why \in Stops : CloseChannel(r, why)
                         \/ Finish(r) \/ Release(r) \/ Panic(r) \/ Restart(r) \/ Deadline(r)
      \/ Shutdown \/ Crash
  BY RunSteps DEF Stops
<1> QED
  BY <1>1, <1>2, <1>3, <1>4, <1>5

\* Every step keeps a run's lock until the run releases it or its 24 hours are over.
LEMMA LockPreserved ==
  ASSUME BroadcastTypeOK, RunKeepsItsLock, [Next]_vars
  PROVE  RunKeepsItsLock'
<1>0. Moved
  BY RowsMove
<1>t. lock \in [Keys -> Runs \cup {NULL}] /\ NULL \notin Runs
  BY BroadcastAssumption DEF BroadcastTypeOK
<1>s. \A q \in Runs : Locked(q)' => KeyOf(run'[q].campaign) \in Keys
  <2>1. \A q \in Runs : Locked(q)' => run'[q] \in RunRows
    BY <1>0 DEF Moved, Locked, Live
  <2> QED
    BY <2>1 DEF RunRows, KeyOf, Keys, Campaigns
<1> SUFFICES ASSUME NEW q \in Runs, NEW k \in Keys, Locked(q)', k = KeyOf(run'[q].campaign)
             PROVE  lock'[k] = q \/ Disowned(k)'
  BY <1>s DEF RunKeepsItsLock, Disowned
<1>1. CASE \E r \in Runs, c \in Campaigns : Start(r, c)
  <2>1. PICK r \in Runs, c \in Campaigns, locked \in BOOLEAN :
          /\ Started = 1 .. r - 1
          /\ IF locked THEN TakeLock(r, KeyOf(c)) ELSE LockFails(r, KeyOf(c))
          /\ run' = [run EXCEPT ![r] = [campaign |-> c, locked |-> locked, phase |-> "feeding",
                                        stop |-> "none", restarts |-> 0]]
    BY <1>1 DEF Start
  <2>2. KeyOf(c) \in Keys
    BY DEF KeyOf, Keys
  <2>3. run \in [Runs -> RunRows \cup {NULL}]
    BY DEF BroadcastTypeOK
  <2>4. CASE q = r
    <3>1. run'[q].campaign = c /\ run'[q].locked = locked
      BY <2>1, <2>3, <2>4
    <3>2. locked
      BY <3>1 DEF Locked
    <3>3. lock' = [lock EXCEPT ![KeyOf(c)] = r]
      BY <2>1, <3>2 DEF TakeLock
    <3> QED
      BY <1>t, <2>2, <2>4, <3>1, <3>3
  <2>5. CASE q # r
    <3>1. run'[q] = run[q]
      BY <2>1, <2>3, <2>5
    <3>2. Live(q)
      BY <3>1 DEF Locked, Live
    <3>3. k = KeyOf(run[q].campaign)
      BY <3>1
    <3>4. lock'[k] = lock[k] \/ lock[k] = NULL
      BY <1>t, <2>1, <2>2 DEF TakeLock, LockFails
    <3> QED
      BY <1>0, <1>t, <3>2, <3>3, <3>4, KeepsLock
  <2> QED
    BY <2>4, <2>5
<1>2. CASE \A r \in Runs, c \in Campaigns : ~Start(r, c)
  <2>1. Live(q)
    BY <1>2, OnlyStartRevives DEF Locked
  <2>2. Locked(q) /\ run'[q].campaign = run[q].campaign
    BY <1>0, <2>1, MarksWane
  <2>k. k = KeyOf(run[q].campaign)
    BY <2>2
  <2>3. ASSUME NEW e \in Keys, LockExpires(e) PROVE lock'[k] = lock[k] \/ lock[k] # q
    <3>1. lock' = [lock EXCEPT ![e] = NULL] /\ ~Locked(lock[e])
      BY <2>3 DEF LockExpires, Locked
    <3> QED
      BY <1>t, <2>2, <2>k, <3>1
  <2>4. ASSUME NEW r \in Runs, Release(r), lock'[k] # lock[k], lock[k] = q PROVE Disowned(k)'
    <3>1. /\ Live(r) /\ Releases(r)
          /\ lock' = [lock EXCEPT ![KeyOf(run[r].campaign)] = NULL]
          /\ run' = [run EXCEPT ![r] = [run[r] EXCEPT !.phase = "over"]]
      BY <2>4 DEF Release
    <3>2. KeyOf(run[r].campaign) = k
      BY <1>t, <2>4, <3>1
    <3>3. r # q
      <4>1. run[q] \in RunRows
        BY <2>1, RowFields DEF Live
      <4>2. r = q => run'[q].phase = "over"
        BY <3>1, <4>1 DEF BroadcastTypeOK, RunRows
      <4> QED
        BY <4>2 DEF Locked, Live
    <3>4. Stray(r) \/ Locked(r)
      <4>1. run[r] # NULL /\ run[r].restarts \in Nat
        BY <3>1, RowFields DEF Live
      <4> QED
        BY <3>1, <4>1 DEF Stray, Locked, Releases
    <3>5. Disowned(k)
      <4>1. CASE Stray(r)
        BY <3>2, <4>1 DEF Disowned
      <4>2. CASE Locked(r)
        BY <2>4, <3>2, <3>3, <4>2 DEF RunKeepsItsLock, Disowned
      <4> QED
        BY <3>4, <4>1, <4>2
    <3> QED
      BY <1>0, <3>5, StrayStays
  <2>5. \/ UNCHANGED lock
        \/ \E e \in Keys : LockExpires(e)
        \/ \E r \in Runs : Release(r)
    BY <1>2, LockSteps
  <2>6. lock'[k] = lock[k] \/ lock[k] # q \/ Disowned(k)'
    BY <2>3, <2>4, <2>5
  <2> QED
    BY <1>0, <2>1, <2>k, <2>6, KeepsLock
<1> QED
  BY <1>1, <1>2

\* A run keeps the lock it took until it releases it: but for stray runs, no second run
\* of the key works beside it, however starts, crashes and expiries interleave.
THEOREM LockKept == Spec => []RunKeepsItsLock
<1>1. Init => RunKeepsItsLock
  BY DEF Init, RunKeepsItsLock, Locked, Live
<1> QED
  BY <1>1, LockPreserved, BroadcastTypeCorrect, PTL DEF Spec

(***************************************************************************)
(* What the users get.                                                     *)
(***************************************************************************)
Members(q)   == {q[i] : i \in 1 .. Len(q)}
NoRepeats(q) == \A i, j \in 1 .. Len(q) : q[i] = q[j] => i = j

\* Users still to be read or passed on; waiting in the channel; held by a sender; dealt
\* with; and those who got the message.
Ahead(r)   == {u \in Users : u > feed[r].last \/ u \in feed[r].batch}
InQueue(r) == Members(queue[r])
Holding(r) == {job.user : job \in sending[r]}
Done(r)    == {u \in fed[r] : u \notin InQueue(r) /\ u \notin Holding(r)}
Got(r)     == {u \in Users : copies[r][u] > 0}

Empty(r)   == feed[r] = NoFeed /\ Drained(r) /\ count[r] = NoCount
Unused(r)  == Empty(r) /\ fed[r] = {} /\ due[r] = {} /\ copies[r] = NoCopies
Cooling(r) == run[r].phase = "cooling"

\* Nobody is in the channel, held, or ahead of the reader twice over.
OncePerPass(r) ==
  /\ NoRepeats(queue[r])
  /\ \A j, k \in sending[r] : j.user = k.user => j = k
  /\ InQueue(r) \cap Holding(r) = {}
  /\ ~Cooling(r) => /\ InQueue(r) \cup Holding(r) \subseteq fed[r]
                    /\ fed[r] \cap Ahead(r) = {}

\* One message for each time the broadcast was run, and the one of this time only for
\* those it has dealt with.
Bound(r) ==
  /\ \A u \in Users : copies[r][u] <= 1 + run[r].restarts
  /\ ~Cooling(r) => \A u \in Users \ Done(r) : copies[r][u] <= run[r].restarts

\* The counters count those dealt with, and no success without a message.
Counts(r) ==
  ~Cooling(r) =>
    /\ IsFiniteSet(sending[r])
    /\ count[r].sent + count[r].failed + Len(queue[r]) + Cardinality(sending[r])
         = Cardinality(fed[r])
    /\ count[r].sent <= Cardinality(Done(r) \cap Got(r))

\* Who is due is passed on or ahead, and passed on when the reading has come to its end.
Reach(r) ==
  /\ due[r] \subseteq eligible \cap Audience[run[r].campaign]
  /\ run[r].phase = "feeding" =>
       /\ due[r] \subseteq fed[r] \cup Ahead(r)
       /\ ~feed[r].more => \A u \in due[r] : u <= feed[r].last
  /\ run[r].phase \in {"closing", "releasing"} /\ run[r].stop = "none" => due[r] \subseteq fed[r]

\* Between a panic and the restart, and after the last sender, nothing is held.
Rests(r) ==
  /\ Cooling(r) => Empty(r)
  /\ run[r].phase = "releasing" => Drained(r)

BatchIsRead(r) == \A u \in feed[r].batch : u <= feed[r].last

PassOf(r) == OncePerPass(r) /\ Bound(r) /\ Counts(r) /\ Rests(r) /\ BatchIsRead(r)
RunInv(r) == (run[r] = NULL => Unused(r)) /\ (run[r] # NULL => PassOf(r) /\ Reach(r))
PassInv   == BroadcastTypeOK /\ \A r \in Runs : RunInv(r)

\* Sets of users are finite.
LEMMA UserSets ==
  ASSUME NEW S \in SUBSET Users
  PROVE  /\ IsFiniteSet(S) /\ Cardinality(S) \in Nat
         /\ \A T \in SUBSET S : Cardinality(T) <= Cardinality(S)
         /\ \A u : u \notin S => Cardinality(S \cup {u}) = Cardinality(S) + 1
<1>1. IsFiniteSet(Users)
  BY Numbers, FS_Interval DEF Users
<1>2. IsFiniteSet(S)
  BY <1>1, FS_Subset
<1>3. \A T \in SUBSET S : Cardinality(T) <= Cardinality(S)
  BY <1>2, FS_Subset
<1>4. \A u : u \notin S => Cardinality(S \cup {u}) = Cardinality(S) + 1
  BY <1>2, FS_AddElement
<1> QED
  BY <1>2, <1>3, <1>4, FS_CardinalityType

\* A user who is not in the channel goes to its end.
LEMMA AppendOne ==
  ASSUME NEW q \in Seq(Users), NoRepeats(q), NEW u \in Users, u \notin Members(q),
         NEW p, p = Append(q, u)
  PROVE  /\ p \in Seq(Users) /\ Len(p) = Len(q) + 1 /\ NoRepeats(p)
         /\ Members(p) = Members(q) \cup {u}
<1>1. p \in Seq(Users) /\ Len(p) = Len(q) + 1 /\ Len(q) \in Nat
  OBVIOUS
<1>2. p[Len(q) + 1] = u /\ \A i \in 1 .. Len(q) : p[i] = q[i]
  OBVIOUS
<1>3. 1 .. Len(p) = (1 .. Len(q)) \cup {Len(q) + 1} /\ Len(q) + 1 \notin 1 .. Len(q)
  BY <1>1
<1>4. NoRepeats(p)
  BY <1>2, <1>3 DEF NoRepeats, Members
<1>5. Members(p) = Members(q) \cup {u}
  BY <1>2, <1>3 DEF Members
<1> QED
  BY <1>1, <1>4, <1>5

\* The first one leaves the channel.
LEMMA TailOne ==
  ASSUME NEW q \in Seq(Users), NoRepeats(q), q # <<>>, NEW p, p = Tail(q)
  PROVE  /\ p \in Seq(Users) /\ Len(q) = Len(p) + 1 /\ NoRepeats(p)
         /\ Head(q) \in Members(q) /\ Head(q) \in Users
         /\ Members(p) = Members(q) \ {Head(q)}
<1>1. /\ p \in Seq(Users) /\ Len(q) = Len(p) + 1 /\ Len(p) \in Nat
      /\ Head(q) = q[1] /\ Head(q) \in Users
  OBVIOUS
<1>2. \A i \in 1 .. Len(p) : p[i] = q[i + 1]
  OBVIOUS
<1>3. \A i \in 1 .. Len(q) : i # 1 => i - 1 \in 1 .. Len(p) /\ p[i - 1] = q[i]
  BY <1>1, <1>2
<1>4. \A i \in 1 .. Len(p) : i + 1 \in 1 .. Len(q) /\ i + 1 # 1
  BY <1>1
<1>5. 1 \in 1 .. Len(q)
  BY <1>1
<1>6. NoRepeats(p)
  <2> SUFFICES ASSUME NEW i \in 1 .. Len(p), NEW j \in 1 .. Len(p), p[i] = p[j] PROVE i = j
    BY DEF NoRepeats
  <2>1. i + 1 = j + 1
    BY <1>2, <1>4 DEF NoRepeats
  <2> QED
    BY <1>1, <2>1
<1>7. Members(p) = Members(q) \ {Head(q)}
  <2>1. ASSUME NEW i \in 1 .. Len(p) PROVE p[i] \in Members(q) /\ p[i] # q[1]
    BY <1>2, <1>4, <1>5 DEF NoRepeats, Members
  <2>2. ASSUME NEW i \in 1 .. Len(q), q[i] # q[1] PROVE q[i] \in Members(p)
    BY <1>3, <2>2 DEF Members
  <2> QED
    BY <1>1, <2>1, <2>2 DEF Members
<1> QED
  BY <1>1, <1>5, <1>6, <1>7 DEF Members

\* The values of one run have their types.
LEMMA OfOneRun ==
  ASSUME BroadcastTypeOK, NEW r \in Runs
  PROVE  /\ feed[r].last \in 0 .. LastUser /\ feed[r].batch \subseteq Users
         /\ queue[r] \in Seq(Users) /\ Len(queue[r]) \in Nat
         /\ \A job \in sending[r] : job.user \in Users /\ job.attempt \in 1 .. MaxAttempts
         /\ count[r].sent \in Nat /\ count[r].failed \in Nat
         /\ fed[r] \subseteq Users /\ due[r] \subseteq Users
         /\ copies[r] \in [Users -> Nat] /\ \A u \in Users : copies[r][u] \in Nat
         /\ InQueue(r) \subseteq Users /\ Holding(r) \subseteq Users
         /\ Done(r) \subseteq Users /\ Got(r) \subseteq Users
<1>1. OthersTyped
  BY TypeParts
<1>2. feed[r].last \in 0 .. LastUser /\ feed[r].batch \subseteq Users
  BY <1>1 DEF OthersTyped, Feeds
<1>3. queue[r] \in Seq(Users)
  BY <1>1 DEF OthersTyped
<1>4. Len(queue[r]) \in Nat /\ InQueue(r) \subseteq Users
  BY <1>3 DEF InQueue, Members
<1>5. \A job \in sending[r] : job.user \in Users /\ job.attempt \in 1 .. MaxAttempts
  BY <1>1 DEF OthersTyped, Jobs
<1>6. count[r].sent \in Nat /\ count[r].failed \in Nat /\ fed[r] \subseteq Users /\ due[r] \subseteq Users
  BY <1>1 DEF OthersTyped
<1>7. copies[r] \in [Users -> Nat]
  BY <1>1 DEF OthersTyped
<1>8. \A u \in Users : copies[r][u] \in Nat
  BY <1>7
<1>9. Holding(r) \subseteq Users /\ Done(r) \subseteq Users /\ Got(r) \subseteq Users
  BY <1>5, <1>6 DEF Holding, Done, Got
<1> QED
  BY <1>2, <1>3, <1>4, <1>5, <1>6, <1>7, <1>8, <1>9

\* What the senders and the reader have done is kept by steps that leave it alone.
LEMMA PassStays ==
  ASSUME NEW r \in Runs, PassOf(r),
         feed'[r] = feed[r], queue'[r] = queue[r], sending'[r] = sending[r],
         count'[r] = count[r], fed'[r] = fed[r], copies'[r] = copies[r],
         run'[r].restarts = run[r].restarts, Cooling(r)' <=> Cooling(r),
         run'[r].phase = "releasing" => Drained(r)
  PROVE  PassOf(r)'
<1>1. Ahead(r)' = Ahead(r) /\ Got(r)' = Got(r)
  BY DEF Ahead, Got
<1>2. InQueue(r)' = InQueue(r) /\ Holding(r)' = Holding(r)
  BY DEF InQueue, Holding
<1>3. Done(r)' = Done(r)
  BY <1>2 DEF Done
<1>4. OncePerPass(r)' /\ Bound(r)' /\ Counts(r)'
  BY <1>1, <1>2, <1>3 DEF PassOf, OncePerPass, Bound, Counts, NoRepeats
<1>5. Rests(r)' /\ BatchIsRead(r)'
  BY DEF PassOf, Rests, BatchIsRead, Empty, Drained
<1> QED
  BY <1>4, <1>5 DEF PassOf

\* A run that a step leaves alone, whoever leaves the audience.
LEMMA RunStays ==
  ASSUME NEW q \in Runs, RunInv(q), run'[q] = run[q],
         feed'[q] = feed[q], queue'[q] = queue[q], sending'[q] = sending[q],
         count'[q] = count[q], fed'[q] = fed[q], copies'[q] = copies[q],
         due'[q] \subseteq due[q], eligible' = eligible \/ due'[q] \subseteq eligible'
  PROVE  RunInv(q)'
<1>1. CASE run[q] = NULL
  BY <1>1 DEF RunInv, Unused, Empty, Drained
<1>2. CASE run[q] # NULL
  <2>1. PassOf(q) /\ Reach(q)
    BY <1>2 DEF RunInv
  <2>2. PassOf(q)'
    BY <2>1, PassStays DEF Cooling, PassOf, Rests
  <2>3. Ahead(q)' = Ahead(q)
    BY DEF Ahead
  <2>4. Reach(q)'
    BY <2>1, <2>3 DEF Reach
  <2> QED
    BY <1>2, <2>2, <2>4 DEF RunInv
<1> QED
  BY <1>1, <1>2

\* A run whose work is forgotten, or that has not begun, has nothing to account for.
LEMMA NothingDone ==
  ASSUME NEW r \in Runs, Empty(r)', fed'[r] = {}
  PROVE  /\ InQueue(r)' = {} /\ Holding(r)' = {} /\ Done(r)' = {}
         /\ OncePerPass(r)' /\ Counts(r)' /\ BatchIsRead(r)' /\ Drained(r)'
<1>1. queue'[r] = <<>> /\ sending'[r] = {} /\ count'[r] = NoCount /\ feed'[r] = NoFeed
  BY DEF Empty, Drained
<1>2. InQueue(r)' = {} /\ Holding(r)' = {}
  BY <1>1 DEF InQueue, Members, Holding
<1>3. Done(r)' = {}
  BY <1>2 DEF Done
<1>4. OncePerPass(r)'
  BY <1>1, <1>2 DEF OncePerPass, NoRepeats
<1>5. Counts(r)'
  <2>1. IsFiniteSet({}) /\ Cardinality({}) = 0
    BY FS_EmptySet
  <2>2. Done(r)' \cap Got(r)' = {}
    BY <1>3
  <2>3. Len(queue'[r]) = 0 /\ count'[r].sent = 0 /\ count'[r].failed = 0
    BY <1>1 DEF NoCount
  <2>4. IsFiniteSet(sending'[r]) /\ Cardinality(sending'[r]) = 0 /\ Cardinality(fed'[r]) = 0
    BY <1>1, <2>1
  <2>5. Cardinality(Done(r)' \cap Got(r)') = 0
    BY <2>1, <2>2
  <2>6. /\ count'[r].sent + count'[r].failed + Len(queue'[r]) + Cardinality(sending'[r])
             = Cardinality(fed'[r])
        /\ count'[r].sent <= Cardinality(Done(r)' \cap Got(r)')
    BY <2>3, <2>4, <2>5
  <2> QED
    BY <2>4, <2>6 DEF Counts
<1>6. BatchIsRead(r)' /\ Drained(r)'
  BY <1>1 DEF BatchIsRead, NoFeed, Drained
<1> QED
  BY <1>2, <1>3, <1>4, <1>5, <1>6

\* A batch is the next users in the order of their keys: none of them, and none after
\* them, was passed on before, and nobody due is skipped.
LEMMA FetchPasses ==
  ASSUME PassInv, NEW r \in Runs, FetchBatch(r)
  PROVE  RunInv(r)'
<1>0. BroadcastTypeOK /\ PassOf(r) /\ Reach(r) /\ run[r] # NULL /\ ~Cooling(r)
  BY DEF PassInv, RunInv, FetchBatch, Live, Cooling
<1>t. feed[r].last \in 0 .. LastUser /\ feed[r].last \in Nat /\ LastUser \in Nat
  BY <1>0, OfOneRun, Numbers
<1>u. /\ feed \in [Runs -> Feeds] /\ feed[r].batch = {} /\ run[r].phase = "feeding"
      /\ UNCHANGED <<eligible, run, queue, sending, count, fed, due, copies>>
  BY <1>0, TypeParts DEF OthersTyped, FetchBatch, history
<1> DEFINE rows == {u \in Matching(r) : u > feed[r].last}
           last == feed'[r].last
           more == feed'[r].more
           NextBatch ==
             /\ \A u \in feed'[r].batch : u \in Users /\ u > feed[r].last /\ u <= last
             /\ last \in Nat /\ feed[r].last <= last
             /\ \A u \in due[r] : u > feed[r].last => u \in feed'[r].batch \/ (more /\ u > last)
<1>1. NextBatch
  <2>1. due[r] \subseteq Matching(r) /\ Matching(r) \subseteq Users
    BY <1>0 DEF Matching, Reach, BroadcastTypeOK
  <2>2. CASE rows = {} /\ feed' = [feed EXCEPT ![r] = [feed[r] EXCEPT !.more = FALSE]]
    <3>1. feed'[r] = [feed[r] EXCEPT !.more = FALSE] /\ feed[r] \in Feeds
      BY <1>u, <2>2
    <3>2. last = feed[r].last /\ feed'[r].batch = {} /\ more = FALSE
      BY <1>u, <3>1 DEF Feeds
    <3> QED
      BY <1>t, <2>1, <2>2, <3>2
  <2>3. ASSUME NEW batch \in SUBSET rows, NEW l \in rows, Page(rows, batch, l),
               feed' = [feed EXCEPT ![r] = [last |-> l, batch |-> batch,
                                            more |-> Cardinality(batch) = BatchSize]]
        PROVE  NextBatch
    <3>1. last = l /\ feed'[r].batch = batch /\ more = (Cardinality(batch) = BatchSize)
      BY <1>u, <2>3
    <3>2. l \in Users /\ l \in Nat /\ l > feed[r].last /\ l \in batch /\ \A u \in batch : u <= l
      BY <2>1, <2>3, Numbers DEF Page
    <3>3. batch \in SUBSET Users /\ Cardinality(batch) \in Nat
      BY <2>1, UserSets
    <3>4. Cardinality(batch) = BatchSize \/ batch = rows
      BY <2>3, <3>3, Numbers DEF Page
    <3>5. ASSUME NEW u \in due[r], u > feed[r].last PROVE u \in batch \/ (more /\ u > l)
      <4>1. u \in rows /\ u \in Nat
        BY <2>1, <3>5, Numbers
      <4>2. CASE u \in rows \ batch
        <5>1. l < u
          BY <2>3, <3>2, <4>2 DEF Page
        <5> QED
          BY <3>1, <3>2, <3>4, <4>1, <4>2, <5>1
      <4> QED
        BY <4>1, <4>2
    <3>6. ASSUME NEW u \in batch PROVE u \in Users /\ u > feed[r].last /\ u <= l
      BY <2>1, <3>2
    <3>7. l \in Nat /\ feed[r].last <= l
      BY <1>t, <3>2
    <3> QED
      BY <3>1, <3>5, <3>6, <3>7
  <2> QED
    BY <2>2, <2>3 DEF FetchBatch
<1>2. Ahead(r)' \subseteq Ahead(r)
  <2> SUFFICES ASSUME NEW u \in Users, u > last \/ u \in feed'[r].batch PROVE u > feed[r].last
    BY DEF Ahead
  <2>1. u \in Nat /\ last \in Nat /\ feed[r].last <= last
    BY <1>1, Numbers
  <2> QED
    BY <1>1, <1>t, <2>1
<1>3. InQueue(r)' = InQueue(r) /\ Holding(r)' = Holding(r) /\ Got(r)' = Got(r)
  BY <1>u DEF InQueue, Holding, Got
<1>4. Done(r)' = Done(r) /\ ~Cooling(r)'
  BY <1>0, <1>u, <1>3 DEF Done, Cooling
<1>5. OncePerPass(r)' /\ Bound(r)' /\ Counts(r)'
  BY <1>0, <1>u, <1>2, <1>3, <1>4 DEF PassOf, OncePerPass, Bound, Counts
<1>6. Rests(r)' /\ BatchIsRead(r)'
  BY <1>0, <1>u, <1>1, <1>4 DEF Rests, BatchIsRead
<1>7. Reach(r)'
  <2>1. ASSUME NEW u \in due[r] PROVE u \in fed[r] \/ u \in Ahead(r)'
    <3>1. u \in fed[r] \/ (u \in Users /\ u > feed[r].last)
      BY <1>0, <1>u, <2>1 DEF Reach, Ahead
    <3> QED
      BY <1>1, <2>1, <3>1 DEF Ahead
  <2>2. ASSUME ~more, NEW u \in due[r] PROVE u <= last
    <3>1. u \in Nat
      BY <1>0, OfOneRun, Numbers
    <3> QED
      BY <1>1, <1>t, <2>2, <3>1
  <2> QED
    BY <1>0, <1>u, <2>1, <2>2 DEF Reach
<1> QED
  BY <1>0, <1>u, <1>5, <1>6, <1>7 DEF RunInv, PassOf

\* The first user of the batch goes into the channel, or is one the text is not for.
LEMMA FeedPasses ==
  ASSUME PassInv, NEW r \in Runs, Feed(r)
  PROVE  RunInv(r)'
<1>0. BroadcastTypeOK /\ PassOf(r) /\ Reach(r) /\ run[r] # NULL /\ ~Cooling(r)
  BY DEF PassInv, RunInv, Feed, Live, Cooling
<1>u. /\ feed \in [Runs -> Feeds] /\ queue \in [Runs -> Seq(Users)] /\ fed \in [Runs -> SUBSET Users]
      /\ run[r].phase = "feeding"
      /\ UNCHANGED <<eligible, run, sending, count, due, copies>>
  BY <1>0, TypeParts DEF OthersTyped, Feed
<1>1. PICK u \in feed[r].batch :
        /\ feed' = [feed EXCEPT ![r] = [feed[r] EXCEPT !.batch = feed[r].batch \ {u}]]
        /\ \/ Blank(r, u) /\ UNCHANGED <<queue, fed>>
           \/ /\ ~Blank(r, u) /\ Len(queue[r]) < ChanCap
              /\ queue' = [queue EXCEPT ![r] = Append(queue[r], u)]
              /\ fed' = [fed EXCEPT ![r] = fed[r] \cup {u}]
  BY DEF Feed
<1>2. feed'[r].last = feed[r].last /\ feed'[r].batch = feed[r].batch \ {u} /\ feed'[r].more = feed[r].more
  <2>1. feed'[r] = [feed[r] EXCEPT !.batch = feed[r].batch \ {u}] /\ feed[r] \in Feeds
    BY <1>u, <1>1
  <2> QED
    BY <2>1 DEF Feeds
<1>3. u \in Users /\ u <= feed[r].last /\ feed[r].last \in Nat /\ u \in Nat
  <2>1. feed[r].batch \subseteq Users /\ feed[r].last \in 0 .. LastUser
    BY <1>0, OfOneRun
  <2>2. u \in Users
    BY <2>1
  <2>3. u \in Nat /\ LastUser \in Nat
    BY <2>2, Numbers
  <2>4. u <= feed[r].last
    BY <1>0 DEF PassOf, BatchIsRead
  <2> QED
    BY <2>1, <2>2, <2>3, <2>4
<1>4. Ahead(r)' = Ahead(r) \ {u} /\ u \in Ahead(r)
  BY <1>2, <1>3 DEF Ahead
<1>5. Holding(r)' = Holding(r) /\ Got(r)' = Got(r) /\ ~Cooling(r)'
  BY <1>0, <1>u DEF Holding, Got, Cooling
<1>6. u \notin fed[r] /\ u \notin InQueue(r) /\ u \notin Holding(r)
  BY <1>0, <1>4 DEF PassOf, OncePerPass
<1>7. Rests(r)' /\ BatchIsRead(r)'
  BY <1>0, <1>u, <1>2, <1>5 DEF Rests, PassOf, BatchIsRead
<1>8. CASE Blank(r, u) /\ UNCHANGED <<queue, fed>>
  <2>1. InQueue(r)' = InQueue(r)
    BY <1>8 DEF InQueue
  <2>2. Done(r)' = Done(r)
    BY <1>5, <1>8, <2>1 DEF Done
  <2>3. OncePerPass(r)' /\ Bound(r)' /\ Counts(r)'
    BY <1>0, <1>u, <1>4, <1>5, <1>8, <2>1, <2>2 DEF PassOf, OncePerPass, Bound, Counts
  <2>4. u \notin due[r]
    BY <1>0, <1>8 DEF Reach, Blank
  <2>5. Reach(r)'
    BY <1>0, <1>u, <1>2, <1>4, <1>8, <2>4 DEF Reach
  <2> QED
    BY <1>0, <1>u, <1>7, <2>3, <2>5 DEF RunInv, PassOf
<1>9. CASE /\ queue' = [queue EXCEPT ![r] = Append(queue[r], u)]
           /\ fed' = [fed EXCEPT ![r] = fed[r] \cup {u}]
  <2>1. queue'[r] = Append(queue[r], u) /\ fed'[r] = fed[r] \cup {u} /\ queue[r] \in Seq(Users)
    BY <1>u, <1>9
  <2>2. /\ NoRepeats(queue'[r]) /\ InQueue(r)' = InQueue(r) \cup {u}
        /\ Len(queue'[r]) = Len(queue[r]) + 1
    <3>1. NoRepeats(queue[r]) /\ u \notin Members(queue[r])
      BY <1>0, <1>6 DEF PassOf, OncePerPass, InQueue
    <3> QED
      BY <1>3, <2>1, <3>1, AppendOne DEF InQueue
  <2>3. Done(r)' = Done(r)
    BY <1>5, <1>6, <2>1, <2>2 DEF Done
  <2>4. OncePerPass(r)'
    BY <1>0, <1>u, <1>4, <1>5, <1>6, <2>1, <2>2 DEF PassOf, OncePerPass
  <2>5. Bound(r)'
    BY <1>0, <1>u, <1>5, <2>3 DEF PassOf, Bound
  <2>6. Counts(r)'
    <3>1. Cardinality(fed[r] \cup {u}) = Cardinality(fed[r]) + 1 /\ Cardinality(fed[r]) \in Nat
      BY <1>0, <1>6, OfOneRun, UserSets
    <3>2. Cardinality(fed'[r]) = Cardinality(fed[r]) + 1
      BY <2>1, <3>1
    <3>3. Cardinality(sending[r]) \in Nat /\ IsFiniteSet(sending[r])
      BY <1>0, FS_CardinalityType DEF PassOf, Counts
    <3>4. /\ count[r].sent + count[r].failed + Len(queue[r]) + Cardinality(sending[r])
               = Cardinality(fed[r])
          /\ count[r].sent <= Cardinality(Done(r) \cap Got(r))
      BY <1>0 DEF PassOf, Counts
    <3>5. count[r].sent \in Nat /\ count[r].failed \in Nat /\ Len(queue[r]) \in Nat
      BY <1>0, OfOneRun
    <3>6. count[r].sent + count[r].failed + (Len(queue[r]) + 1) + Cardinality(sending[r])
            = Cardinality(fed[r]) + 1
      <4> DEFINE a == count[r].sent
                 b == count[r].failed
                 l == Len(queue[r])
                 m == Cardinality(sending[r])
                 n == Cardinality(fed[r])
      <4>1. a \in Nat /\ b \in Nat /\ l \in Nat /\ m \in Nat /\ n \in Nat /\ a + b + l + m = n
        BY <3>1, <3>3, <3>4, <3>5
      <4> HIDE DEF a, b, l, m, n
      <4>2. a + b + (l + 1) + m = n + 1
        BY <4>1
      <4> QED
        BY <4>2 DEF a, b, l, m, n
    <3>8. count'[r].sent + count'[r].failed + Len(queue'[r]) + Cardinality(sending'[r])
            = Cardinality(fed'[r])
      BY <1>u, <2>2, <3>2, <3>6
    <3>7. count'[r].sent <= Cardinality(Done(r)' \cap Got(r)')
      BY <1>u, <1>5, <2>3, <3>4
    <3> QED
      BY <1>u, <3>3, <3>7, <3>8 DEF Counts
  <2>7. Reach(r)'
    BY <1>0, <1>u, <1>2, <1>4, <2>1 DEF Reach
  <2> QED
    BY <1>0, <1>u, <1>7, <2>4, <2>5, <2>6, <2>7 DEF RunInv, PassOf
<1> QED
  BY <1>1, <1>8, <1>9

\* The balance of the counters, as numbers.
LEMMA Balance ==
  ASSUME PassInv, NEW r \in Runs, run[r] # NULL, ~Cooling(r)
  PROVE  /\ IsFiniteSet(sending[r]) /\ Cardinality(sending[r]) \in Nat
         /\ count[r].sent \in Nat /\ count[r].failed \in Nat /\ Len(queue[r]) \in Nat
         /\ Cardinality(fed[r]) \in Nat
         /\ count[r].sent + count[r].failed + Len(queue[r]) + Cardinality(sending[r])
              = Cardinality(fed[r])
         /\ count[r].sent <= Cardinality(Done(r) \cap Got(r))
         /\ Cardinality(Done(r) \cap Got(r)) \in Nat
<1>0. BroadcastTypeOK /\ PassOf(r)
  BY DEF PassInv, RunInv
<1>1. Cardinality(fed[r]) \in Nat /\ Cardinality(Done(r) \cap Got(r)) \in Nat
  BY <1>0, OfOneRun, UserSets
<1> QED
  BY <1>0, <1>1, OfOneRun, FS_CardinalityType DEF PassOf, Counts

\* A job leaves the channel for a sender, or is counted as failed at once.
LEMMA TakePasses ==
  ASSUME PassInv, NEW r \in Runs, Take(r)
  PROVE  RunInv(r)'
<1>u. /\ BroadcastTypeOK /\ queue[r] # <<>>
      /\ queue' = [queue EXCEPT ![r] = Tail(queue[r])]
      /\ UNCHANGED <<eligible, run, feed, fed, due, copies>>
  BY DEF PassInv, Take, history
<1>0. run[r] # NULL /\ PassOf(r) /\ Reach(r)
  BY <1>u DEF PassInv, RunInv, Unused, Empty, Drained
<1>c. ~Cooling(r) /\ ~Cooling(r)'
  BY <1>0, <1>u DEF PassOf, Rests, Empty, Drained, Cooling
<1>s. /\ queue \in [Runs -> Seq(Users)] /\ sending \in [Runs -> SUBSET Jobs]
      /\ count \in [Runs -> [sent : Nat, failed : Nat]]
  BY <1>u, TypeParts DEF OthersTyped
<1> DEFINE h == Head(queue[r])
<1>1. /\ h \in Users /\ h \in InQueue(r) /\ InQueue(r)' = InQueue(r) \ {h}
      /\ NoRepeats(queue'[r]) /\ Len(queue[r]) = Len(queue'[r]) + 1 /\ Len(queue'[r]) \in Nat
  <2>1. queue[r] \in Seq(Users) /\ NoRepeats(queue[r]) /\ queue'[r] = Tail(queue[r])
    BY <1>0, <1>u, <1>s DEF PassOf, OncePerPass
  <2>2. /\ h \in Users /\ h \in Members(queue[r]) /\ Members(queue'[r]) = Members(queue[r]) \ {h}
        /\ NoRepeats(queue'[r]) /\ Len(queue[r]) = Len(queue'[r]) + 1 /\ queue'[r] \in Seq(Users)
    BY <1>u, <2>1, TailOne
  <2>3. Len(queue'[r]) \in Nat
    BY <2>2
  <2> QED
    BY <2>2, <2>3 DEF InQueue
<1>2. Ahead(r)' = Ahead(r) /\ Got(r)' = Got(r)
  BY <1>u DEF Ahead, Got
<1>3. h \in fed[r] /\ h \notin Holding(r)
  BY <1>0, <1>c, <1>1 DEF PassOf, OncePerPass
<1>4. Rests(r)' /\ BatchIsRead(r)'
  <2>1. run[r].phase # "releasing"
    BY <1>0, <1>u DEF PassOf, Rests, Drained
  <2> QED
    BY <1>0, <1>c, <1>u, <2>1 DEF Rests, PassOf, BatchIsRead
<1>5. Reach(r)'
  BY <1>0, <1>u, <1>2 DEF Reach
<1>b. /\ IsFiniteSet(sending[r]) /\ Cardinality(sending[r]) \in Nat
      /\ count[r].sent \in Nat /\ count[r].failed \in Nat
      /\ Cardinality(fed[r]) \in Nat
      /\ count[r].sent + count[r].failed + Len(queue[r]) + Cardinality(sending[r])
           = Cardinality(fed[r])
      /\ count[r].sent <= Cardinality(Done(r) \cap Got(r))
      /\ Cardinality(Done(r) \cap Got(r)) \in Nat
  BY <1>0, <1>c, Balance
<1> DEFINE a == count[r].sent
           b == count[r].failed
           l == Len(queue'[r])
           m == Cardinality(sending[r])
           n == Cardinality(fed[r])
<1>n. /\ a \in Nat /\ b \in Nat /\ l \in Nat /\ m \in Nat /\ n \in Nat
      /\ a + b + (l + 1) + m = n
  BY <1>1, <1>b
<1>6. CASE Counted(r, 0, 1) /\ UNCHANGED sending
  <2>1. Holding(r)' = Holding(r)
    BY <1>6 DEF Holding
  <2>2. Done(r)' = Done(r) \cup {h}
    BY <1>u, <1>1, <1>3, <2>1 DEF Done
  <2>3. OncePerPass(r)'
    BY <1>0, <1>u, <1>c, <1>1, <1>2, <1>6, <2>1 DEF PassOf, OncePerPass
  <2>4. Bound(r)'
    BY <1>0, <1>u, <1>c, <2>2 DEF PassOf, Bound
  <2>5. Counts(r)'
    <3>1. count'[r].sent = a /\ count'[r].failed = b + 1
      BY <1>6, <1>s, <1>b DEF Counted
    <3>2. a <= Cardinality(Done(r)' \cap Got(r)')
      <4>1. Done(r) \cap Got(r) \subseteq Done(r)' \cap Got(r)' /\ Done(r)' \cap Got(r)' \subseteq Users
        BY <1>u, <1>1, <1>2, <2>2, OfOneRun
      <4> DEFINE S == Done(r)' \cap Got(r)'
                 T == Done(r) \cap Got(r)
      <4>2. S \in SUBSET Users /\ T \in SUBSET S
        BY <4>1
      <4> HIDE DEF S, T
      <4>3. Cardinality(T) <= Cardinality(S) /\ Cardinality(S) \in Nat
        BY <4>2, UserSets
      <4>4. Cardinality(T) \in Nat /\ a <= Cardinality(T)
        BY <1>b DEF T
      <4>5. a <= Cardinality(S)
        BY <1>n, <4>3, <4>4
      <4> QED
        BY <4>5 DEF S
    <3> HIDE DEF a, b, l, m, n
    <3>3. a + (b + 1) + l + m = n
      BY <1>n
    <3>4. count'[r].sent + count'[r].failed + Len(queue'[r]) + Cardinality(sending'[r])
            = Cardinality(fed'[r])
      BY <1>6, <1>u, <3>1, <3>3 DEF l, m, n
    <3>5. count'[r].sent <= Cardinality(Done(r)' \cap Got(r)')
      BY <3>1, <3>2
    <3>6. IsFiniteSet(sending'[r])
      BY <1>6, <1>b
    <3> QED
      BY <3>4, <3>5, <3>6 DEF Counts
  <2> QED
    BY <1>0, <1>u, <1>4, <1>5, <2>3, <2>4, <2>5 DEF RunInv, PassOf
<1>7. CASE /\ sending' = [sending EXCEPT ![r] = sending[r] \cup {[user |-> h, attempt |-> 1]}]
           /\ UNCHANGED count
  <2> DEFINE job == [user |-> h, attempt |-> 1]
  <2>1. sending'[r] = sending[r] \cup {job} /\ job.user = h
    BY <1>7, <1>s
  <2> HIDE DEF job
  <2>2. Holding(r)' = Holding(r) \cup {h} /\ job \notin sending[r]
    BY <1>3, <2>1 DEF Holding
  <2>3. Done(r)' = Done(r)
    BY <1>u, <1>1, <1>3, <2>2 DEF Done
  <2>4. OncePerPass(r)'
    <3>1. \A j, k \in sending'[r] : j.user = k.user => j = k
      BY <1>0, <1>3, <2>1 DEF PassOf, OncePerPass, Holding
    <3>2. InQueue(r)' \cap Holding(r)' = {}
      BY <1>0, <1>1, <2>2 DEF PassOf, OncePerPass
    <3>3. InQueue(r)' \cup Holding(r)' \subseteq fed'[r] /\ fed'[r] \cap Ahead(r)' = {}
      BY <1>0, <1>c, <1>u, <1>1, <1>2, <1>3, <2>2 DEF PassOf, OncePerPass
    <3> QED
      BY <1>1, <3>1, <3>2, <3>3 DEF OncePerPass
  <2>5. Bound(r)'
    BY <1>0, <1>u, <1>c, <2>3 DEF PassOf, Bound
  <2>6. Counts(r)'
    <3>1. IsFiniteSet(sending'[r]) /\ Cardinality(sending'[r]) = m + 1
      <4>1. IsFiniteSet(sending[r]) /\ job \notin sending[r]
        BY <1>b, <2>2
      <4>2. /\ IsFiniteSet(sending[r] \cup {job})
            /\ Cardinality(sending[r] \cup {job}) = Cardinality(sending[r]) + 1
        BY <4>1, FS_AddElement
      <4> QED
        BY <2>1, <4>2
    <3> HIDE DEF a, b, l, m, n
    <3>2. a + b + l + (m + 1) = n
      BY <1>n
    <3>3. count'[r].sent + count'[r].failed + Len(queue'[r]) + Cardinality(sending'[r])
            = Cardinality(fed'[r])
      BY <1>7, <1>u, <3>1, <3>2 DEF a, b, l, n
    <3>4. count'[r].sent <= Cardinality(Done(r)' \cap Got(r)')
      BY <1>7, <1>b, <1>2, <2>3
    <3> QED
      BY <3>1, <3>3, <3>4 DEF Counts
  <2> QED
    BY <1>0, <1>u, <1>4, <1>5, <2>4, <2>5, <2>6 DEF RunInv, PassOf
<1> QED
  BY <1>6, <1>7 DEF Take

\* A set with one element replaced, or taken out, and its size.
LEMMA OneLess ==
  ASSUME NEW S, IsFiniteSet(S), NEW x \in S
  PROVE  /\ IsFiniteSet(S \ {x}) /\ Cardinality(S) = Cardinality(S \ {x}) + 1
         /\ Cardinality(S \ {x}) \in Nat
         /\ \A y : y \notin S \ {x} => /\ IsFiniteSet((S \ {x}) \cup {y})
                                       /\ Cardinality((S \ {x}) \cup {y}) = Cardinality(S)
<1>1. IsFiniteSet(S \ {x}) /\ Cardinality(S \ {x}) = Cardinality(S) - 1
  BY FS_RemoveElement
<1>2. Cardinality(S) \in Nat /\ Cardinality(S \ {x}) \in Nat
  BY <1>1, FS_CardinalityType
<1>3. Cardinality(S) = Cardinality(S \ {x}) + 1
  BY <1>1, <1>2
<1>4. ASSUME NEW y, y \notin S \ {x}
      PROVE  /\ IsFiniteSet((S \ {x}) \cup {y})
             /\ Cardinality((S \ {x}) \cup {y}) = Cardinality(S \ {x}) + 1
  BY <1>1, <1>4, FS_AddElement
<1> QED
  BY <1>1, <1>2, <1>3, <1>4

\* A message counted or given up is of a user who had none of this time's before; only
\* one that Telegram refused is tried again.
LEMMA SendPasses ==
  ASSUME PassInv, NEW r \in Runs, NEW job \in sending[r], NEW answer \in Answers,
         Send(r, job, answer)
  PROVE  RunInv(r)'
<1> DEFINE u == job.user
           again == Retries(answer, job.attempt) /\ ~Cancelled(r)
           next == [job EXCEPT !.attempt = job.attempt + 1]
           a == count[r].sent
           b == count[r].failed
           l == Len(queue[r])
           m == Cardinality(sending[r])
           n == Cardinality(fed[r])
<1>u. BroadcastTypeOK /\ UNCHANGED <<eligible, run, feed, queue, fed, due>>
  BY DEF PassInv, Send
<1>0. run[r] # NULL /\ PassOf(r) /\ Reach(r)
  BY <1>u DEF PassInv, RunInv, Unused, Empty, Drained
<1>c. ~Cooling(r) /\ ~Cooling(r)' /\ run[r].phase # "releasing"
  BY <1>0, <1>u DEF PassOf, Rests, Empty, Drained, Cooling
<1>s. /\ sending \in [Runs -> SUBSET Jobs] /\ copies \in [Runs -> [Users -> Nat]]
      /\ count \in [Runs -> [sent : Nat, failed : Nat]] /\ run[r].restarts \in Nat
  BY <1>0, <1>u, TypeParts, RowFields DEF OthersTyped
<1>1. u \in Users /\ u \in Holding(r) /\ u \in fed[r] /\ u \notin InQueue(r) /\ u \notin Done(r)
  BY <1>0, <1>u, <1>c, OfOneRun DEF PassOf, OncePerPass, Holding, Done
<1>2. Ahead(r)' = Ahead(r) /\ InQueue(r)' = InQueue(r)
  BY <1>u DEF Ahead, InQueue
<1>4. Rests(r)' /\ BatchIsRead(r)'
  BY <1>0, <1>c, <1>u DEF Rests, PassOf, BatchIsRead
<1>5. Reach(r)'
  BY <1>0, <1>u, <1>2 DEF Reach
<1>b. /\ IsFiniteSet(sending[r]) /\ a + b + l + m = n
      /\ a \in Nat /\ b \in Nat /\ l \in Nat /\ m \in Nat /\ n \in Nat
      /\ count[r].sent <= Cardinality(Done(r) \cap Got(r))
      /\ Cardinality(Done(r) \cap Got(r)) \in Nat
  BY <1>0, <1>c, Balance
<1>6. \A j, k \in sending[r] : j.user = k.user => j = k
  BY <1>0 DEF PassOf, OncePerPass
<1>7. CASE again
  <2>1. /\ sending' = [sending EXCEPT ![r] = (sending[r] \ {job}) \cup {next}]
        /\ count' = count /\ copies' = copies
    BY <1>7 DEF Send, Retries, Arrives
  <2>2. sending'[r] = (sending[r] \ {job}) \cup {next} /\ next.user = u
    BY <1>s, <2>1 DEF Jobs
  <2> HIDE DEF next
  <2>3. Holding(r)' = Holding(r) /\ Got(r)' = Got(r)
    BY <2>1, <2>2 DEF Holding, Got
  <2>4. Done(r)' = Done(r)
    BY <1>u, <1>2, <2>3 DEF Done
  <2>5. next \notin sending[r] \ {job}
    BY <1>6, <2>2
  <2>6. IsFiniteSet(sending'[r]) /\ Cardinality(sending'[r]) = m
    <3>1. \A y : y \notin sending[r] \ {job} =>
            /\ IsFiniteSet((sending[r] \ {job}) \cup {y})
            /\ Cardinality((sending[r] \ {job}) \cup {y}) = Cardinality(sending[r])
      BY <1>b, OneLess
    <3>2. /\ IsFiniteSet((sending[r] \ {job}) \cup {next})
          /\ Cardinality((sending[r] \ {job}) \cup {next}) = Cardinality(sending[r])
      BY <2>5, <3>1, Zenon
    <3> QED
      BY <2>2, <3>2
  <2>7. OncePerPass(r)'
    <3>1. \A j, k \in sending'[r] : j.user = k.user => j = k
      BY <1>6, <2>2
    <3> QED
      BY <1>0, <1>c, <1>u, <1>2, <2>3, <3>1 DEF PassOf, OncePerPass
  <2>8. Bound(r)'
    BY <1>0, <1>c, <1>u, <2>1, <2>4 DEF PassOf, Bound
  <2>9. Counts(r)'
    BY <1>b, <1>u, <2>1, <2>3, <2>4, <2>6 DEF Counts
  <2> QED
    BY <1>0, <1>u, <1>4, <1>5, <2>7, <2>8, <2>9 DEF RunInv, PassOf
<1>8. CASE ~again
  <2>1. sending'[r] = sending[r] \ {job}
    BY <1>8, <1>s DEF Send
  <2>2. Holding(r)' = Holding(r) \ {u}
    BY <1>6, <2>1 DEF Holding
  <2>3. Done(r)' = Done(r) \cup {u}
    BY <1>u, <1>1, <1>2, <2>2 DEF Done
  <2>4. /\ \A v \in Users : v # u => copies'[r][v] = copies[r][v]
        /\ Arrives(answer) => copies'[r][u] = copies[r][u] + 1
        /\ ~Arrives(answer) => copies'[r][u] = copies[r][u]
        /\ \A v \in Users : copies[r][v] \in Nat
    <3> DEFINE f == [copies[r] EXCEPT ![u] = copies[r][u] + 1]
    <3>1. copies[r] \in [Users -> Nat]
      BY <1>s
    <3>2. f[u] = copies[r][u] + 1 /\ \A v \in Users : v # u => f[v] = copies[r][v]
      BY <1>1, <3>1
    <3>3. copies' = IF Arrives(answer) THEN [copies EXCEPT ![r] = f] ELSE copies
      BY DEF Send
    <3> HIDE DEF f
    <3>4. copies'[r] = IF Arrives(answer) THEN f ELSE copies[r]
      BY <1>s, <3>3
    <3>5. \A v \in Users : copies[r][v] \in Nat
      BY <3>1
    <3> QED
      BY <3>2, <3>4, <3>5
  <2>5. OncePerPass(r)'
    <3>1. \A j, k \in sending'[r] : j.user = k.user => j = k
      BY <1>6, <2>1
    <3> QED
      BY <1>0, <1>c, <1>u, <1>2, <2>2, <3>1 DEF PassOf, OncePerPass
  <2>6. Bound(r)'
    <3>1. copies[r][u] <= run[r].restarts
      BY <1>0, <1>c, <1>1 DEF PassOf, Bound
    <3>2. ASSUME NEW v \in Users PROVE copies'[r][v] <= 1 + run[r].restarts
      <4>1. CASE v = u
        BY <1>s, <1>1, <2>4, <3>1, <4>1
      <4>2. CASE v # u
        BY <1>0, <2>4, <4>2 DEF PassOf, Bound
      <4> QED
        BY <4>1, <4>2
    <3>3. ASSUME NEW v \in Users \ Done(r)' PROVE copies'[r][v] <= run[r].restarts
      <4>1. v # u /\ v \notin Done(r)
        BY <2>3, <3>3
      <4> QED
        BY <1>0, <1>c, <2>4, <4>1 DEF PassOf, Bound
    <3> QED
      BY <1>u, <3>2, <3>3 DEF Bound
  <2>7. Counts(r)'
    <3> DEFINE S == Done(r)' \cap Got(r)'
               T == Done(r) \cap Got(r)
    <3>1. S \in SUBSET Users /\ T \in SUBSET Users /\ T \subseteq S /\ u \notin T
      <4>1. Got(r) \subseteq Got(r)'
        BY <1>1, <2>4 DEF Got
      <4>2. Done(r) \subseteq Users
        BY <1>u, OfOneRun
      <4> QED
        BY <1>1, <2>3, <4>1, <4>2
    <3>2. Arrives(answer) => S = T \cup {u}
      <4>1. Arrives(answer) => Got(r)' = Got(r) \cup {u}
        BY <1>1, <2>4 DEF Got
      <4> QED
        BY <1>1, <2>3, <4>1
    <3> HIDE DEF S, T
    <3>3. /\ Cardinality(S) \in Nat /\ Cardinality(T) \in Nat /\ Cardinality(T) <= Cardinality(S)
          /\ S = T \cup {u} => Cardinality(S) = Cardinality(T) + 1
      BY <3>1, UserSets
    <3>4. IsFiniteSet(sending'[r]) /\ m = Cardinality(sending'[r]) + 1 /\ Cardinality(sending'[r]) \in Nat
      BY <1>b, <2>1, OneLess
    <3>5. a <= Cardinality(T)
      BY <1>b DEF T
    <3>6. CASE answer = "ok"
      <4>1. count'[r].sent = a + 1 /\ count'[r].failed = b
        BY <1>8, <1>s, <1>b, <3>6 DEF Send, Counted
      <4>2. Cardinality(S) = Cardinality(T) + 1
        BY <3>2, <3>3, <3>6 DEF Arrives
      <4> DEFINE k == Cardinality(sending'[r])
      <4>3. k \in Nat /\ m = k + 1
        BY <3>4
      <4> HIDE DEF a, b, l, m, n, k
      <4>4. (a + 1) + b + l + k = n /\ a + 1 <= Cardinality(S)
        BY <1>b, <3>3, <3>5, <4>2, <4>3
      <4>5. /\ count'[r].sent + count'[r].failed + Len(queue'[r]) + Cardinality(sending'[r])
                 = Cardinality(fed'[r])
            /\ count'[r].sent <= Cardinality(Done(r)' \cap Got(r)')
        BY <1>u, <4>1, <4>4 DEF l, n, k, S
      <4> QED
        BY <3>4, <4>5 DEF Counts
    <3>7. CASE answer # "ok"
      <4>1. count'[r].sent = a /\ count'[r].failed = b + 1
        BY <1>8, <1>s, <1>b, <3>7 DEF Send, Counted
      <4> DEFINE k == Cardinality(sending'[r])
      <4>3. k \in Nat /\ m = k + 1
        BY <3>4
      <4> HIDE DEF a, b, l, m, n, k
      <4>4. a + (b + 1) + l + k = n /\ a <= Cardinality(S)
        BY <1>b, <3>3, <3>5, <4>3
      <4>5. /\ count'[r].sent + count'[r].failed + Len(queue'[r]) + Cardinality(sending'[r])
                 = Cardinality(fed'[r])
            /\ count'[r].sent <= Cardinality(Done(r)' \cap Got(r)')
        BY <1>u, <4>1, <4>4 DEF l, n, k, S
      <4> QED
        BY <3>4, <4>5 DEF Counts
    <3> QED
      BY <3>6, <3>7
  <2> QED
    BY <1>0, <1>u, <1>4, <1>5, <2>5, <2>6, <2>7 DEF RunInv, PassOf
<1> QED
  BY <1>7, <1>8

\* A run that ends keeps nothing, and leaves the others alone.
LEMMA ForgetPasses ==
  ASSUME PassInv, NEW ended, Forget(ended), eligible' = eligible, NEW q \in Runs,
         q \notin ended => run'[q] = run[q],
         q \in ended => run'[q] # NULL /\ run'[q].phase \in {"over", "killed"} /\ run'[q].restarts \in Nat
  PROVE  RunInv(q)'
<1>1. CASE q \notin ended
  <2>1. /\ feed'[q] = feed[q] /\ queue'[q] = queue[q] /\ sending'[q] = sending[q]
        /\ count'[q] = count[q] /\ fed'[q] = fed[q] /\ copies'[q] = copies[q] /\ due'[q] = due[q]
    BY <1>1 DEF Forget
  <2> QED
    BY <1>1, <2>1, RunStays DEF PassInv
<1>2. CASE q \in ended
  <2>1. /\ feed'[q] = NoFeed /\ queue'[q] = <<>> /\ sending'[q] = {} /\ count'[q] = NoCount
        /\ fed'[q] = {} /\ copies'[q] = NoCopies /\ due'[q] = {}
    BY <1>2 DEF Forget
  <2>2. Empty(q)'
    BY <2>1 DEF Empty, Drained
  <2>3. OncePerPass(q)' /\ Counts(q)' /\ BatchIsRead(q)' /\ Drained(q)'
    BY <2>1, <2>2, NothingDone
  <2>4. Bound(q)'
    BY <1>2, <2>1 DEF Bound, NoCopies
  <2>5. Rests(q)' /\ Reach(q)'
    BY <1>2, <2>1, <2>2, <2>3 DEF Rests, Reach
  <2> QED
    BY <1>2, <2>3, <2>4, <2>5 DEF RunInv, PassOf
<1> QED
  BY <1>1, <1>2

\* A restart addresses everybody again, with one more message each.
LEMMA RestartPasses ==
  ASSUME PassInv, NEW r \in Runs, Restart(r)
  PROVE  RunInv(r)'
<1>0. BroadcastTypeOK /\ PassOf(r) /\ run[r] # NULL /\ Cooling(r) /\ Empty(r)
  BY DEF PassInv, RunInv, PassOf, Rests, Restart, Live, Cooling
<1>1. run[r] \in RunRows /\ run[r].restarts \in Nat /\ run \in [Runs -> RunRows \cup {NULL}]
  BY <1>0, RowFields DEF BroadcastTypeOK
<1>2. /\ UNCHANGED <<eligible, feed, queue, sending, count, copies>>
      /\ fed' = [fed EXCEPT ![r] = {}]
      /\ due' = [due EXCEPT ![r] = Audience[run[r].campaign] \cap eligible]
  BY DEF Restart, jobVars
<1>3. fed'[r] = {} /\ due'[r] = Audience[run[r].campaign] \cap eligible
  <2>1. fed \in [Runs -> SUBSET Users] /\ due \in [Runs -> SUBSET Users]
    BY <1>0 DEF BroadcastTypeOK
  <2> QED
    BY <1>2, <2>1
<1>4. /\ run'[r] # NULL /\ run'[r].phase = "feeding" /\ run'[r].campaign = run[r].campaign
      /\ run'[r].restarts = run[r].restarts + 1
  <2> DEFINE stop == IF run[r].stop = "shutdown" THEN "shutdown" ELSE "none"
  <2>1. run' = [run EXCEPT ![r] = [run[r] EXCEPT !.phase = "feeding", !.stop = stop,
                                                 !.restarts = run[r].restarts + 1]]
    BY DEF Restart
  <2>2. run'[r] = [run[r] EXCEPT !.phase = "feeding", !.stop = stop, !.restarts = run[r].restarts + 1]
    BY <1>1, <2>1
  <2> HIDE DEF stop
  <2>3. Moved
    BY <1>0, RowsMove DEF Next, RunStep
  <2> QED
    BY <1>0, <1>1, <2>2, <2>3 DEF RunRows, Moved
<1>5. Empty(r)'
  BY <1>0, <1>2 DEF Empty, Drained
<1>6. OncePerPass(r)' /\ Counts(r)' /\ BatchIsRead(r)' /\ Drained(r)'
  BY <1>3, <1>5, NothingDone
<1>7. Bound(r)'
  <2>1. \A u \in Users : copies[r][u] <= 1 + run[r].restarts /\ copies[r][u] \in Nat
    BY <1>0, OfOneRun DEF PassOf, Bound
  <2>2. \A u \in Users : copies'[r][u] <= run'[r].restarts
    BY <1>1, <1>2, <1>4, <2>1
  <2>3. \A u \in Users : copies'[r][u] <= 1 + run'[r].restarts
    BY <1>1, <1>2, <1>4, <2>1
  <2> QED
    BY <2>2, <2>3 DEF Bound
<1>8. Rests(r)'
  BY <1>4 DEF Rests, Cooling
<1>9. Reach(r)'
  <2>1. \A u \in Users : u \in Ahead(r)' /\ feed'[r].more
    BY <1>5, Numbers DEF Ahead, Empty, NoFeed, Users
  <2>2. due'[r] \subseteq Users
    BY <1>0, <1>3 DEF BroadcastTypeOK
  <2> QED
    BY <1>2, <1>3, <1>4, <2>1, <2>2 DEF Reach
<1> QED
  BY <1>4, <1>6, <1>7, <1>8, <1>9 DEF RunInv, PassOf

\* A start addresses its audience.
LEMMA StartPasses ==
  ASSUME PassInv, NEW r \in Runs, NEW c \in Campaigns, Start(r, c)
  PROVE  RunInv(r)' /\ \A q \in Runs : q # r => run'[q] = run[q]
<1>1. PICK locked \in BOOLEAN :
        run' = [run EXCEPT ![r] = [campaign |-> c, locked |-> locked, phase |-> "feeding",
                                   stop |-> "none", restarts |-> 0]]
  BY DEF Start
<1>2. run[r] = NULL
  <2>1. r \notin 1 .. r - 1
    BY Numbers
  <2> QED
    BY <2>1 DEF Start, Started
<1>3. run \in [Runs -> RunRows \cup {NULL}] /\ due \in [Runs -> SUBSET Users] /\ BroadcastTypeOK
  BY DEF PassInv, BroadcastTypeOK
<1> DEFINE row == [campaign |-> c, locked |-> locked, phase |-> "feeding", stop |-> "none", restarts |-> 0]
<1>4. run'[r] = row /\ \A q \in Runs : q # r => run'[q] = run[q]
  BY <1>1, <1>3
<1>5. run'[r] # NULL
  <2>1. row \in RunRows
    BY DEF RunRows
  <2> QED
    BY <1>4, <2>1, BroadcastAssumption
<1>6. /\ run'[r].phase = "feeding" /\ run'[r].campaign = c /\ run'[r].restarts = 0
  BY <1>4
<1>7. Unused(r) /\ UNCHANGED <<eligible, feed, queue, sending, count, fed, copies>>
  BY <1>2 DEF PassInv, RunInv, Start, jobVars
<1>8. due'[r] = Audience[c] \cap eligible
  BY <1>3 DEF Start
<1>9. Empty(r)' /\ fed'[r] = {} /\ copies'[r] = NoCopies
  BY <1>7 DEF Unused, Empty, Drained
<1>10. OncePerPass(r)' /\ Counts(r)' /\ BatchIsRead(r)' /\ Drained(r)'
  BY <1>9, NothingDone
<1>11. Bound(r)' /\ Rests(r)'
  BY <1>6, <1>9 DEF Bound, NoCopies, Rests, Cooling
<1>12. Reach(r)'
  <2>1. \A u \in Users : u \in Ahead(r)' /\ feed'[r].more
    BY <1>9, Numbers DEF Ahead, Empty, NoFeed, Users
  <2>2. due'[r] \subseteq Users
    BY <1>3, <1>8 DEF BroadcastTypeOK
  <2> QED
    BY <1>6, <1>7, <1>8, <2>1, <2>2 DEF Reach
<1> QED
  BY <1>4, <1>5, <1>10, <1>11, <1>12 DEF RunInv, PassOf

\* Of what the senders held at a panic, each message may have arrived once.
LEMMA PanicPasses ==
  ASSUME PassInv, NEW r \in Runs, Panic(r)
  PROVE  RunInv(r)'
<1>0. BroadcastTypeOK /\ PassOf(r) /\ Reach(r) /\ run[r] # NULL /\ run[r].phase = "feeding" /\ ~Cooling(r)
  BY DEF PassInv, RunInv, Panic, Live, Cooling
<1>1. PICK arrived \in SUBSET Holding(r) : copies' =
        [copies EXCEPT ![r] = [u \in Users |-> copies[r][u] + IF u \in arrived THEN 1 ELSE 0]]
  BY DEF Panic, Holding
<1>2. /\ \A u \in Users : copies'[r][u] = copies[r][u] + IF u \in arrived THEN 1 ELSE 0
      /\ \A u \in Users : copies[r][u] \in Nat
  <2>1. copies \in [Runs -> [Users -> Nat]]
    BY <1>0 DEF BroadcastTypeOK
  <2> QED
    BY <1>1, <2>1
<1>3. /\ run'[r] # NULL /\ run'[r].phase = "cooling" /\ run'[r].campaign = run[r].campaign
      /\ run'[r].restarts = run[r].restarts /\ run[r].restarts \in Nat
  <2>1. run' = [run EXCEPT ![r] = [run[r] EXCEPT !.phase = "cooling"]]
    BY DEF Panic
  <2>2. run[r] \in RunRows /\ run \in [Runs -> RunRows \cup {NULL}]
    BY <1>0, RowFields DEF BroadcastTypeOK
  <2>3. run'[r] = [run[r] EXCEPT !.phase = "cooling"]
    BY <2>1, <2>2
  <2>4. Moved
    BY <1>0, RowsMove DEF Next
  <2> QED
    BY <1>0, <2>2, <2>3, <2>4 DEF RunRows, Moved
<1>4. Empty(r)' /\ UNCHANGED <<eligible, fed, due>>
  BY <1>0 DEF Panic, Empty, Drained, BroadcastTypeOK
<1>5. Bound(r)'
  <2>1. \A u \in arrived : u \notin Done(r)
    BY DEF Done
  <2>2. ASSUME NEW u \in Users PROVE copies'[r][u] <= 1 + run'[r].restarts
    <3>1. CASE u \in arrived
      <4>1. copies[r][u] <= run[r].restarts
        BY <1>0, <2>1, <3>1 DEF PassOf, Bound
      <4> QED
        BY <1>2, <1>3, <3>1, <4>1
    <3>2. CASE u \notin arrived
      <4>1. copies[r][u] <= 1 + run[r].restarts
        BY <1>0 DEF PassOf, Bound
      <4> QED
        BY <1>2, <1>3, <3>2, <4>1
    <3> QED
      BY <3>1, <3>2
  <2> QED
    BY <1>3, <2>2 DEF Bound, Cooling
<1>6. OncePerPass(r)' /\ Counts(r)' /\ BatchIsRead(r)'
  <2>1. queue'[r] = <<>> /\ sending'[r] = {} /\ feed'[r] = NoFeed
    BY <1>4 DEF Empty, Drained
  <2>2. InQueue(r)' = {} /\ NoRepeats(queue'[r])
    BY <2>1 DEF InQueue, Members, NoRepeats
  <2> QED
    BY <1>3, <2>1, <2>2 DEF OncePerPass, Counts, BatchIsRead, Cooling, NoFeed
<1>7. Rests(r)' /\ Reach(r)'
  BY <1>0, <1>3, <1>4 DEF Rests, Reach
<1> QED
  BY <1>3, <1>5, <1>6, <1>7 DEF RunInv, PassOf

\* A step that only moves the row of a run.
LEMMA RowPasses ==
  ASSUME PassInv, NEW r \in Runs, run[r] # NULL, UNCHANGED <<eligible, jobVars, history>>,
         run'[r] # NULL, run'[r].campaign = run[r].campaign, run'[r].restarts = run[r].restarts,
         Cooling(r)' <=> Cooling(r),
         run'[r].phase = "releasing" => Drained(r),
         run'[r].phase = "feeding" => run[r].phase = "feeding",
         run'[r].phase \in {"closing", "releasing"} /\ run'[r].stop = "none" =>
           \/ run[r].phase \in {"closing", "releasing"} /\ run[r].stop = "none"
           \/ due[r] \subseteq fed[r]
  PROVE  RunInv(r)'
<1>0. PassOf(r) /\ Reach(r)
  BY DEF PassInv, RunInv
<1>1. PassOf(r)'
  BY <1>0, PassStays DEF jobVars, history
<1>2. Ahead(r)' = Ahead(r)
  BY DEF Ahead, jobVars
<1>3. Reach(r)'
  BY <1>0, <1>2 DEF Reach, jobVars, history
<1> QED
  BY <1>1, <1>3 DEF RunInv

\* The reading ends: with everybody due passed on, or stopped, or failed.
LEMMA ClosePasses ==
  ASSUME PassInv, NEW r \in Runs, EndOfUsers(r) \/ StopFeeding(r) \/ FetchFails(r)
  PROVE  RunInv(r)'
<1>0. /\ BroadcastTypeOK /\ Live(r) /\ run[r] # NULL /\ run[r].phase = "feeding" /\ Reach(r)
      /\ PassOf(r) /\ UNCHANGED <<eligible, jobVars, history>>
  BY DEF PassInv, RunInv, EndOfUsers, StopFeeding, FetchFails, CloseChannel, Live
<1>1. PICK why \in Stops :
        /\ run' = [run EXCEPT ![r] = [run[r] EXCEPT !.phase = "closing", !.stop = why]]
        /\ why = "none" => EndOfUsers(r)
  BY <1>0, RowFields DEF EndOfUsers, StopFeeding, FetchFails, CloseChannel, Stops, Cancelled
<1>2. run'[r] = [run[r] EXCEPT !.phase = "closing", !.stop = why]
  BY <1>0, <1>1 DEF BroadcastTypeOK
<1>3. /\ run'[r] # NULL /\ run'[r].phase = "closing" /\ run'[r].stop = why
      /\ run'[r].campaign = run[r].campaign /\ run'[r].restarts = run[r].restarts
  <2>1. Moved /\ run[r] \in RunRows
    BY <1>0, RowsMove, RowFields DEF Next, RunStep
  <2> QED
    BY <1>0, <1>2, <2>1 DEF RunRows, Moved
<1>4. EndOfUsers(r) => due[r] \subseteq fed[r]
  <2> SUFFICES ASSUME EndOfUsers(r), NEW u \in due[r] PROVE u \in fed[r]
    OBVIOUS
  <2>1. u <= feed[r].last /\ (u \in fed[r] \/ u \in Ahead(r)) /\ feed[r].batch = {}
    BY <1>0 DEF Reach, EndOfUsers
  <2>2. feed[r].last \in 0 .. LastUser /\ LastUser \in Nat /\ u \in Nat
    BY <1>0, OfOneRun, Numbers
  <2> QED
    BY <2>1, <2>2 DEF Ahead
<1> QED
  BY <1>0, <1>1, <1>3, <1>4, RowPasses DEF Cooling

\* The last sender is done, the 24 hours are over, or the process is shut down.
LEMMA EndPasses ==
  ASSUME PassInv, NEW r \in Runs, Live(r), Finish(r) \/ Deadline(r) \/ Shutdown
  PROVE  RunInv(r)'
<1>0. /\ BroadcastTypeOK /\ run[r] # NULL /\ run \in [Runs -> RunRows \cup {NULL}]
      /\ run[r] \in RunRows /\ UNCHANGED <<eligible, jobVars, history>> /\ PassOf(r)
  BY RowFields DEF PassInv, RunInv, BroadcastTypeOK, Live, Finish, Deadline, Shutdown
<1>t. Moved
  BY <1>0, RowsMove DEF Next, RunStep
<1>1. CASE Finish(r)
  <2>1. run'[r] = [run[r] EXCEPT !.phase = "releasing"] /\ run[r].phase = "closing" /\ Drained(r)
    BY <1>0, <1>1 DEF Finish
  <2>2. /\ run'[r] # NULL /\ run'[r].phase = "releasing" /\ run'[r].stop = run[r].stop
        /\ run'[r].campaign = run[r].campaign /\ run'[r].restarts = run[r].restarts
    BY <1>0, <1>t, <2>1 DEF RunRows, Moved
  <2> QED
    BY <1>0, <2>1, <2>2, RowPasses DEF Cooling
<1>2. ASSUME NEW stop \in {"deadline", "shutdown"}, run'[r] = [run[r] EXCEPT !.stop = stop]
      PROVE  RunInv(r)'
  <2>1. /\ run'[r] # NULL /\ run'[r].phase = run[r].phase /\ run'[r].stop = stop
        /\ run'[r].campaign = run[r].campaign /\ run'[r].restarts = run[r].restarts
    BY <1>0, <1>2, <1>t DEF RunRows, Moved
  <2>2. run'[r].phase = "releasing" => Drained(r)
    BY <1>0, <2>1 DEF PassOf, Rests
  <2>3. run'[r].stop # "none"
    BY <2>1
  <2> QED
    BY <1>0, <2>1, <2>2, <2>3, RowPasses DEF Cooling
<1>3. CASE Deadline(r)
  BY <1>0, <1>2, <1>3 DEF Deadline
<1>4. CASE Shutdown
  BY <1>0, <1>2, <1>4 DEF Shutdown
<1> QED
  BY <1>1, <1>3, <1>4

\* The values of a run are as they were.
SameRun(q) ==
  /\ run'[q] = run[q] /\ feed'[q] = feed[q] /\ queue'[q] = queue[q]
  /\ sending'[q] = sending[q] /\ count'[q] = count[q] /\ fed'[q] = fed[q]
  /\ copies'[q] = copies[q] /\ due'[q] = due[q] /\ eligible' = eligible

\* A step of a run leaves the values of the others alone.
LEMMA OthersAlone ==
  ASSUME PassInv, NEW r \in Runs, NEW q \in Runs, q # r,
         \/ RunStep(r) /\ ~Release(r)
         \/ FetchFails(r) \/ Panic(r) \/ Deadline(r)
         \/ \E c \in Campaigns : Start(r, c)
  PROVE  SameRun(q)
<1>0. BroadcastTypeOK
  BY DEF PassInv
<1> USE <1>0 DEF BroadcastTypeOK, jobVars, history, SameRun
<1>1. CASE FetchBatch(r)
  BY <1>1 DEF FetchBatch
<1>2. CASE Feed(r)
  BY <1>2 DEF Feed
<1>3. CASE EndOfUsers(r) \/ StopFeeding(r) \/ FetchFails(r)
  BY <1>3 DEF EndOfUsers, StopFeeding, FetchFails, CloseChannel
<1>4. CASE Take(r)
  BY <1>4 DEF Take, Counted
<1>5. ASSUME NEW job \in sending[r], NEW answer \in Answers, Send(r, job, answer) PROVE SameRun(q)
  BY <1>5 DEF Send, Counted
<1>6. CASE Finish(r) \/ Deadline(r)
  BY <1>6 DEF Finish, Deadline
<1>7. CASE Restart(r)
  BY <1>7 DEF Restart
<1>8. CASE Panic(r)
  BY <1>8 DEF Panic
<1>9. ASSUME NEW c \in Campaigns, Start(r, c) PROVE run'[q] = run[q]
  BY <1>9, StartPasses
<1>10. CASE \E c \in Campaigns : Start(r, c)
  BY <1>9, <1>10 DEF Start
<1> QED
  BY <1>1, <1>2, <1>3, <1>4, <1>5, <1>6, <1>7, <1>8, <1>10 DEF RunStep

\* The pass of a run is its own: another run's step leaves it as it is.
LEMMA OthersStay ==
  ASSUME PassInv, NEW r \in Runs, NEW q \in Runs, q # r,
         \/ RunStep(r) /\ ~Release(r)
         \/ FetchFails(r) \/ Panic(r) \/ Deadline(r)
         \/ \E c \in Campaigns : Start(r, c)
  PROVE  RunInv(q)'
  BY OthersAlone, RunStays DEF PassInv, SameRun

\* Every step keeps the account of every run.
LEMMA PassStep == PassInv /\ [Next]_vars => PassInv'
<1> SUFFICES ASSUME PassInv, [Next]_vars PROVE PassInv'
  OBVIOUS
<1>0. BroadcastTypeOK /\ BroadcastTypeOK' /\ Moved /\ \A q \in Runs : RunInv(q)
  BY TypesPreserved, RowsMove DEF PassInv
<1> SUFFICES ASSUME NEW q \in Runs PROVE RunInv(q)'
  BY <1>0 DEF PassInv
<1>1. ASSUME NEW r \in Runs, RunStep(r), ~Release(r) PROVE RunInv(q)'
  <2>1. CASE q # r
    BY <1>1, <2>1, OthersStay
  <2>2. CASE q = r
    <3>1. Finish(r) => Live(r)
      BY DEF Finish
    <3> QED
      BY <1>1, <2>2, <3>1, FetchPasses, FeedPasses, ClosePasses, TakePasses, SendPasses, EndPasses,
         RestartPasses DEF RunStep
  <2> QED
    BY <2>1, <2>2
<1>2. ASSUME NEW r \in Runs, Release(r) PROVE RunInv(q)'
  <2>1. /\ Forget({r}) /\ eligible' = eligible /\ Live(r)
        /\ run' = [run EXCEPT ![r] = [run[r] EXCEPT !.phase = "over"]]
    BY <1>2 DEF Release
  <2>2. q # r => run'[q] = run[q]
    BY <1>0, <2>1 DEF BroadcastTypeOK
  <2>3. q = r => run'[q] # NULL /\ run'[q].phase = "over" /\ run'[q].restarts \in Nat
    <3> SUFFICES ASSUME q = r PROVE run'[r] # NULL /\ run'[r].phase = "over" /\ run'[r].restarts \in Nat
      OBVIOUS
    <3>1. run[r] \in RunRows /\ run[r] # NULL
      BY <1>0, <2>1, RowFields DEF Live
    <3>2. run'[r] = [run[r] EXCEPT !.phase = "over"]
      BY <1>0, <2>1 DEF BroadcastTypeOK
    <3> QED
      BY <1>0, <3>1, <3>2 DEF Moved, RunRows
  <2> QED
    BY <2>1, <2>2, <2>3, ForgetPasses
<1>3. ASSUME NEW r \in Runs, NEW c \in Campaigns, Start(r, c) PROVE RunInv(q)'
  BY <1>3, OthersStay, StartPasses
<1>4. ASSUME NEW r \in Runs, FetchFails(r) \/ Panic(r) \/ Deadline(r) PROVE RunInv(q)'
  <2>1. Deadline(r) => Live(r)
    BY DEF Deadline
  <2> QED
    BY <1>4, <2>1, OthersStay, ClosePasses, PanicPasses, EndPasses
<1>5. ASSUME NEW k \in Keys, LockExpires(k) PROVE RunInv(q)'
  BY <1>0, <1>5, RunStays DEF LockExpires, jobVars, history
<1>6. CASE Shutdown
  <2>1. CASE Live(q)
    BY <1>6, <2>1, EndPasses
  <2>2. CASE ~Live(q)
    <3>1. run'[q] = run[q]
      BY <1>6, <2>2 DEF Shutdown
    <3> QED
      BY <1>0, <1>6, <3>1, RunStays DEF Shutdown, jobVars, history
  <2> QED
    BY <2>1, <2>2
<1>7. CASE Crash
  <2> DEFINE ended == {r \in Runs : Live(r)}
  <2>1. Forget(ended) /\ eligible' = eligible
    BY <1>7 DEF Crash
  <2>2. q \notin ended => run'[q] = run[q]
    BY <1>7 DEF Crash
  <2>3. q \in ended => run'[q] # NULL /\ run'[q].phase = "killed" /\ run'[q].restarts \in Nat
    <3> SUFFICES ASSUME Live(q) PROVE run'[q] # NULL /\ run'[q].phase = "killed" /\ run'[q].restarts \in Nat
      OBVIOUS
    <3>1. run[q] \in RunRows /\ run[q] # NULL
      BY <1>0, RowFields DEF Live
    <3>2. run'[q] = [run[q] EXCEPT !.phase = "killed"]
      BY <1>7 DEF Crash
    <3> QED
      BY <1>0, <3>1, <3>2 DEF Moved, RunRows
  <2> HIDE DEF ended
  <2> QED
    BY <2>1, <2>2, <2>3, ForgetPasses
<1>8. ASSUME NEW u \in Users, SetEligible(u) PROVE RunInv(q)'
  BY <1>0, <1>8, RunStays DEF SetEligible, jobVars
<1>9. CASE UNCHANGED vars
  BY <1>0, <1>9, RunStays DEF vars, jobVars, history
<1> QED
  BY <1>1, <1>2, <1>3, <1>4, <1>5, <1>6, <1>7, <1>8, <1>9 DEF Next

\* Nothing has been done at the beginning.
LEMMA PassInit == Init => PassInv
<1> SUFFICES ASSUME Init PROVE PassInv
  OBVIOUS
<1>1. BroadcastTypeOK
  <2>1. OthersTyped
    BY Blanks, Numbers DEF Init, OthersTyped
  <2> QED
    BY <2>1, TypeParts DEF Init
<1>2. ASSUME NEW r \in Runs PROVE RunInv(r)
  BY DEF Init, RunInv, Unused, Empty, Drained
<1> QED
  BY <1>1, <1>2 DEF PassInv

\* No run sends a user its message twice, but once more for each time it was run again,
\* whatever errors and timeouts the sends meet, and whoever crashes or comes and goes.
THEOREM NobodyIsToldTwice == Spec => []NobodyTwice
<1>1. PassInv => NobodyTwice
  BY DEF PassInv, RunInv, PassOf, Bound, NobodyTwice
<1> QED
  BY <1>1, PassInit, PassStep, PTL DEF Spec

\* The numbers an admin is shown add up to everybody passed on, and no success lacks a
\* user who got the message.
THEOREM ReportsAreComplete == Spec => []ReportCountsAll
<1>1. PassInv => ReportCountsAll
  <2> SUFFICES ASSUME PassInv, NEW r \in Runs, Reported(r)
               PROVE  /\ count[r].sent + count[r].failed = Cardinality(fed[r])
                      /\ count[r].sent <= Cardinality({u \in Users : copies[r][u] > 0})
    BY DEF ReportCountsAll
  <2>1. run[r] # NULL /\ ~Cooling(r) /\ queue[r] = <<>> /\ sending[r] = {}
    BY DEF PassInv, RunInv, PassOf, Rests, Drained, Reported, Cooling
  <2>2. Cardinality(sending[r]) = 0 /\ Len(queue[r]) = 0
    BY <2>1, FS_EmptySet
  <2>3. /\ count[r].sent \in Nat /\ count[r].failed \in Nat
        /\ count[r].sent + count[r].failed + Len(queue[r]) + Cardinality(sending[r])
             = Cardinality(fed[r])
        /\ count[r].sent <= Cardinality(Done(r) \cap Got(r))
        /\ Cardinality(Done(r) \cap Got(r)) \in Nat
    BY <2>1, Balance
  <2>4. Cardinality(Done(r) \cap Got(r)) <= Cardinality(Got(r)) /\ Cardinality(Got(r)) \in Nat
    BY UserSets DEF Got
  <2>5. count[r].sent + count[r].failed = Cardinality(fed[r])
    BY <2>2, <2>3
  <2>6. count[r].sent <= Cardinality(Got(r))
    BY <2>3, <2>4
  <2> QED
    BY <2>5, <2>6 DEF Got
<1> QED
  BY <1>1, PassInit, PassStep, PTL DEF Spec

\* A broadcast that was neither stopped nor failed has tried everybody addressed who was
\* eligible all the time, for every size of batch and whoever came or went between two.
THEOREM NobodyIsSkipped == Spec => []ReachesEveryone
<1>1. PassInv => ReachesEveryone
  BY DEF PassInv, RunInv, Reach, Reported, ReachesEveryone
<1> QED
  BY <1>1, PassInit, PassStep, PTL DEF Spec

(***************************************************************************)
(* Every run ends: what of it holds step by step.                          *)
(***************************************************************************)
\* How many of a set come before u.
Rank(S, u) == Cardinality({v \in S : v < u})

\* The ranks of n users are 0 .. n - 1, in their order.
LEMMA Ranks ==
  ASSUME NEW S \in SUBSET Users
  PROVE  /\ Cardinality(S) \in Nat
         /\ \A u \in S : Rank(S, u) \in 0 .. Cardinality(S) - 1
         /\ \A u, v \in S : u < v <=> Rank(S, u) < Rank(S, v)
         /\ \A k \in 0 .. Cardinality(S) - 1 : \E u \in S : Rank(S, u) = k
<1> DEFINE n == Cardinality(S)
           before(u) == {v \in S : v < u}
           rank == [u \in S |-> Rank(S, u)]
<1>1. IsFiniteSet(S) /\ n \in Nat /\ S \subseteq Nat
  BY UserSets, Numbers
<1>2. ASSUME NEW u \in S PROVE Rank(S, u) \in 0 .. n - 1
  <2>0. u \in Nat
    BY <1>1
  <2>1. before(u) \in SUBSET Users /\ u \notin before(u) /\ before(u) \cup {u} \in SUBSET S
    <3>1. ~(u < u)
      BY <2>0
    <3> QED
      BY <3>1
  <2>2. Cardinality(before(u)) \in Nat /\ Cardinality(before(u) \cup {u}) = Cardinality(before(u)) + 1
    BY <2>1, UserSets
  <2>3. Cardinality(before(u) \cup {u}) <= n
    BY <2>1, UserSets
  <2> QED
    BY <1>1, <2>2, <2>3 DEF Rank
<1>3. ASSUME NEW u \in S, NEW v \in S, u < v PROVE Rank(S, u) < Rank(S, v)
  <2>0. u \in Nat /\ v \in Nat /\ \A w \in S : w \in Nat
    BY <1>1
  <2>1. before(u) \in SUBSET Users /\ before(v) \in SUBSET Users /\ u \notin before(u)
    <3>1. ~(u < u)
      BY <2>0
    <3> QED
      BY <3>1
  <2>2. before(u) \cup {u} \in SUBSET before(v)
    <3>1. \A w \in S : w < u => w < v
      BY <1>3, <2>0
    <3> QED
      BY <1>3, <3>1
  <2>3. Cardinality(before(u)) \in Nat /\ Cardinality(before(u) \cup {u}) = Cardinality(before(u)) + 1
    BY <2>1, UserSets
  <2>4. Cardinality(before(u) \cup {u}) <= Cardinality(before(v)) /\ Cardinality(before(v)) \in Nat
    BY <2>1, <2>2, UserSets
  <2> QED
    BY <2>3, <2>4 DEF Rank
<1>4. \A u, v \in S : u < v <=> Rank(S, u) < Rank(S, v)
  <2> SUFFICES ASSUME NEW u \in S, NEW v \in S, Rank(S, u) < Rank(S, v) PROVE u < v
    BY <1>3
  <2>1. u \in Nat /\ v \in Nat /\ Rank(S, u) \in 0 .. n - 1 /\ Rank(S, v) \in 0 .. n - 1
    BY <1>1, <1>2
  <2>2. CASE v < u
    <3>1. Rank(S, v) < Rank(S, u)
      BY <1>3, <2>2
    <3> QED
      BY <2>1, <3>1
  <2> QED
    BY <2>1, <2>2
<1>5. rank \in Injection(S, 0 .. n - 1)
  <2>1. rank \in [S -> 0 .. n - 1]
    BY <1>2
  <2>2. ASSUME NEW u \in S, NEW v \in S, rank[u] = rank[v] PROVE u = v
    <3>1. u \in Nat /\ v \in Nat /\ Rank(S, u) = Rank(S, v) /\ Rank(S, u) \in 0 .. n - 1
      BY <1>1, <1>2, <2>2
    <3> QED
      BY <1>4, <3>1
  <2> QED
    BY <2>1, <2>2 DEF Injection, IsInjective
<1>6. IsFiniteSet(0 .. n - 1) /\ Cardinality(0 .. n - 1) = n
  <2> HIDE DEF n
  <2> QED
    BY <1>1, FS_Interval
<1>7. rank \in Surjection(S, 0 .. n - 1)
  BY <1>5, <1>6, FS_Injection
<1>8. \A k \in 0 .. n - 1 : \E u \in S : Rank(S, u) = k
  BY <1>7 DEF Surjection
<1> QED
  BY <1>1, <1>2, <1>4, <1>8

\* Some users have a first and a last.
LEMMA FirstAndLast ==
  ASSUME NEW S \in SUBSET Users, S # {}
  PROVE  /\ \E u \in S : \A v \in S : u <= v
         /\ \E u \in S : \A v \in S : v <= u
<1> DEFINE n == Cardinality(S)
<1>1. IsFiniteSet(S) /\ n \in Nat /\ S \subseteq Nat
  BY UserSets, Numbers
<1>2. n # 0
  BY <1>1, FS_EmptySet
<1>3. /\ \A u \in S : Rank(S, u) \in 0 .. n - 1
      /\ \A u, v \in S : u < v <=> Rank(S, u) < Rank(S, v)
      /\ \A k \in 0 .. n - 1 : \E u \in S : Rank(S, u) = k
  BY Ranks
<1> HIDE DEF n
<1>4. 0 \in 0 .. n - 1 /\ n - 1 \in 0 .. n - 1
  BY <1>1, <1>2
<1>5. PICK u \in S : Rank(S, u) = 0
  BY <1>3, <1>4
<1>6. PICK w \in S : Rank(S, w) = n - 1
  BY <1>3, <1>4
<1>7. ASSUME NEW v \in S PROVE u <= v /\ v <= w
  <2>1. Rank(S, v) \in 0 .. n - 1 /\ u \in Nat /\ v \in Nat /\ w \in Nat
    BY <1>1, <1>3
  <2>2. ~(Rank(S, v) < Rank(S, u)) /\ ~(Rank(S, w) < Rank(S, v))
    BY <1>1, <1>5, <1>6, <2>1
  <2>3. ~(v < u) /\ ~(w < v)
    BY <1>3, <2>2
  <2> QED
    BY <2>1, <2>3
<1> QED
  BY <1>7

\* The query always has a first page: there are that many rows, or all of them fit.
LEMMA PageExists ==
  ASSUME NEW S \in SUBSET Users, S # {}
  PROVE  \E batch \in SUBSET S, last \in S : Page(S, batch, last)
<1> DEFINE n == Cardinality(S)
           B == BatchSize
           batch == {u \in S : Rank(S, u) < B}
           rank == [u \in batch |-> Rank(S, u)]
<1>1. IsFiniteSet(S) /\ n \in Nat /\ S \subseteq Nat /\ B \in Nat \ {0} /\ n # 0
  BY UserSets, Numbers, FS_EmptySet
<1>2. /\ \A u \in S : Rank(S, u) \in 0 .. n - 1
      /\ \A u, v \in S : u < v <=> Rank(S, u) < Rank(S, v)
      /\ \A k \in 0 .. n - 1 : \E u \in S : Rank(S, u) = k
  BY Ranks
<1>3. IsFiniteSet(0 .. B - 1) /\ Cardinality(0 .. B - 1) = B
  <2> HIDE DEF B
  <2> QED
    BY <1>1, FS_Interval
<1> HIDE DEF n, B
<1>4. rank \in Injection(batch, 0 .. B - 1)
  <2>1. ASSUME NEW u \in batch PROVE Rank(S, u) \in 0 .. B - 1
    BY <1>1, <1>2
  <2>2. ASSUME NEW u \in batch, NEW v \in batch, rank[u] = rank[v] PROVE u = v
    <3>1. u \in Nat /\ v \in Nat /\ Rank(S, u) = Rank(S, v) /\ Rank(S, u) \in 0 .. B - 1
      BY <1>1, <2>1, <2>2
    <3>2. ~(u < v) /\ ~(v < u)
      BY <1>2, <3>1
    <3> QED
      BY <3>1, <3>2
  <2> QED
    BY <2>1, <2>2 DEF Injection, IsInjective
<1>5. /\ Cardinality(batch) <= B
      /\ Cardinality(batch) = B <=> rank \in Surjection(batch, 0 .. B - 1)
  BY <1>3, <1>4, FS_Injection
<1>6. Cardinality(batch) < B => batch = S
  <2>1. CASE n <= B
    <3>1. \A u \in S : Rank(S, u) < B
      BY <1>1, <1>2, <2>1
    <3> QED
      BY <3>1
  <2>2. CASE B < n
    <3>1. \A k \in 0 .. B - 1 : \E u \in batch : rank[u] = k
      BY <1>1, <1>2, <2>2
    <3>2. rank \in Surjection(batch, 0 .. B - 1)
      BY <1>4, <3>1 DEF Injection, Surjection
    <3> QED
      BY <1>1, <1>5, <3>2
  <2> QED
    BY <1>1, <2>1, <2>2
<1>7. ASSUME NEW u \in batch, NEW v \in S \ batch PROVE u < v
  <2>1. Rank(S, u) \in Nat /\ Rank(S, v) \in Nat /\ Rank(S, u) < B /\ ~(Rank(S, v) < B)
    BY <1>2
  <2>2. Rank(S, u) < Rank(S, v)
    BY <1>1, <2>1
  <2> QED
    BY <1>2, <2>2
<1>8. batch \in SUBSET Users /\ batch # {}
  <2>1. 0 \in 0 .. n - 1
    BY <1>1
  <2>2. PICK u \in S : Rank(S, u) = 0
    BY <1>2, <2>1
  <2>3. u \in batch
    BY <1>1, <2>2
  <2> QED
    BY <2>3
<1> HIDE DEF batch
<1>9. PICK last \in batch : \A u \in batch : u <= last
  BY <1>8, FirstAndLast
<1>10. batch \in SUBSET S
  BY DEF batch
<1>11. Page(S, batch, last)
  BY <1>5, <1>6, <1>7, <1>9 DEF Page, B
<1> QED
  BY <1>9, <1>10, <1>11

\* The guards of the actions of RunStep: what a run needs to go on.
CanStep(r) ==
  \/ run[r].phase = "feeding" /\ Cancelled(r)
  \/ /\ run[r].phase = "feeding" /\ feed[r].batch = {}
     /\ feed[r].more =>
          LET rows == {u \in Matching(r) : u > feed[r].last}
          IN rows = {} \/ \E batch \in SUBSET rows, last \in rows : Page(rows, batch, last)
  \/ /\ run[r].phase = "feeding"
     /\ \E u \in feed[r].batch : /\ \A v \in feed[r].batch : u <= v
                                 /\ Blank(r, u) \/ Len(queue[r]) < ChanCap
  \/ Cardinality(sending[r]) < PoolSize /\ queue[r] # <<>>
  \/ sending[r] # {}
  \/ run[r].phase = "closing" /\ Drained(r)
  \/ run[r].phase \in {"releasing", "cooling"}

\* No run waits for ever: neither the reader for room in the channel, nor the senders
\* for a job, nor the end of the run for the senders.
NeverStuck == \A r \in Runs : Live(r) => CanStep(r)

\* A channel that is full has a first message and a sender who is free to take it or
\* at work; an empty one has room for the least user of the batch.
LEMMA RunsCanStep == BroadcastTypeOK => NeverStuck
<1> SUFFICES ASSUME BroadcastTypeOK, NEW r \in Runs, Live(r) PROVE CanStep(r)
  BY DEF NeverStuck
<1>1. run[r].phase \in {"feeding", "closing", "releasing", "cooling"}
  BY RowFields DEF Live
<1>2. CASE queue[r] # <<>> /\ sending[r] = {}
  <2>1. Cardinality(sending[r]) = 0 /\ PoolSize \in Nat \ {0}
    BY <1>2, FS_EmptySet, BroadcastAssumption
  <2> QED
    BY <1>2, <2>1 DEF CanStep
<1>3. CASE Drained(r) /\ run[r].phase = "feeding" /\ ~Cancelled(r)
  <2>1. CASE feed[r].batch = {}
    <3> DEFINE rows == {u \in Matching(r) : u > feed[r].last}
    <3>1. rows \in SUBSET Users
      BY DEF Matching, BroadcastTypeOK
    <3> HIDE DEF rows
    <3>2. rows = {} \/ \E batch \in SUBSET rows, last \in rows : Page(rows, batch, last)
      BY <3>1, PageExists
    <3> QED
      BY <1>3, <2>1, <3>2 DEF CanStep, rows
  <2>2. CASE feed[r].batch # {}
    <3>1. feed[r].batch \in SUBSET Users
      BY OfOneRun
    <3>2. PICK u \in feed[r].batch : \A v \in feed[r].batch : u <= v
      BY <2>2, <3>1, FirstAndLast
    <3>3. Len(queue[r]) < ChanCap
      BY <1>3, Numbers DEF Drained
    <3> QED
      BY <1>3, <3>2, <3>3 DEF CanStep
  <2> QED
    BY <2>1, <2>2
<1> QED
  BY <1>1, <1>2, <1>3 DEF CanStep, Drained

\* Whatever its phase and however full its channel, a run that has started and not ended
\* has a next step: reader, channel and senders do not wait on each other.
THEOREM NobodyWaitsForEver == Spec => []NeverStuck
  BY BroadcastTypeCorrect, RunsCanStep, PTL

-----------------------------------------------------------------------------
\* What is left of a run: tokens, of which its every step takes one.
StepsOf(phase) ==
  CASE phase = "cooling" -> 4 [] phase = "feeding" -> 3 [] phase = "closing" -> 2
    [] phase = "releasing" -> 1 [] OTHER -> 0

\* The run has phases, and a reader that may find more; a user is read, passed on, taken,
\* and tried MaxAttempts times.
OwesRun(r, k) == k <= StepsOf(run[r].phase) \/ (k = 5 /\ feed[r].more)
OwesUser(r, u, k) ==
  \/ u > feed[r].last /\ k <= MaxAttempts + 3
  \/ u \in feed[r].batch /\ k <= MaxAttempts + 2
  \/ u \in InQueue(r) /\ k <= MaxAttempts + 1
  \/ \E job \in sending[r] : job.user = u /\ k + job.attempt <= MaxAttempts + 1
Owes(r, u, k) == (u = 0 /\ OwesRun(r, k)) \/ (u # 0 /\ OwesUser(r, u, k))

Tokens  == (0 .. LastUser) \X (1 .. MaxAttempts + 5)
Left(r) == {t \in Tokens : Owes(r, t[1], t[2])}

\* The tokens are finitely many.
LEMMA TokensFinite == \A r \in Runs : IsFiniteSet(Left(r))
<1>1. IsFiniteSet(0 .. LastUser) /\ IsFiniteSet(1 .. MaxAttempts + 5)
  BY Numbers, FS_Interval
<1>2. IsFiniteSet(Tokens)
  BY <1>1, FS_Product DEF Tokens
<1> QED
  BY <1>2, FS_Subset DEF Left

\* No token comes, and this one goes.
OneGoes(r, u, k) ==
  /\ u \in 0 .. LastUser /\ k \in 1 .. MaxAttempts + 5
  /\ Owes(r, u, k) /\ ~Owes(r, u, k)'
  /\ \A v \in 0 .. LastUser, m \in 1 .. MaxAttempts + 5 : Owes(r, v, m)' => Owes(r, v, m)

\* With no token more and one less, the set of them is a smaller one.
LEMMA FewerLeft ==
  ASSUME NEW r, NEW u, NEW k, OneGoes(r, u, k)
  PROVE  Left(r)' \subseteq Left(r) /\ Left(r)' # Left(r)
<1>1. <<u, k>> \in Left(r) /\ <<u, k>> \notin Left(r)'
  BY DEF OneGoes, Left, Tokens
<1>2. ASSUME NEW t \in Left(r)' PROVE t \in Left(r)
  BY DEF OneGoes, Left, Tokens
<1> QED
  BY <1>1, <1>2

\* Users are positive numbers, and nobody is in two places of a run.
LEMMA WhereUsersAre ==
  ASSUME PassInv, NEW r \in Runs, run[r] # NULL, ~Cooling(r)
  PROVE  /\ MaxAttempts \in Nat \ {0} /\ LastUser \in Nat
         /\ feed[r].last \in 0 .. LastUser
         /\ \A u \in feed[r].batch \cup InQueue(r) \cup Holding(r) :
               u \in 1 .. LastUser /\ ~(u > feed[r].last)
         /\ feed[r].batch \cap (InQueue(r) \cup Holding(r)) = {}
         /\ InQueue(r) \cap Holding(r) = {}
         /\ \A j, k \in sending[r] : j.user = k.user => j = k
<1>0. BroadcastTypeOK /\ PassOf(r)
  BY DEF PassInv, RunInv
<1>1. OncePerPass(r) /\ BatchIsRead(r)
  BY <1>0 DEF PassOf
<1>2. /\ feed[r].last \in 0 .. LastUser /\ feed[r].batch \subseteq Users
      /\ InQueue(r) \subseteq Users /\ Holding(r) \subseteq Users
  BY <1>0, OfOneRun
<1>3. ASSUME NEW u \in InQueue(r) \cup Holding(r)
      PROVE  u \in Users /\ ~(u > feed[r].last) /\ u \notin feed[r].batch
  BY <1>1, <1>2, <1>3 DEF OncePerPass, Ahead
<1>4. ASSUME NEW u \in feed[r].batch PROVE u \in Users /\ ~(u > feed[r].last)
  <2>1. u \in Users /\ u <= feed[r].last
    BY <1>1, <1>2 DEF BatchIsRead
  <2>2. u \in Nat /\ feed[r].last \in Nat
    BY <1>2, <2>1, Numbers
  <2> QED
    BY <2>1, <2>2
<1>5. MaxAttempts \in Nat \ {0} /\ LastUser \in Nat
  BY Numbers
<1> QED
  BY <1>1, <1>2, <1>3, <1>4, <1>5 DEF OncePerPass, Users

\* A step that only changes the phase takes the token of the old one.
LEMMA PhaseTakes ==
  ASSUME BroadcastTypeOK, NEW r \in Runs, run[r] # NULL,
         UNCHANGED <<feed, queue, sending>>,
         StepsOf(run[r].phase) \in 1 .. 4, StepsOf(run'[r].phase) \in 0 .. 4,
         StepsOf(run'[r].phase) < StepsOf(run[r].phase)
  PROVE  \E u, k : OneGoes(r, u, k)
<1>0. PICK k \in 1 .. 4 : k = StepsOf(run[r].phase)
  OBVIOUS
<1>1. \A u, m : OwesUser(r, u, m)' <=> OwesUser(r, u, m)
  BY DEF OwesUser, InQueue, Members
<1>2. \A m \in Nat : OwesRun(r, m)' => OwesRun(r, m)
  BY DEF OwesRun
<1>3. OwesRun(r, k) /\ ~OwesRun(r, k)'
  BY <1>0 DEF OwesRun
<1>4. 0 \in 0 .. LastUser /\ k \in 1 .. MaxAttempts + 5
  BY Numbers
<1>5. \A m \in 1 .. MaxAttempts + 5 : m \in Nat
  BY Numbers
<1>6. OneGoes(r, 0, k)
  BY <1>1, <1>2, <1>3, <1>4, <1>5 DEF OneGoes, Owes
<1> QED
  BY <1>6

\* A query that finds nobody ends the reading; else the last user of the page is no longer
\* ahead, and nobody comes to be.
LEMMA FetchTakes ==
  ASSUME PassInv, NEW r \in Runs, FetchBatch(r)
  PROVE  \E u, k : OneGoes(r, u, k)
<1>0. BroadcastTypeOK /\ run[r] # NULL /\ ~Cooling(r)
  BY DEF PassInv, FetchBatch, Live, Cooling
<1>t. feed \in [Runs -> Feeds] /\ UNCHANGED <<run, queue, sending>>
  BY <1>0, TypeParts DEF OthersTyped, FetchBatch
<1>w. /\ MaxAttempts \in Nat \ {0} /\ LastUser \in Nat /\ feed[r].last \in 0 .. LastUser
      /\ \A u \in feed[r].batch \cup InQueue(r) \cup Holding(r) :
            u \in 1 .. LastUser /\ ~(u > feed[r].last)
  BY <1>0, WhereUsersAre
<1>q. InQueue(r)' = InQueue(r) /\ feed[r].more /\ feed[r].batch = {}
      /\ StepsOf(run[r].phase) = 3
  BY <1>t DEF InQueue, FetchBatch, StepsOf
<1> DEFINE rows == {u \in Matching(r) : u > feed[r].last}
<1>1. CASE feed' = [feed EXCEPT ![r] = [feed[r] EXCEPT !.more = FALSE]]
  <2>1. feed'[r] = [feed[r] EXCEPT !.more = FALSE] /\ feed[r] \in Feeds
    BY <1>t, <1>1
  <2>2. feed'[r].last = feed[r].last /\ feed'[r].batch = feed[r].batch /\ ~feed'[r].more
    BY <2>1 DEF Feeds
  <2>3. \A u, m : OwesUser(r, u, m)' <=> OwesUser(r, u, m)
    BY <1>t, <1>q, <2>2 DEF OwesUser
  <2>4. OwesRun(r, 5) /\ ~OwesRun(r, 5)' /\ \A m : OwesRun(r, m)' => OwesRun(r, m)
    BY <1>t, <1>q, <2>2 DEF OwesRun
  <2>5. 0 \in 0 .. LastUser /\ 5 \in 1 .. MaxAttempts + 5
    BY <1>w
  <2>6. OneGoes(r, 0, 5)
    BY <2>3, <2>4, <2>5 DEF OneGoes, Owes
  <2> QED
    BY <2>6
<1>2. ASSUME NEW batch \in SUBSET rows, NEW last \in rows, Page(rows, batch, last),
             feed' = [feed EXCEPT ![r] = [last |-> last, batch |-> batch,
                                          more |-> Cardinality(batch) = BatchSize]]
      PROVE  \E u, k : OneGoes(r, u, k)
  <2>1. feed'[r].last = last /\ feed'[r].batch = batch
    BY <1>t, <1>2
  <2>2. last \in Users /\ last > feed[r].last /\ \A u \in batch : u \in Users /\ u > feed[r].last
    BY <1>0 DEF Matching, BroadcastTypeOK
  <2>3. last \in 1 .. LastUser /\ last # 0
    BY <1>w, <2>2 DEF Users
  <2>4. ASSUME NEW u \in 1 .. LastUser, NEW m \in Nat, OwesUser(r, u, m)' PROVE OwesUser(r, u, m)
    <3>1. u > last => u > feed[r].last
      BY <1>w, <2>2, <2>3
    <3>2. m <= MaxAttempts + 2 => m <= MaxAttempts + 3
      BY <1>w
    <3> QED
      BY <1>t, <1>q, <2>1, <2>2, <2>4, <3>1, <3>2 DEF OwesUser
  <2>5. OwesUser(r, last, MaxAttempts + 3)
    BY <1>w, <2>2 DEF OwesUser
  <2>6. ~OwesUser(r, last, MaxAttempts + 3)'
    <3>1. ~(last > last) /\ ~(MaxAttempts + 3 <= MaxAttempts + 2) /\ ~(MaxAttempts + 3 <= MaxAttempts + 1)
      BY <1>w, <2>3
    <3>2. last \notin Holding(r)
      BY <1>w, <2>2
    <3>3. \A job \in sending[r] : job.user # last
      BY <3>2 DEF Holding
    <3> QED
      BY <1>t, <2>1, <3>1, <3>3 DEF OwesUser
  <2>7. \A m : OwesRun(r, m)' => OwesRun(r, m)
    BY <1>t, <1>q DEF OwesRun
  <2>8. last \in 0 .. LastUser /\ MaxAttempts + 3 \in 1 .. MaxAttempts + 5
    BY <1>w, <2>3
  <2>9. \A m \in 1 .. MaxAttempts + 5 : m \in Nat
    BY <1>w
  <2>10. \A u \in 0 .. LastUser : u # 0 => u \in 1 .. LastUser
    BY <1>w
  <2>11. OneGoes(r, last, MaxAttempts + 3)
    BY <2>3, <2>4, <2>5, <2>6, <2>7, <2>8, <2>9, <2>10 DEF OneGoes, Owes
  <2> QED
    BY <2>11
<1> QED
  BY <1>1, <1>2 DEF FetchBatch

\* The user passed on, or skipped, is out of the batch.
LEMMA FeedTakes ==
  ASSUME PassInv, NEW r \in Runs, Feed(r)
  PROVE  \E u, k : OneGoes(r, u, k)
<1>0. BroadcastTypeOK /\ run[r] # NULL /\ ~Cooling(r)
  BY DEF PassInv, Feed, Live, Cooling
<1>t. /\ feed \in [Runs -> Feeds] /\ queue \in [Runs -> Seq(Users)]
      /\ UNCHANGED <<run, sending>>
  BY <1>0, TypeParts DEF OthersTyped, Feed
<1>w. /\ MaxAttempts \in Nat \ {0} /\ LastUser \in Nat
      /\ \A u \in feed[r].batch : /\ u \in 1 .. LastUser /\ ~(u > feed[r].last)
                                  /\ u \notin InQueue(r) /\ u \notin Holding(r)
  BY <1>0, WhereUsersAre
<1>1. PICK u \in feed[r].batch :
        /\ feed' = [feed EXCEPT ![r] = [feed[r] EXCEPT !.batch = feed[r].batch \ {u}]]
        /\ \/ UNCHANGED queue
           \/ queue' = [queue EXCEPT ![r] = Append(queue[r], u)]
  BY DEF Feed
<1>2. /\ feed'[r].last = feed[r].last /\ feed'[r].batch = feed[r].batch \ {u}
      /\ feed'[r].more = feed[r].more
  <2>1. feed'[r] = [feed[r] EXCEPT !.batch = feed[r].batch \ {u}] /\ feed[r] \in Feeds
    BY <1>t, <1>1
  <2> QED
    BY <2>1 DEF Feeds
<1>3. InQueue(r)' \subseteq InQueue(r) \cup {u}
  <2>1. CASE UNCHANGED queue
    BY <2>1 DEF InQueue
  <2>2. CASE queue' = [queue EXCEPT ![r] = Append(queue[r], u)]
    <3>1. queue'[r] = Append(queue[r], u) /\ queue[r] \in Seq(Users)
      BY <1>t, <2>2
    <3>2. \A i \in 1 .. Len(queue'[r]) : queue'[r][i] = u \/ queue'[r][i] \in InQueue(r)
      BY <3>1 DEF InQueue, Members
    <3> QED
      BY <3>2 DEF InQueue, Members
  <2> QED
    BY <1>1, <2>1, <2>2
<1>4. ASSUME NEW v, NEW m \in Nat, OwesUser(r, v, m)' PROVE OwesUser(r, v, m)
  <2>1. m <= MaxAttempts + 1 => m <= MaxAttempts + 2
    BY <1>w
  <2> QED
    BY <1>t, <1>1, <1>2, <1>3, <1>4, <2>1 DEF OwesUser
<1>5. OwesUser(r, u, MaxAttempts + 2)
  BY <1>w DEF OwesUser
<1>6. ~OwesUser(r, u, MaxAttempts + 2)'
  <2>1. ~(MaxAttempts + 2 <= MaxAttempts + 1) /\ \A job \in sending[r] : job.user # u
    BY <1>w DEF Holding
  <2> QED
    BY <1>t, <1>w, <1>2, <2>1 DEF OwesUser
<1>7. \A m : OwesRun(r, m)' => OwesRun(r, m)
  BY <1>t, <1>2 DEF OwesRun
<1>8. u \in 0 .. LastUser /\ u # 0 /\ MaxAttempts + 2 \in 1 .. MaxAttempts + 5
  BY <1>w
<1>9. \A m \in 1 .. MaxAttempts + 5 : m \in Nat
  BY <1>w
<1>10. OneGoes(r, u, MaxAttempts + 2)
  BY <1>4, <1>5, <1>6, <1>7, <1>8, <1>9 DEF OneGoes, Owes
<1> QED
  BY <1>10

\* The first of the channel leaves it, and is held for its first attempt at most.
LEMMA TakeTakes ==
  ASSUME PassInv, NEW r \in Runs, Take(r)
  PROVE  \E u, k : OneGoes(r, u, k)
<1>u. /\ BroadcastTypeOK /\ queue[r] # <<>>
      /\ queue' = [queue EXCEPT ![r] = Tail(queue[r])]
      /\ UNCHANGED <<run, feed>>
  BY DEF PassInv, Take
<1>0. run[r] # NULL /\ PassOf(r)
  BY <1>u DEF PassInv, RunInv, Unused, Empty, Drained
<1>c. ~Cooling(r)
  BY <1>0, <1>u DEF PassOf, Rests, Empty, Drained
<1>s. queue \in [Runs -> Seq(Users)] /\ sending \in [Runs -> SUBSET Jobs]
  BY <1>u, TypeParts DEF OthersTyped
<1>w. /\ MaxAttempts \in Nat \ {0} /\ LastUser \in Nat
      /\ \A u \in InQueue(r) : /\ u \in 1 .. LastUser /\ ~(u > feed[r].last)
                               /\ u \notin feed[r].batch /\ u \notin Holding(r)
  BY <1>0, <1>c, WhereUsersAre
<1>1. PICK h : h = Head(queue[r])
  OBVIOUS
<1>2. h \in InQueue(r) /\ InQueue(r)' = InQueue(r) \ {h}
  <2>1. queue[r] \in Seq(Users) /\ NoRepeats(queue[r]) /\ queue'[r] = Tail(queue[r])
    BY <1>0, <1>u, <1>s DEF PassOf, OncePerPass
  <2>2. h \in Members(queue[r]) /\ Members(queue'[r]) = Members(queue[r]) \ {h}
    BY <1>u, <1>1, <2>1, TailOne
  <2> QED
    BY <2>2 DEF InQueue
<1>3. \A job \in sending'[r] : job \in sending[r] \/ (job.user = h /\ job.attempt = 1)
  BY <1>1, <1>s DEF Take
<1>4. ASSUME NEW v, NEW m \in Nat, OwesUser(r, v, m)' PROVE OwesUser(r, v, m)
  <2>1. m + 1 <= MaxAttempts + 1 => m <= MaxAttempts + 1
    BY <1>w
  <2> QED
    BY <1>u, <1>2, <1>3, <1>4, <2>1 DEF OwesUser
<1>5. OwesUser(r, h, MaxAttempts + 1)
  BY <1>w, <1>2 DEF OwesUser
<1>6. ~OwesUser(r, h, MaxAttempts + 1)'
  <2>1. ~(MaxAttempts + 1 + 1 <= MaxAttempts + 1)
    BY <1>w
  <2>2. \A job \in sending'[r] : job.user = h => job.attempt = 1
    BY <1>w, <1>2, <1>3 DEF Holding
  <2> QED
    BY <1>u, <1>w, <1>2, <2>1, <2>2 DEF OwesUser
<1>7. \A m : OwesRun(r, m)' => OwesRun(r, m)
  BY <1>u DEF OwesRun
<1>8. h \in 0 .. LastUser /\ h # 0 /\ MaxAttempts + 1 \in 1 .. MaxAttempts + 5
  BY <1>w, <1>2
<1>9. \A m \in 1 .. MaxAttempts + 5 : m \in Nat
  BY <1>w
<1>10. OneGoes(r, h, MaxAttempts + 1)
  BY <1>4, <1>5, <1>6, <1>7, <1>8, <1>9 DEF OneGoes, Owes
<1> QED
  BY <1>10

\* A send is the last one of its user or leaves one attempt less.
LEMMA SendTakes ==
  ASSUME PassInv, NEW r \in Runs, NEW job \in sending[r], NEW answer \in Answers,
         Send(r, job, answer)
  PROVE  \E u, k : OneGoes(r, u, k)
<1>u. BroadcastTypeOK /\ UNCHANGED <<run, feed, queue>>
  BY DEF PassInv, Send
<1>0. run[r] # NULL /\ PassOf(r)
  BY <1>u DEF PassInv, RunInv, Unused, Empty, Drained
<1>c. ~Cooling(r)
  BY <1>0, <1>u DEF PassOf, Rests, Empty, Drained
<1>s. sending \in [Runs -> SUBSET Jobs] /\ job \in Jobs
  BY <1>u, TypeParts DEF OthersTyped
<1>w. /\ MaxAttempts \in Nat \ {0} /\ LastUser \in Nat
      /\ \A u \in Holding(r) : /\ u \in 1 .. LastUser /\ ~(u > feed[r].last)
                               /\ u \notin feed[r].batch /\ u \notin InQueue(r)
      /\ \A j, k \in sending[r] : j.user = k.user => j = k
  BY <1>0, <1>c, WhereUsersAre
<1>1. InQueue(r)' = InQueue(r)
  BY <1>u DEF InQueue
<1>2. PICK a \in 1 .. MaxAttempts : a = job.attempt
  BY <1>s DEF Jobs
<1>3. PICK u \in 1 .. LastUser : u = job.user
  BY <1>w DEF Holding
<1>4. \A other \in sending'[r] :
         \/ other \in sending[r] /\ other # job
         \/ other.user = u /\ other.attempt = a + 1
  <2> DEFINE again == Retries(answer, job.attempt) /\ ~Cancelled(r)
             next == [job EXCEPT !.attempt = job.attempt + 1]
  <2>1. sending'[r] \subseteq (sending[r] \ {job}) \cup {next}
    BY <1>s DEF Send
  <2>2. next.user = u /\ next.attempt = a + 1
    BY <1>s, <1>2, <1>3 DEF Jobs
  <2> HIDE DEF next
  <2> QED
    BY <2>1, <2>2
<1>5. ASSUME NEW v, NEW m \in Nat, OwesUser(r, v, m)' PROVE OwesUser(r, v, m)
  <2>1. m + (a + 1) <= MaxAttempts + 1 => m + a <= MaxAttempts + 1
    BY <1>w
  <2> QED
    BY <1>u, <1>1, <1>2, <1>3, <1>4, <1>5, <2>1 DEF OwesUser
<1>6. PICK k \in Nat : k = MaxAttempts + 1 - a
  BY <1>w
<1>7. OwesUser(r, u, k)
  <2>1. k + a <= MaxAttempts + 1
    BY <1>w, <1>6
  <2> QED
    BY <1>2, <1>3, <2>1 DEF OwesUser
<1>8. ~OwesUser(r, u, k)'
  <2>1. ~(k + (a + 1) <= MaxAttempts + 1)
    BY <1>w, <1>6
  <2>2. u \in Holding(r)
    BY <1>3 DEF Holding
  <2>3. \A other \in sending'[r] : other.user = u => other.attempt = a + 1
    BY <1>w, <1>3, <1>4
  <2> QED
    BY <1>u, <1>w, <1>1, <2>1, <2>2, <2>3 DEF OwesUser
<1>9. \A m : OwesRun(r, m)' => OwesRun(r, m)
  BY <1>u DEF OwesRun
<1>10. u \in 0 .. LastUser /\ u # 0 /\ k \in 1 .. MaxAttempts + 5
  BY <1>w, <1>6
<1>11. \A m \in 1 .. MaxAttempts + 5 : m \in Nat
  BY <1>w
<1>12. OneGoes(r, u, k)
  BY <1>5, <1>7, <1>8, <1>9, <1>10, <1>11 DEF OneGoes, Owes
<1> QED
  BY <1>12

\* Every step of a run that does not end it takes a token.
LEMMA RunStepTakes ==
  ASSUME PassInv, NEW r \in Runs, RunStep(r), Live(r), Live(r)'
  PROVE  /\ faults' = faults
         /\ Left(r)' \subseteq Left(r) /\ Left(r)' # Left(r)
<1>0. BroadcastTypeOK /\ run \in [Runs -> RunRows \cup {NULL}] /\ run[r] \in RunRows /\ run[r] # NULL
  BY RowFields DEF PassInv, BroadcastTypeOK, Live
<1>1. ~Release(r)
  <2> SUFFICES ASSUME Release(r) PROVE ~Live(r)'
    OBVIOUS
  <2>1. run'[r] = [run[r] EXCEPT !.phase = "over"]
    BY <1>0 DEF Release
  <2> QED
    BY <1>0, <2>1 DEF Live, RunRows
<1>2. ASSUME EndOfUsers(r) \/ StopFeeding(r) \/ Finish(r) \/ Restart(r)
      PROVE  faults' = faults /\ \E u, k : OneGoes(r, u, k)
  <2>1. faults' = faults /\ UNCHANGED <<feed, queue, sending>>
    BY <1>2 DEF EndOfUsers, StopFeeding, CloseChannel, Finish, Restart, jobVars
  <2>2. CASE EndOfUsers(r) \/ StopFeeding(r)
    <3>1. PICK why : run' = [run EXCEPT ![r] = [run[r] EXCEPT !.phase = "closing", !.stop = why]]
      BY <2>2 DEF EndOfUsers, StopFeeding, CloseChannel
    <3>2. run'[r].phase = "closing" /\ run[r].phase = "feeding"
      BY <1>0, <2>2, <3>1 DEF EndOfUsers, StopFeeding, CloseChannel, RunRows
    <3>3. StepsOf(run'[r].phase) = 2 /\ StepsOf(run[r].phase) = 3
      BY <3>2 DEF StepsOf
    <3> QED
      BY <1>0, <2>1, <3>3, PhaseTakes
  <2>3. CASE Finish(r)
    <3>1. run'[r].phase = "releasing" /\ run[r].phase = "closing"
      BY <1>0, <2>3 DEF Finish, RunRows
    <3>2. StepsOf(run'[r].phase) = 1 /\ StepsOf(run[r].phase) = 2
      BY <3>1 DEF StepsOf
    <3> QED
      BY <1>0, <2>1, <3>2, PhaseTakes
  <2>4. CASE Restart(r)
    <3>1. run'[r].phase = "feeding" /\ run[r].phase = "cooling"
      BY <1>0, <2>4 DEF Restart, RunRows
    <3>2. StepsOf(run'[r].phase) = 3 /\ StepsOf(run[r].phase) = 4
      BY <3>1 DEF StepsOf
    <3> QED
      BY <1>0, <2>1, <3>2, PhaseTakes
  <2> QED
    BY <1>2, <2>2, <2>3, <2>4
<1>3. FetchBatch(r) \/ Feed(r) \/ Take(r) => faults' = faults /\ \E u, k : OneGoes(r, u, k)
  BY FetchTakes, FeedTakes, TakeTakes DEF FetchBatch, Feed, Take
<1>4. ASSUME NEW job \in sending[r], NEW answer \in Answers, Send(r, job, answer)
      PROVE  faults' = faults /\ \E u, k : OneGoes(r, u, k)
  BY <1>4, SendTakes DEF Send
<1>5. faults' = faults /\ \E u, k : OneGoes(r, u, k)
  BY <1>1, <1>2, <1>3, <1>4 DEF RunStep
<1> QED
  BY <1>5, FewerLeft

\* A step of anybody else gives a run no token, unless it is a fault.
LEMMA OthersGiveNone ==
  ASSUME PassInv, [Next]_vars, NEW r \in Runs, ~RunStep(r), Live(r), Live(r)'
  PROVE  faults' > faults \/ (faults' = faults /\ Left(r)' = Left(r))
<1>0. /\ BroadcastTypeOK /\ run \in [Runs -> RunRows \cup {NULL}]
      /\ run[r] \in RunRows /\ run[r] # NULL /\ faults \in Nat
  BY RowFields, Numbers DEF PassInv, BroadcastTypeOK, Live
<1>1. ASSUME feed'[r] = feed[r], queue'[r] = queue[r], sending'[r] = sending[r],
             run'[r].phase = run[r].phase
      PROVE  Left(r)' = Left(r)
  <2>1. InQueue(r)' = InQueue(r)
    BY <1>1 DEF InQueue
  <2>2. \A u, k : Owes(r, u, k)' <=> Owes(r, u, k)
    BY <1>1, <2>1 DEF Owes, OwesRun, OwesUser
  <2> QED
    BY <2>2 DEF Left
<1>2. Fault => faults' > faults
  BY <1>0 DEF Fault
<1>3. ASSUME NEW q \in Runs, RunStep(q) PROVE faults' > faults \/ (faults' = faults /\ Left(r)' = Left(r))
  <2>1. q # r
    BY <1>3
  <2>2. CASE Release(q)
    <3>1. run'[r] = run[r] /\ feed'[r] = feed[r] /\ queue'[r] = queue[r] /\ sending'[r] = sending[r]
      BY <1>0, <2>1, <2>2 DEF Release, Forget
    <3>2. faults' = faults \/ Fault
      BY <2>2 DEF Release
    <3> QED
      BY <1>1, <1>2, <3>1, <3>2
  <2>3. CASE ~Release(q)
    <3>1. SameRun(r)
      BY <1>3, <2>1, <2>3, OthersAlone
    <3>2. faults' = faults
      BY <1>3, <2>3 DEF RunStep, FetchBatch, Feed, EndOfUsers, StopFeeding, Take, Send, Finish, Restart
    <3> QED
      BY <1>1, <3>1, <3>2 DEF SameRun
  <2> QED
    BY <2>2, <2>3
<1>4. ASSUME NEW q \in Runs, NEW c \in Campaigns, Start(q, c)
      PROVE  faults' > faults \/ (faults' = faults /\ Left(r)' = Left(r))
  <2>1. q # r
    <3>1. q \notin Started
      BY <1>4 DEF Start, Runs
    <3> QED
      BY <1>0, <3>1 DEF Started
  <2>2. SameRun(r)
    BY <1>4, <2>1, OthersAlone
  <2>3. faults' = faults \/ Fault
    BY <1>4 DEF Start, TakeLock, LockFails
  <2> QED
    BY <1>1, <1>2, <2>2, <2>3 DEF SameRun
<1>5. ASSUME NEW q \in Runs, FetchFails(q) \/ Panic(q) PROVE faults' > faults
  BY <1>2, <1>5 DEF FetchFails, Panic
<1>6. ASSUME NEW q \in Runs, Deadline(q) PROVE faults' = faults /\ Left(r)' = Left(r)
  <2>1. run'[r].phase = run[r].phase
    BY <1>0, <1>6 DEF Deadline, RunRows
  <2> QED
    BY <1>1, <1>6, <2>1 DEF Deadline, jobVars
<1>7. CASE Shutdown
  <2>1. run'[r].phase = run[r].phase
    BY <1>0, <1>7 DEF Shutdown, RunRows
  <2> QED
    BY <1>1, <1>7, <2>1 DEF Shutdown, jobVars
<1>8. CASE Crash
  BY <1>2, <1>8 DEF Crash
<1>9. ASSUME UNCHANGED <<run, jobVars, faults>> PROVE faults' = faults /\ Left(r)' = Left(r)
  BY <1>1, <1>9 DEF jobVars
<1> QED
  BY <1>3, <1>4, <1>5, <1>6, <1>7, <1>8, <1>9 DEF Next, LockExpires, SetEligible, vars

\* While a run goes on nothing gives it new work but a fault, and each of its own steps
\* takes some of what is left.
RunsDown ==
  [][\A r \in Runs : Live(r) /\ Live(r)' =>
       \/ faults' > faults
       \/ /\ faults' = faults /\ Left(r)' \subseteq Left(r)
          /\ RunStep(r) => Left(r)' # Left(r)]_vars

\* A started run can take but finitely many steps: what is left of it is a finite set that
\* each of them makes smaller, and the faults that could add to it are bounded.
THEOREM EveryStepIsOneLess == Spec => RunsDown
<1> DEFINE Down ==
      \A r \in Runs : Live(r) /\ Live(r)' =>
        \/ faults' > faults
        \/ /\ faults' = faults /\ Left(r)' \subseteq Left(r)
           /\ RunStep(r) => Left(r)' # Left(r)
<1>1. PassInv /\ [Next]_vars => [Down]_vars
  BY RunStepTakes, OthersGiveNone
<1> QED
  BY <1>1, PassInit, PassStep, PTL DEF Spec, RunsDown
=============================================================================
