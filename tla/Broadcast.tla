----------------------------- MODULE Broadcast -----------------------------
(***************************************************************************)
(* One message to many users: the bot's broadcast of an admin's message    *)
(* and the REST API's broadcast of a text.  Both take a lock in Redis, run *)
(* under Supervise, read the users in batches by primary key and pass them *)
(* through a channel to a pool of senders, and release the lock at the     *)
(* end.  They differ in the lock's key, in who releases it and in the rows *)
(* they read.                                                              *)
(***************************************************************************)
EXTENDS Integers, Sequences, FiniteSets

CONSTANTS
  LastUser,      \* users are numbered in the order of their primary keys
  BotCampaigns,  \* messages an admin broadcasts from the bot
  ApiCampaigns,  \* texts posted to the REST API
  Audience,      \* of each: the users its language segment or text addresses
  ApiKey,        \* the API's one lock; a bot campaign has its own
  MaxRuns,       \* bound on the runs, numbered in the order in which they start
  PoolSize,      \* senders of a run
  ChanCap,       \* capacity of the channel
  BatchSize,
  MaxAttempts,   \* sends per user
  MaxKeys,       \* bound on the keys in use: runs of different keys share nothing
  MaxBusy,       \* bound on the runs at a time that have somebody to address
  MaxFaults,     \* bound on failed statements, panics and crashes
  NULL

Users     == 1 .. LastUser
Runs      == 1 .. MaxRuns
Campaigns == BotCampaigns \cup ApiCampaigns
Keys      == BotCampaigns \cup {ApiKey}

RunRows == [campaign : Campaigns, locked : BOOLEAN, restarts : Nat,
            phase : {"feeding", "closing", "releasing", "cooling", "over", "killed"},
            stop : {"none", "deadline", "shutdown", "error"}]

ASSUME BroadcastAssumption ==
  /\ LastUser \in Nat /\ Audience \in [Campaigns -> SUBSET Users]
  /\ BotCampaigns \cap ApiCampaigns = {} /\ ApiKey \notin Campaigns
  /\ MaxRuns \in Nat /\ NULL \notin Runs \cup RunRows
  /\ {PoolSize, ChanCap, BatchSize, MaxAttempts} \subseteq Nat \ {0}
  /\ MaxKeys \in Nat /\ MaxBusy \in Nat /\ MaxFaults \in Nat

VARIABLES
  eligible,  \* users not banned, not deleted, and who have not blocked the bot
  lock,      \* of each key: NULL, or the run whose SetNX wrote it
  run,       \* of each run: how it stands, NULL before it starts
  feed,      \* what its FindInBatches has read and not yet passed on
  queue,     \* its channel
  sending,   \* the jobs its senders hold
  count,     \* its two counters
  faults,
  fed,       \* history: users passed to the channel since the run (re)started
  due,       \* history: addressed users eligible ever since then
  copies     \* history: messages each user got from the run

jobVars == <<feed, queue, sending, count>>
history == <<fed, due, copies>>
vars    == <<eligible, lock, run, jobVars, faults, history>>

KeyOf(c)  == IF c \in BotCampaigns THEN c ELSE ApiKey
Started   == {r \in Runs : run[r] # NULL}
Live(r)   == run[r] # NULL /\ run[r].phase \notin {"over", "killed"}
Cancelled(r) == run[r].stop \in {"deadline", "shutdown"}
Fault     == faults < MaxFaults /\ faults' = faults + 1

NoFeed    == [last |-> 0, batch |-> {}, more |-> TRUE]
NoCopies  == [u \in Users |-> 0]
NoCount   == [sent |-> 0, failed |-> 0]

Init ==
  /\ eligible \in SUBSET Users
  /\ lock = [k \in Keys |-> NULL]
  /\ run = [r \in Runs |-> NULL]
  /\ feed = [r \in Runs |-> NoFeed]
  /\ queue = [r \in Runs |-> <<>>]
  /\ sending = [r \in Runs |-> {}]
  /\ count = [r \in Runs |-> NoCount]
  /\ faults = 0
  /\ fed = [r \in Runs |-> {}]
  /\ due = [r \in Runs |-> {}]
  /\ copies = [r \in Runs |-> NoCopies]

(***************************************************************************)
(* Start and lock.  A second start finds the lock and is refused.  When    *)
(* SetNX fails both handlers go on without the lock, whether or not Redis  *)
(* has executed it.                                                        *)
(***************************************************************************)
TakeLock(r, k) ==
  /\ lock[k] = NULL
  /\ lock' = [lock EXCEPT ![k] = r]
  /\ UNCHANGED faults

LockFails(r, k) ==
  /\ Fault
  /\ lock' \in {lock, [lock EXCEPT ![k] = IF @ = NULL THEN r ELSE @]}

\* The locals of a run go with it, and what the history needs of it.
Forget(ended) ==
  /\ feed' = [r \in Runs |-> IF r \in ended THEN NoFeed ELSE feed[r]]
  /\ queue' = [r \in Runs |-> IF r \in ended THEN <<>> ELSE queue[r]]
  /\ sending' = [r \in Runs |-> IF r \in ended THEN {} ELSE sending[r]]
  /\ count' = [r \in Runs |-> IF r \in ended THEN NoCount ELSE count[r]]
  /\ fed' = [r \in Runs |-> IF r \in ended THEN {} ELSE fed[r]]
  /\ due' = [r \in Runs |-> IF r \in ended THEN {} ELSE due[r]]
  /\ copies' = [r \in Runs |-> IF r \in ended THEN NoCopies ELSE copies[r]]

Start(r, c) ==
  /\ Started = 1 .. r - 1
  /\ Cardinality({KeyOf(run[q].campaign) : q \in Started} \cup {KeyOf(c)}) <= MaxKeys
  /\ Audience[c] # {} => Cardinality({q \in Runs : Live(q) /\ Audience[run[q].campaign] # {}}) < MaxBusy
  /\ \E locked \in BOOLEAN :
       /\ IF locked THEN TakeLock(r, KeyOf(c)) ELSE LockFails(r, KeyOf(c))
       /\ run' = [run EXCEPT ![r] = [campaign |-> c, locked |-> locked, phase |-> "feeding",
                                     stop |-> "none", restarts |-> 0]]
  /\ due' = [due EXCEPT ![r] = Audience[c] \cap eligible]
  /\ UNCHANGED <<eligible, jobVars, fed, copies>>

ReleasesAlways(r) == TRUE   \* mutant: a run that took no lock releases one
\* The bot's deferred DEL is unconditional, the API's is not.
Releases(r) == run[r].campaign \in BotCampaigns \/ run[r].locked

\* The lock of a run that ended without releasing it, or that a restart gave another
\* 24 hours.  A run's own 24 hours begin a moment after those of its lock; that
\* moment is left out.
LockExpires(k) ==
  /\ lock[k] # NULL
  /\ LET r == lock[k] IN ~Live(r) \/ ~run[r].locked \/ run[r].restarts > 0
  /\ lock' = [lock EXCEPT ![k] = NULL]
  /\ UNCHANGED <<eligible, run, jobVars, faults, history>>

(***************************************************************************)
(* The reader of users.                                                    *)
(***************************************************************************)
\* The bot's query has the language segment, the API's loop skips users for whom
\* it has no text.
Matching(r) == IF run[r].campaign \in BotCampaigns THEN Audience[run[r].campaign] \cap eligible ELSE eligible
BlankOrFull(r, u) ==   \* mutant: a full channel is not waited for
  u \notin Audience[run[r].campaign] \/ Len(queue[r]) = ChanCap
Blank(r, u) == u \notin Audience[run[r].campaign]

\* The first BatchSize rows, in the order of the key, and the key of the last of them.
Page(rows, batch, last) ==
  /\ \A u \in batch, v \in rows \ batch : u < v
  /\ Cardinality(batch) <= BatchSize
  /\ Cardinality(batch) < BatchSize => batch = rows
  /\ last \in batch /\ \A u \in batch : u <= last

FetchBatch(r) ==
  /\ Live(r) /\ run[r].phase = "feeding" /\ ~Cancelled(r)
  /\ feed[r].batch = {} /\ feed[r].more
  /\ LET rows == {u \in Matching(r) : u > feed[r].last}
     IN \/ /\ rows = {}
           /\ feed' = [feed EXCEPT ![r] = [feed[r] EXCEPT !.more = FALSE]]
        \/ \E batch \in SUBSET rows, last \in rows :
             /\ Page(rows, batch, last)
             /\ feed' = [feed EXCEPT ![r] =
                  [last |-> last, batch |-> batch, more |-> Cardinality(batch) = BatchSize]]
  /\ UNCHANGED <<eligible, lock, run, queue, sending, count, faults, history>>

\* Go's select may still choose the channel once the context is cancelled.
Feed(r) ==
  /\ Live(r) /\ run[r].phase = "feeding"
  /\ \E u \in feed[r].batch :
       /\ \A v \in feed[r].batch : u <= v
       /\ feed' = [feed EXCEPT ![r] = [feed[r] EXCEPT !.batch = feed[r].batch \ {u}]]
       /\ \/ Blank(r, u) /\ UNCHANGED <<queue, fed>>
          \/ /\ ~Blank(r, u) /\ Len(queue[r]) < ChanCap
             /\ queue' = [queue EXCEPT ![r] = Append(@, u)]
             /\ fed' = [fed EXCEPT ![r] = @ \cup {u}]
  /\ UNCHANGED <<eligible, lock, run, sending, count, faults, due, copies>>

\* The channel is closed whatever ended the reading.
CloseChannel(r, why) ==
  /\ Live(r) /\ run[r].phase = "feeding"
  /\ run' = [run EXCEPT ![r] = [@ EXCEPT !.phase = "closing", !.stop = why]]
  /\ UNCHANGED <<eligible, lock, jobVars, history>>

EndOfUsers(r) ==
  /\ feed[r].batch = {} /\ ~feed[r].more
  /\ CloseChannel(r, run[r].stop)
  /\ UNCHANGED faults

StopFeeding(r) == Live(r) /\ Cancelled(r) /\ CloseChannel(r, run[r].stop) /\ UNCHANGED faults

FetchFails(r) ==
  /\ Live(r) /\ ~Cancelled(r) /\ feed[r].batch = {} /\ feed[r].more
  /\ Fault /\ CloseChannel(r, "error")

(***************************************************************************)
(* The senders.                                                            *)
(***************************************************************************)
Counted(r, s, f) == count' = [count EXCEPT ![r] = [sent |-> count[r].sent + s, failed |-> count[r].failed + f]]

\* With the context cancelled the send fails at once.
Take(r) ==
  /\ Cardinality(sending[r]) < PoolSize /\ queue[r] # <<>>
  /\ queue' = [queue EXCEPT ![r] = Tail(@)]
  /\ IF Cancelled(r)
     THEN Counted(r, 0, 1) /\ UNCHANGED sending
     ELSE /\ sending' = [sending EXCEPT ![r] = @ \cup {[user |-> Head(queue[r]), attempt |-> 1]}]
          /\ UNCHANGED count
  /\ UNCHANGED <<eligible, lock, run, feed, faults, history>>

\* What Telegram answers: accepted; too many requests; any other error, among them the
\* permanent ones and a timeout, after which the message may have arrived.
Answers == {"ok", "rate limit", "error", "late"}
Arrives(answer) == answer \in {"ok", "late"}

RetriesAnyError(answer, attempt) == answer # "ok" /\ attempt < MaxAttempts   \* mutant
Retries(answer, attempt) == answer = "rate limit" /\ attempt < MaxAttempts

\* A cancelled context ends the wait before a retry.
Send(r, job, answer) ==
  /\ LET again == Retries(answer, job.attempt) /\ ~Cancelled(r)
     IN /\ sending' = [sending EXCEPT ![r] =
             (@ \ {job}) \cup IF again THEN {[job EXCEPT !.attempt = job.attempt + 1]} ELSE {}]
        /\ \/ again /\ UNCHANGED count
           \/ ~again /\ answer = "ok" /\ Counted(r, 1, 0)
           \/ ~again /\ answer # "ok" /\ Counted(r, 0, 1)
        /\ copies' = IF Arrives(answer)
                      THEN [copies EXCEPT ![r] = [copies[r] EXCEPT ![job.user] = copies[r][job.user] + 1]]
                      ELSE copies
  /\ UNCHANGED <<eligible, lock, run, feed, queue, faults, fed, due>>

DrainedQueue(r) == queue[r] = <<>>                                         \* mutant: no wg.Wait
DrainedUnlessStopped(r) ==                                                 \* mutant: channel left open
  run[r].stop = "none" /\ queue[r] = <<>> /\ sending[r] = {}
Drained(r) == queue[r] = <<>> /\ sending[r] = {}

\* The counters are final: the bot reports them to the admin.
Finish(r) ==
  /\ Live(r) /\ run[r].phase = "closing" /\ Drained(r)
  /\ run' = [run EXCEPT ![r] = [@ EXCEPT !.phase = "releasing"]]
  /\ UNCHANGED <<eligible, lock, jobVars, faults, history>>

Release(r) ==
  /\ Live(r) /\ run[r].phase = "releasing"
  /\ run' = [run EXCEPT ![r] = [@ EXCEPT !.phase = "over"]]
  /\ \/ Releases(r) /\ lock' = [lock EXCEPT ![KeyOf(run[r].campaign)] = NULL] /\ UNCHANGED faults
     \/ Releases(r) /\ UNCHANGED lock /\ Fault
     \/ ~Releases(r) /\ UNCHANGED <<lock, faults>>
  /\ Forget({r})
  /\ UNCHANGED eligible

(***************************************************************************)
(* Panics, shutdown, crashes and the users' side.                          *)
(***************************************************************************)
\* A panic in the reader cancels the context of its senders.  What they hold may
\* arrive or not; what is in the channel does not, and they wait on it for ever.
Panic(r) ==
  /\ Live(r) /\ run[r].phase = "feeding"
  /\ Fault
  /\ run' = [run EXCEPT ![r] = [@ EXCEPT !.phase = "cooling"]]
  /\ \E arrived \in SUBSET {job.user : job \in sending[r]} :
       copies' = [copies EXCEPT ![r] = [u \in Users |-> copies[r][u] + IF u \in arrived THEN 1 ELSE 0]]
  /\ feed' = [feed EXCEPT ![r] = NoFeed]
  /\ queue' = [queue EXCEPT ![r] = <<>>]
  /\ sending' = [sending EXCEPT ![r] = {}]
  /\ count' = [count EXCEPT ![r] = NoCount]
  /\ UNCHANGED <<eligible, lock, fed, due>>

\* Supervise runs the whole broadcast again, with another 24 hours.
Restart(r) ==
  /\ Live(r) /\ run[r].phase = "cooling"
  /\ run' = [run EXCEPT ![r] = [@ EXCEPT !.phase = "feeding",
                                         !.stop = IF run[r].stop = "shutdown" THEN "shutdown" ELSE "none",
                                         !.restarts = run[r].restarts + 1]]
  /\ fed' = [fed EXCEPT ![r] = {}]
  /\ due' = [due EXCEPT ![r] = Audience[run[r].campaign] \cap eligible]
  /\ UNCHANGED <<eligible, lock, jobVars, faults, copies>>

Deadline(r) ==
  /\ Live(r) /\ run[r].phase \in {"feeding", "closing"} /\ ~Cancelled(r)
  /\ run' = [run EXCEPT ![r] = [@ EXCEPT !.stop = "deadline"]]
  /\ UNCHANGED <<eligible, lock, jobVars, faults, history>>

\* SIGTERM cancels the application's context.
Shutdown ==
  /\ \E r \in Runs : Live(r) /\ run[r].stop # "shutdown"
  /\ run' = [r \in Runs |-> IF Live(r) THEN [run[r] EXCEPT !.stop = "shutdown"] ELSE run[r]]
  /\ UNCHANGED <<eligible, lock, jobVars, faults, history>>

\* A crash, a panic in a sender, or the end of the drain timeout.
Crash ==
  /\ Fault
  /\ \E r \in Runs : Live(r)
  /\ run' = [r \in Runs |-> IF Live(r) THEN [run[r] EXCEPT !.phase = "killed"] ELSE run[r]]
  /\ Forget({r \in Runs : Live(r)})
  /\ UNCHANGED <<eligible, lock>>

\* A user blocks the bot, is banned or deleted, or comes back.
SetEligible(u) ==
  /\ eligible' = IF u \in eligible THEN eligible \ {u} ELSE eligible \cup {u}
  /\ due' = [r \in Runs |-> due[r] \cap eligible']
  /\ UNCHANGED <<lock, run, jobVars, faults, fed, copies>>

RunStep(r) ==
  \/ FetchBatch(r) \/ Feed(r) \/ EndOfUsers(r) \/ StopFeeding(r)
  \/ Take(r)
  \/ \E job \in sending[r], answer \in Answers : Send(r, job, answer)
  \/ Finish(r) \/ Release(r) \/ Restart(r)

Next ==
  \/ \E r \in Runs : RunStep(r)
  \/ \E r \in Runs, c \in Campaigns : Start(r, c)
  \/ \E r \in Runs : FetchFails(r) \/ Panic(r) \/ Deadline(r)
  \/ \E k \in Keys : LockExpires(k)
  \/ Shutdown
  \/ Crash
  \/ \E u \in Users : SetEligible(u)

Spec == Init /\ [][Next]_vars

\* Goroutines run, Telegram answers or the send times out, and Supervise restarts.
FairSpec == Spec /\ \A r \in Runs : WF_vars(RunStep(r))

(***************************************************************************)
(* Properties.                                                             *)
(***************************************************************************)
\* Types: of rows of runs, locks, queues, jobs and counters.
BroadcastTypeOK ==
  /\ eligible \subseteq Users
  /\ lock \in [Keys -> Runs \cup {NULL}]
  /\ run \in [Runs -> RunRows \cup {NULL}]
  /\ feed \in [Runs -> [last : 0 .. LastUser, batch : SUBSET Users, more : BOOLEAN]]
  /\ queue \in [Runs -> Seq(Users)]
  /\ sending \in [Runs -> SUBSET [user : Users, attempt : 1 .. MaxAttempts]]
  /\ count \in [Runs -> [sent : Nat, failed : Nat]]
  /\ faults \in 0 .. MaxFaults
  /\ fed \in [Runs -> SUBSET Users] /\ due \in [Runs -> SUBSET Users]
  /\ copies \in [Runs -> [Users -> Nat]]

\* A run that took its lock keeps it until it releases it, so no second run of the key
\* starts beside it (bot/broadcast.go:175-191, handler/admin.go:227-244).  The
\* exceptions, since a DEL does not look whose lock it deletes: a run of the bot that
\* went on without the lock, and a restarted run, which may outlast its own.
Locked(r) == Live(r) /\ run[r].locked /\ run[r].restarts = 0
Stray(q)  ==
  /\ run[q] # NULL
  /\ \/ run[q].restarts > 0
     \/ ~run[q].locked /\ run[q].campaign \in BotCampaigns

RunKeepsItsLock ==
  \A r \in Runs : Locked(r) =>
    LET k == KeyOf(run[r].campaign)
    IN lock[k] = r \/ \E q \in Runs : Stray(q) /\ KeyOf(run[q].campaign) = k

\* A run sends nobody its message twice, unless Supervise ran it again
\* (copyOne and sendOne retry only what Telegram has refused).
NobodyTwice ==
  \A r \in Runs : run[r] # NULL => \A u \in Users : copies[r][u] <= 1 + run[r].restarts

\* The report is made when no sender is at work: it accounts for everybody passed to
\* the channel, and no message counted as sent is missing (bot/broadcast.go:311-331).
Reported(r) == run[r] # NULL /\ run[r].phase = "releasing"

ReportCountsAll ==
  \A r \in Runs : Reported(r) =>
    /\ count[r].sent + count[r].failed = Cardinality(fed[r])
    /\ count[r].sent <= Cardinality({u \in Users : copies[r][u] > 0})

\* A run that was neither stopped nor failed has tried everybody who was eligible
\* from its start to its end, whoever else came or went between two batches.
ReachesEveryone ==
  \A r \in Runs : Reported(r) /\ run[r].stop = "none" => due[r] \subseteq fed[r]

\* A started run ends, whatever stops it: reader, channel and senders never wait
\* for each other for ever.
EveryRunEnds == \A r \in Runs : Live(r) ~> ~Live(r)
=============================================================================
