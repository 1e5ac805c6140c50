------------------------------ MODULE ShareQueue ------------------------------
(***************************************************************************)
(* The life of a row of linkari's SQLite table `queue`, and everything in  *)
(* the server process that writes its status:                              *)
(*                                                                         *)
(*   - the HTTP handler of /share: insert the row, route the share, mark   *)
(*     the row relayed (three separate steps);                             *)
(*   - the replay loop, which reads the pending rows into a batch and then *)
(*     routes the batch row by row;                                        *)
(*   - the detached goroutines that routing starts: scoreAsync for server  *)
(*     scored actions, captureAsync for capture actions;                   *)
(*   - the relayed-row watchdog: select, try to rescue, mark as timed out; *)
(*   - /notify and /queue/{id}/score, called by external command lines.    *)
(*                                                                         *)
(* The database handle has one connection, so one SQL statement is one     *)
(* atomic step and two statements are two steps with anything in between.  *)
(* Time is abstract: a row's queued_at passes the watchdog's cutoff and    *)
(* its retry_after comes, each in a step of its own.                       *)
(***************************************************************************)
EXTENDS Naturals

CONSTANTS
    Names,       \* the URLs (or the file identities) that are shared
    NoName,      \* the absence of a name
    Kinds,       \* the kinds of actions that are configured
    Feeds,       \* the other ways a row comes in: see Intake
    Workers,     \* slots for concurrent goroutines and requests (a bound)
    MaxShares,   \* a bound on the rows that intake inserts
    MaxRows,     \* a bound on all rows, those of ScoreByURL's INSERT included
    MaxCalls,    \* a bound on calls of /notify and /queue/{id}/score
    MaxFaults    \* a bound on restarts of the server and failing writes

AllKinds == {"url", "file", "launch", "auto", "capture"}

ASSUME ConstantsAssumption ==
    /\ NoName \notin Names
    /\ Kinds \subseteq AllKinds
    /\ Feeds \subseteq {"prefilter", "source", "firehose"}
    /\ MaxShares \in Nat /\ MaxRows \in Nat /\ MaxShares <= MaxRows
    /\ MaxCalls \in Nat /\ MaxFaults \in Nat

(* retry_policy.go: attempts of the scoring stage before a row fails.      *)
ScoringMaxAttempts == 2

RowIds == 1 .. MaxRows

Open == {"pending", "relayed"}
HasScore == {"scored", "archived"}
Rejected == {"failed", "captured", "prefiltered"}
Statuses == {"free"} \cup Open \cup HasScore \cup Rejected

(* error_reason, as far as a property tells the values apart: "other" is   *)
(* every reason that is not named here, the empty one included.            *)
Reasons == {"other", "evaluation", "scoring_timeout",
            "capture_score_fallback_failed"}

Row == [status : Statuses, kind : AllKinds, name : Names \cup {NoName},
        aged : BOOLEAN, due : BOOLEAN, retries : Nat,
        reason : Reasons, scoreOf : Names \cup {NoName}, high : BOOLEAN]

JobPcs == {"idle", "score", "retry", "find_open", "insert", "update",
           "reread", "archive", "capture"}

Job == [pc : JobPcs, row : RowIds \cup {0}, name : Names \cup {NoName},
        item : RowIds \cup {0}, high : BOOLEAN, count : Nat]

VARIABLES
    row,        \* the table; a row that is not inserted yet is "free"
    lastId,     \* the AUTOINCREMENT counter
    handling,   \* per row: where the /share handler that inserted it stands
    job,        \* the goroutines and requests that are under way
    replay,     \* the replay loop: rest of its batch, row routed but unmarked
    sweep,      \* the watchdog: rows to rescue, rows found unrescued
    calls, faults,    \* used up parts of the bounds
    evalFails   \* history: evaluations that failed, per row

vars == <<row, lastId, handling, job, replay, sweep, calls, faults, evalFails>>

FreeRow == [status |-> "free", kind |-> "url", name |-> NoName,
            aged |-> FALSE, due |-> TRUE, retries |-> 0,
            reason |-> "other", scoreOf |-> NoName, high |-> FALSE]

JobAt(pc, r, n, i) == [pc |-> pc, row |-> r, name |-> n, item |-> i,
                       high |-> FALSE, count |-> 0]

IdleJob == JobAt("idle", 0, NoName, 0)

NoReplay == [batch |-> {}, routed |-> 0]
NoSweep == [todo |-> {}, doomed |-> {}]

Init ==
    /\ row = [r \in RowIds |-> FreeRow]
    /\ lastId = 0
    /\ handling = [r \in RowIds |-> "none"]
    /\ job = [w \in Workers |-> IdleJob]
    /\ replay = NoReplay
    /\ sweep = NoSweep
    /\ calls = 0
    /\ faults = 0
    /\ evalFails = [r \in RowIds |-> 0]

-----------------------------------------------------------------------------
(* The statements on one row, as the new value of the table.               *)

MarkRelayed(r) ==
    [row EXCEPT ![r] = [@ EXCEPT !.status = "relayed"]]

MarkFailed(r) == [row EXCEPT ![r] = [@ EXCEPT !.status = "failed"]]

MarkFailedWithReason(r, why) ==
    [row EXCEPT ![r] = [@ EXCEPT !.status = "failed", !.reason = why]]

StoreScore(r, n, hi) ==
    [row EXCEPT ![r] = [@ EXCEPT !.status = "scored", !.scoreOf = n,
                                 !.high = hi]]

Archive(r) == [row EXCEPT ![r] = [@ EXCEPT !.status = "archived"]]

IsLatest(r, S) == r \in S /\ \A q \in S : q <= r
IsFirst(r, S) == r \in S /\ \A q \in S : r <= q

(* Mutant of WithURL: the WHERE clause lost its url.                       *)
WithAnyURL(n) == {r \in RowIds : row[r].status # "free" /\ row[r].kind # "file"}

(* Rows a URL selects: file rows have an empty url column.                 *)
WithURL(n) == {r \in RowIds : row[r].name = n /\ row[r].kind # "file"}

Idle(w) == job[w].pc = "idle"
ServerScored(k) == k \in {"url", "file"}

StartScoring(w, r) ==
    job' = [job EXCEPT ![w] = JobAt("score", r, row[r].name, 0)]

StartCapture(w, r) ==
    job' = [job EXCEPT ![w] = JobAt("capture", r, NoName, 0)]

Finish(w) == job' = [job EXCEPT ![w] = IdleJob]

(* The tail of scoreAsync: a score at the archive threshold is archived.   *)
ArchiveIf(hi, i) == IF hi THEN JobAt("archive", 0, NoName, i) ELSE IdleJob

-----------------------------------------------------------------------------
(* Intake: the /share handler, the sync sources and the firehose.          *)

NewRow(k, n, st) ==
    [status |-> st, kind |-> k, name |-> n, aged |-> FALSE, due |-> TRUE,
     retries |-> 0, reason |-> "other",
     scoreOf |-> IF st = "scored" THEN n ELSE NoName, high |-> FALSE]

InsertRow(k, n, st) ==
    /\ row' = [row EXCEPT ![lastId + 1] = NewRow(k, n, st)]
    /\ lastId' = lastId + 1

(* Enqueue, or EnqueueScored for an action that is configured AutoScore.   *)
ShareEnqueue(k, n) ==
    /\ lastId < MaxShares
    /\ InsertRow(k, n, IF k = "auto" THEN "scored" ELSE "pending")
    /\ handling' = [handling EXCEPT ![lastId + 1] = "queued"]
    /\ UNCHANGED <<job, replay, sweep, calls, faults, evalFails>>

(* A login-walled or unsupported URL gets a row that is settled at once.   *)
SharePrefiltered(n) ==
    /\ "prefilter" \in Feeds
    /\ lastId < MaxShares
    /\ InsertRow("url", n, "prefiltered")
    /\ UNCHANGED <<handling, job, replay, sweep, calls, faults, evalFails>>

(* Watch-later, likes and subscription syncs only insert a pending row.    *)
SourceEnqueue(n) ==
    /\ "source" \in Feeds
    /\ lastId < MaxShares
    /\ InsertRow("url", n, "pending")
    /\ UNCHANGED <<handling, job, replay, sweep, calls, faults, evalFails>>

(* The firehose inserts a pending row and starts scoreAsync itself; nobody *)
(* marks the row relayed.                                                  *)
FirehoseEnqueue(w, n) ==
    /\ "firehose" \in Feeds
    /\ lastId < MaxShares
    /\ Idle(w)
    /\ InsertRow("url", n, "pending")
    /\ job' = [job EXCEPT ![w] = JobAt("score", lastId + 1, n, 0)]
    /\ UNCHANGED <<handling, replay, sweep, calls, faults, evalFails>>

(* The handler hands a capture to captureAsync and returns.                *)
HandlerCapture(r, w) ==
    /\ handling[r] = "queued"
    /\ row[r].kind = "capture"
    /\ Idle(w)
    /\ StartCapture(w, r)
    /\ handling' = [handling EXCEPT ![r] = "none"]
    /\ UNCHANGED <<row, lastId, replay, sweep, calls, faults, evalFails>>

(* Route succeeds; for a server scored action it has started scoreAsync.   *)
HandlerRoute(r) ==
    /\ handling[r] = "queued"
    /\ row[r].kind # "capture"
    /\ IF ServerScored(row[r].kind)
         THEN \E w \in Workers : Idle(w) /\ StartScoring(w, r)
         ELSE UNCHANGED job
    /\ handling' = [handling EXCEPT ![r] = "routed"]
    /\ UNCHANGED <<row, lastId, replay, sweep, calls, faults, evalFails>>

(* Route fails (tmux down, action unknown): the handler answers "queued"   *)
(* and leaves the row to the replay loop.                                  *)
HandlerRouteFails(r) ==
    /\ handling[r] = "queued"
    /\ row[r].kind # "capture"
    /\ handling' = [handling EXCEPT ![r] = "none"]
    /\ UNCHANGED <<row, lastId, job, replay, sweep, calls, faults, evalFails>>

HandlerMarkRelayed(r) ==
    /\ handling[r] = "routed"
    /\ row' = MarkRelayed(r)
    /\ handling' = [handling EXCEPT ![r] = "none"]
    /\ UNCHANGED <<lastId, job, replay, sweep, calls, faults, evalFails>>

-----------------------------------------------------------------------------
(* The replay loop.                                                        *)

(* Mutants of Pending: failed rows are picked up again; rows that wait for *)
(* a retry are not picked up at all.                                       *)
PendingOrFailed ==
    {r \in RowIds : row[r].status \in {"pending", "failed"} /\ row[r].due}
PendingNeverTried ==
    {r \in RowIds : row[r].status = "pending" /\ row[r].retries = 0}

Pending == {r \in RowIds : row[r].status = "pending" /\ row[r].due}

ReplaySelect ==
    /\ replay = NoReplay
    /\ Pending # {}
    /\ replay' = [replay EXCEPT !.batch = Pending]
    /\ UNCHANGED <<row, lastId, handling, job, sweep, calls, faults, evalFails>>

ReplayNext(r) == replay.routed = 0 /\ IsFirst(r, replay.batch)

ReplayCapture(r, w) ==
    /\ ReplayNext(r)
    /\ row[r].kind = "capture"
    /\ Idle(w)
    /\ StartCapture(w, r)
    /\ replay' = [replay EXCEPT !.batch = @ \ {r}]
    /\ UNCHANGED <<row, lastId, handling, sweep, calls, faults, evalFails>>

ReplayRoute(r) ==
    /\ ReplayNext(r)
    /\ row[r].kind # "capture"
    /\ IF ServerScored(row[r].kind)
         THEN \E w \in Workers : Idle(w) /\ StartScoring(w, r)
         ELSE UNCHANGED job
    /\ replay' = [batch |-> replay.batch \ {r}, routed |-> r]
    /\ UNCHANGED <<row, lastId, handling, sweep, calls, faults, evalFails>>

ReplayRouteFails(r) ==
    /\ ReplayNext(r)
    /\ row[r].kind # "capture"
    /\ row' = MarkFailed(r)
    /\ replay' = [replay EXCEPT !.batch = @ \ {r}]
    /\ UNCHANGED <<lastId, handling, job, sweep, calls, faults, evalFails>>

ReplayMarkRelayed(r) ==
    /\ replay.routed = r
    /\ row' = MarkRelayed(r)
    /\ replay' = [replay EXCEPT !.routed = 0]
    /\ UNCHANGED <<lastId, handling, job, sweep, calls, faults, evalFails>>

-----------------------------------------------------------------------------
(* scoreAsync: content and evaluation, retryOrFail, ScoreByURL, ScoreByID. *)

(* One of the early exits: nothing to fetch, empty content, no template... *)
ScoringAborts(w) ==
    /\ job[w].pc = "score"
    /\ row' = MarkFailedWithReason(job[w].row, "other")
    /\ Finish(w)
    /\ UNCHANGED <<lastId, handling, replay, sweep, calls, faults, evalFails>>

(* Evaluate returns an error and retryOrFail reads retry_count.            *)
EvaluationFails(w) ==
    /\ job[w].pc = "score"
    /\ job' = [job EXCEPT ![w] = [@ EXCEPT !.pc = "retry",
                                    !.count = row[job[w].row].retries]]
    /\ evalFails' = [evalFails EXCEPT ![job[w].row] = @ + 1]
    /\ UNCHANGED <<row, lastId, handling, replay, sweep, calls, faults>>

(* Mutant of OutOfAttempts: off by one.                                    *)
OutOfAttemptsEarly(newCount) == newCount + 1 >= ScoringMaxAttempts

OutOfAttempts(newCount) == newCount >= ScoringMaxAttempts

(* retryOrFail's UPDATE: give up, or back to pending with a backoff.       *)
RetryOrFail(w) ==
    LET r == job[w].row
        newCount == job[w].count + 1
    IN  /\ job[w].pc = "retry"
        /\ row' = [row EXCEPT ![r] =
                     IF OutOfAttempts(newCount)
                       THEN [@ EXCEPT !.status = "failed",
                                !.reason = "evaluation", !.retries = newCount]
                       ELSE [@ EXCEPT !.status = "pending",
                                !.retries = newCount, !.due = FALSE]]
        /\ Finish(w)
        /\ UNCHANGED <<lastId, handling, replay, sweep, calls, faults,
                       evalFails>>

(* First statement of ScoreByURL: is there a scored row for this URL? Its  *)
(* score, not the new one, then decides about archiving.                   *)
FindScored(w, j) ==
    LET scored == {r \in WithURL(j.name) : row[r].status \in HasScore}
    IN  IF scored = {}
          THEN job' = [job EXCEPT ![w] = [j EXCEPT !.pc = "find_open"]]
          ELSE \E r \in RowIds :
                 /\ IsLatest(r, scored)
                 /\ job' = [job EXCEPT ![w] = ArchiveIf(row[r].high, r)]

EvaluationOfURL(w, hi) ==
    /\ job[w].pc = "score"
    /\ row[job[w].row].kind # "file"
    /\ FindScored(w, [job[w] EXCEPT !.high = hi])
    /\ UNCHANGED <<row, lastId, handling, replay, sweep, calls, faults,
                   evalFails>>

(* ScoreByID reads the status; a row that has a score is not updated, but  *)
(* the tail of scoreAsync runs all the same.                               *)
EvaluationOfFile(w, hi) ==
    LET r == job[w].row
    IN  /\ job[w].pc = "score"
        /\ row[r].kind = "file"
        /\ job' = [job EXCEPT ![w] =
             IF row[r].status \notin HasScore
               THEN [@ EXCEPT !.pc = "update", !.item = r, !.high = hi]
               ELSE ArchiveIf(hi, r)]
        /\ UNCHANGED <<row, lastId, handling, replay, sweep, calls, faults,
                       evalFails>>

(* /notify: ScoreByURL on behalf of an external command line.              *)
Notify(w, n, hi) ==
    /\ calls < MaxCalls
    /\ calls' = calls + 1
    /\ Idle(w)
    /\ FindScored(w, [JobAt("idle", 0, n, 0) EXCEPT !.high = hi])
    /\ UNCHANGED <<row, lastId, handling, replay, sweep, faults, evalFails>>

(* Mutant of OpenOfURL: the status is not looked at.                       *)
AnyOfURL(n) == WithURL(n)

OpenOfURL(n) == {r \in WithURL(n) : row[r].status \in Open}

(* Second statement of ScoreByURL: the latest open row of this URL, which  *)
(* need not be the row the caller was started for.                         *)
FindOpen(w) ==
    LET open == OpenOfURL(job[w].name)
    IN  /\ job[w].pc = "find_open"
        /\ IF open = {}
             THEN job' = [job EXCEPT ![w] = [@ EXCEPT !.pc = "insert"]]
             ELSE \E r \in RowIds :
                    /\ IsLatest(r, open)
                    /\ job' = [job EXCEPT ![w] = [@ EXCEPT !.pc = "update",
                                                           !.item = r]]
        /\ UNCHANGED <<row, lastId, handling, replay, sweep, calls, faults,
                       evalFails>>

(* The UPDATE by id of ScoreByURL (which then reads the row again) and of  *)
(* ScoreByID (which does not): neither looks at the status once more.      *)
UpdateItem(w) ==
    LET i == job[w].item
        isFile == row[i].kind = "file"
    IN  /\ job[w].pc = "update"
        /\ row' = StoreScore(i, job[w].name, job[w].high)
        /\ job' = [job EXCEPT ![w] =
             IF isFile THEN ArchiveIf(job[w].high, i)
                       ELSE [@ EXCEPT !.pc = "reread"]]
        /\ UNCHANGED <<lastId, handling, replay, sweep, calls, faults,
                       evalFails>>

InsertScored(w) ==
    /\ job[w].pc = "insert"
    /\ lastId < MaxRows
    /\ row' = [row EXCEPT ![lastId + 1] =
                 [NewRow("url", job[w].name, "scored") EXCEPT !.high = job[w].high]]
    /\ lastId' = lastId + 1
    /\ job' = [job EXCEPT ![w] = [@ EXCEPT !.pc = "reread",
                                           !.item = lastId + 1]]
    /\ UNCHANGED <<handling, replay, sweep, calls, faults, evalFails>>

(* ScoreByURL returns the row as GetByID finds it now.                     *)
Reread(w) ==
    LET i == job[w].item
    IN  /\ job[w].pc = "reread"
        /\ job' = [job EXCEPT ![w] = ArchiveIf(row[i].high, i)]
        /\ UNCHANGED <<row, lastId, handling, replay, sweep, calls, faults,
                       evalFails>>

ArchiveItem(w) ==
    /\ job[w].pc = "archive"
    /\ row' = Archive(job[w].item)
    /\ Finish(w)
    /\ UNCHANGED <<lastId, handling, replay, sweep, calls, faults, evalFails>>

(* A statement of ScoreByURL or ScoreByID returns an error: scoreAsync     *)
(* fails the row it was started for, /notify only logs.                    *)
PersistFails(w) ==
    /\ job[w].pc \in {"find_open", "insert", "update", "reread"}
    /\ row' = IF job[w].row = 0 THEN row
              ELSE MarkFailedWithReason(job[w].row, "other")
    /\ Finish(w)
    /\ UNCHANGED <<lastId, handling, replay, sweep, calls, faults, evalFails>>

(* POST /queue/{id}/score: UpdateScore on whatever the row is now, then    *)
(* the archive decision on the posted score.                               *)
QueueScore(w, r, hi) ==
    /\ calls < MaxCalls
    /\ calls' = calls + 1
    /\ Idle(w)
    /\ row[r].status # "free"
    /\ row' = StoreScore(r, row[r].name, hi)
    /\ job' = [job EXCEPT ![w] = ArchiveIf(hi, r)]
    /\ UNCHANGED <<lastId, handling, replay, sweep, faults, evalFails>>

-----------------------------------------------------------------------------
(* captureAsync.                                                           *)

CaptureFails(w) ==
    /\ job[w].pc = "capture"
    /\ row' = MarkFailedWithReason(job[w].row, "other")
    /\ Finish(w)
    /\ UNCHANGED <<lastId, handling, replay, sweep, calls, faults, evalFails>>

(* Plain content: captureScoreFallback routes the row's own action, whose  *)
(* kind Route's switch does not know, so Route returns an error.           *)
CaptureFallsBack(w) ==
    /\ job[w].pc = "capture"
    /\ row' = MarkFailedWithReason(job[w].row, "capture_score_fallback_failed")
    /\ Finish(w)
    /\ UNCHANGED <<lastId, handling, replay, sweep, calls, faults, evalFails>>

SetCaptured(w) ==
    LET r == job[w].row
    IN  /\ job[w].pc = "capture"
        /\ row' = IF row[r].status \in {"captured", "failed", "archived"}
                    THEN row
                    ELSE [row EXCEPT ![r] = [@ EXCEPT !.status = "captured"]]
        /\ Finish(w)
        /\ UNCHANGED <<lastId, handling, replay, sweep, calls, faults,
                       evalFails>>

-----------------------------------------------------------------------------
(* The watchdog.                                                           *)

(* Mutants of StuckRelayed: no cutoff; the wrong status.                   *)
AllRelayed == {r \in RowIds : row[r].status = "relayed"}
StuckPending == {r \in RowIds : row[r].status = "pending" /\ row[r].aged}

(* relayed, and queued (not relayed) before the cutoff.                    *)
StuckRelayed == {r \in RowIds : row[r].status = "relayed" /\ row[r].aged}

SweepSelect ==
    /\ sweep = NoSweep
    /\ StuckRelayed # {}
    /\ sweep' = [sweep EXCEPT !.todo = StuckRelayed]
    /\ UNCHANGED <<row, lastId, handling, job, replay, calls, faults, evalFails>>

(* A _score.json is on disk: IngestScoreIfRelayed.                         *)
SweepRescue(r, hi) ==
    /\ r \in sweep.todo
    /\ row[r].kind # "file"
    /\ row' = IF row[r].status = "relayed"
                THEN StoreScore(r, row[r].name, hi) ELSE row
    /\ sweep' = [sweep EXCEPT !.todo = @ \ {r}]
    /\ UNCHANGED <<lastId, handling, job, replay, calls, faults, evalFails>>

(* No file, no work directory, or the ingest failed.                       *)
SweepMiss(r) ==
    /\ r \in sweep.todo
    /\ sweep' = [todo |-> sweep.todo \ {r}, doomed |-> sweep.doomed \cup {r}]
    /\ UNCHANGED <<row, lastId, handling, job, replay, calls, faults, evalFails>>

SweepMark(r) ==
    /\ sweep.todo = {}
    /\ r \in sweep.doomed
    /\ row' = MarkFailedWithReason(r, "scoring_timeout")
    /\ sweep' = [sweep EXCEPT !.doomed = @ \ {r}]
    /\ UNCHANGED <<lastId, handling, job, replay, calls, faults, evalFails>>

-----------------------------------------------------------------------------
(* Time, restarts, failing writes. The passing of a time is a step only on *)
(* rows where a SELECT compares with it, so that it adds no states         *)
(* elsewhere.                                                              *)

QueuedLong(r) ==
    /\ row[r].status \in Open /\ ~row[r].aged
    /\ row' = [row EXCEPT ![r] = [@ EXCEPT !.aged = TRUE]]
    /\ UNCHANGED <<lastId, handling, job, replay, sweep, calls, faults,
                   evalFails>>

BackoffEnds(r) ==
    /\ row[r].status = "pending" /\ ~row[r].due
    /\ row' = [row EXCEPT ![r] = [@ EXCEPT !.due = TRUE]]
    /\ UNCHANGED <<lastId, handling, job, replay, sweep, calls, faults,
                   evalFails>>

(* The process ends and starts again: only the database survives.          *)
Restart ==
    /\ faults < MaxFaults
    /\ faults' = faults + 1
    /\ handling' = [r \in RowIds |-> "none"]
    /\ job' = [w \in Workers |-> IdleJob]
    /\ replay' = NoReplay
    /\ sweep' = NoSweep
    /\ UNCHANGED <<row, lastId, calls, evalFails>>

(* A write fails. The error is ignored or logged and the goroutine, the    *)
(* handler or the replay loop goes on as if it had written; the watchdog   *)
(* gives up the rest of its pass.                                          *)
WriteFails ==
    /\ faults < MaxFaults
    /\ faults' = faults + 1
    /\ \/ /\ \E w \in Workers : ~Idle(w) /\ Finish(w)
          /\ UNCHANGED <<handling, replay, sweep>>
       \/ /\ \E r \in RowIds :
               /\ handling[r] = "routed"
               /\ handling' = [handling EXCEPT ![r] = "none"]
          /\ UNCHANGED <<job, replay, sweep>>
       \/ /\ \/ /\ replay.routed # 0
                /\ replay' = [replay EXCEPT !.routed = 0]
             \/ \E r \in RowIds :
                  /\ ReplayNext(r)
                  /\ row[r].kind # "capture"
                  /\ replay' = [replay EXCEPT !.batch = @ \ {r}]
          /\ UNCHANGED <<handling, job, sweep>>
       \/ /\ sweep.todo = {} /\ sweep.doomed # {}
          /\ sweep' = NoSweep
          /\ UNCHANGED <<handling, job, replay>>
    /\ UNCHANGED <<row, lastId, calls, evalFails>>

-----------------------------------------------------------------------------
Intake ==
    \E n \in Names :
      \/ \E k \in Kinds : ShareEnqueue(k, n)
      \/ SharePrefiltered(n)
      \/ SourceEnqueue(n)
      \/ \E w \in Workers : FirehoseEnqueue(w, n)

Handler(r) ==
    \/ \E w \in Workers : HandlerCapture(r, w)
    \/ HandlerRoute(r)
    \/ HandlerRouteFails(r)
    \/ HandlerMarkRelayed(r)

Replay ==
    \/ ReplaySelect
    \/ \E r \in RowIds :
         \/ \E w \in Workers : ReplayCapture(r, w)
         \/ ReplayRoute(r)
         \/ ReplayRouteFails(r)
         \/ ReplayMarkRelayed(r)

JobStep(w) ==
    \/ ScoringAborts(w)
    \/ EvaluationFails(w)
    \/ RetryOrFail(w)
    \/ \E hi \in BOOLEAN : EvaluationOfURL(w, hi) \/ EvaluationOfFile(w, hi)
    \/ FindOpen(w)
    \/ UpdateItem(w)
    \/ InsertScored(w)
    \/ Reread(w)
    \/ ArchiveItem(w)
    \/ PersistFails(w)
    \/ CaptureFails(w)
    \/ CaptureFallsBack(w)
    \/ SetCaptured(w)

Calls ==
    \E w \in Workers, hi \in BOOLEAN :
      \/ \E n \in Names : Notify(w, n, hi)
      \/ \E r \in RowIds : QueueScore(w, r, hi)

Sweep ==
    \/ SweepSelect
    \/ \E r \in RowIds :
         \/ \E hi \in BOOLEAN : SweepRescue(r, hi)
         \/ SweepMiss(r)
         \/ SweepMark(r)

Time(r) == QueuedLong(r) \/ BackoffEnds(r)

Next ==
    \/ Intake
    \/ \E r \in RowIds : Handler(r) \/ Time(r)
    \/ Replay
    \/ \E w \in Workers : JobStep(w)
    \/ Calls
    \/ Sweep
    \/ Restart
    \/ WriteFails

Spec == Init /\ [][Next]_vars

(* The goroutines and both tickers keep running, tmux is up at infinitely  *)
(* many replay ticks, time passes. Nobody owes the server a share or call. *)
Fairness ==
    /\ \A r \in RowIds : WF_vars(Handler(r))
    /\ \A r \in RowIds : WF_vars(QueuedLong(r)) /\ WF_vars(BackoffEnds(r))
    /\ \A w \in Workers : WF_vars(JobStep(w))
    /\ WF_vars(Replay)
    /\ WF_vars(Sweep)

FairSpec == Spec /\ Fairness

-----------------------------------------------------------------------------
(* Properties.                                                             *)

(* The table, the goroutines and the loops have the types the code gives   *)
(* them, and the ids handed out are exactly the rows inserted.             *)
TypeOK ==
    /\ row \in [RowIds -> Row]
    /\ lastId \in 0 .. MaxRows
    /\ handling \in [RowIds -> {"none", "queued", "routed"}]
    /\ job \in [Workers -> Job]
    /\ replay \in [batch : SUBSET RowIds, routed : RowIds \cup {0}]
    /\ sweep \in [todo : SUBSET RowIds, doomed : SUBSET RowIds]
    /\ calls \in 0 .. MaxCalls
    /\ faults \in 0 .. MaxFaults
    /\ evalFails \in [RowIds -> Nat]
    /\ \A r \in RowIds : row[r].status = "free" <=> r > lastId

(* A row is failed as timed out only when its queued_at is past the        *)
(* cutoff, however many writers touched it between the watchdog's SELECT   *)
(* and its UPDATE.                                                         *)
TimeoutsAreOverdue ==
    \A r \in RowIds : row[r].reason = "scoring_timeout" => row[r].aged

(* retryOrFail reads retry_count in one statement and writes it in another *)
(* while other goroutines score the same row; still a row is never given   *)
(* up for failed evaluations before that many evaluations of it failed.    *)
RetriesAreSpent ==
    \A r \in RowIds :
      /\ row[r].retries <= evalFails[r]
      /\ row[r].reason = "evaluation" => evalFails[r] >= ScoringMaxAttempts

(* A score only ever reaches a row of the URL or file it was computed for, *)
(* although ScoreByURL picks the row itself, several statements earlier.   *)
ScoresAreOwn ==
    \A r \in RowIds :
      row[r].status \in HasScore => row[r].scoreOf = row[r].name

(* Who may still overwrite the status of r: the agents that hold its id.   *)
Overwriters(r) ==
    {w \in Workers :
       \/ job[w].row = r /\ job[w].pc \notin {"idle", "archive"}
       \/ job[w].item = r /\ job[w].pc = "update"}

Held(r) ==
    \/ handling[r] # "none"
    \/ r \in replay.batch \/ replay.routed = r
    \/ r \in sweep.todo \cup sweep.doomed
    \/ Overwriters(r) # {}

Archivers(r) ==
    {w \in Workers : job[w].item = r /\ job[w].pc \in {"reread", "archive"}}

AtRest(r) ==
    /\ ~Held(r)
    /\ \/ row[r].status \in HasScore
       \/ row[r].status \in Rejected /\ Archivers(r) = {}

SameOutcome(old, new) == old = new \/ {old, new} \subseteq HasScore

(* A settled row that no goroutine, handler, batch or sweep holds is       *)
(* settled for good: none of the selects (pending rows, stuck rows, open   *)
(* rows of a URL) picks it up again. Only POST /queue/{id}/score may.      *)
SettledIsFinal ==
    [][\A r \in RowIds : AtRest(r) =>
         \/ AtRest(r)' /\ SameOutcome(row[r].status, row'[r].status)
         \/ \E w \in Workers, hi \in BOOLEAN : QueueScore(w, r, hi)]_vars

(* A prefiltered share is never routed, captured, scored or timed out.     *)
PrefilteredIsFinal ==
    [][\A r \in RowIds : row[r].status = "prefiltered" =>
         \/ row'[r].status = "prefiltered"
         \/ \E w \in Workers, hi \in BOOLEAN : QueueScore(w, r, hi)]_vars

(* Every share is settled in the end, whatever fails, races or restarts:   *)
(* the replay loop takes what is pending, the watchdog what is relayed.    *)
(* (Shares are finitely many here, so each of them settles exactly if from *)
(* some time on none is open.)                                             *)
EveryShareSettles == <>[](\A r \in RowIds : row[r].status \notin Open)

=============================================================================
