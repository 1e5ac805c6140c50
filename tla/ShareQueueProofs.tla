--------------------------- MODULE ShareQueueProofs ---------------------------
(***************************************************************************)
(* What holds of ShareQueue for every number of rows, goroutines, calls    *)
(* and restarts. One inductive invariant, Inv, carries the state           *)
(* properties; the action properties follow from it.                       *)
(***************************************************************************)
EXTENDS ShareQueue, TLAPS

Inserted == 1 .. lastId

(* What is true of every row of the table.                                 *)
RowOK(r) ==
    /\ row[r].status = "free" <=> r > lastId
    /\ row[r].reason = "scoring_timeout" => row[r].aged
    /\ row[r].retries <= evalFails[r]
    /\ row[r].reason = "evaluation" => evalFails[r] >= ScoringMaxAttempts
    /\ row[r].status \in HasScore => row[r].scoreOf = row[r].name

TableOK ==
    /\ row \in [RowIds -> Row]
    /\ lastId \in 0 .. MaxRows
    /\ evalFails \in [RowIds -> Nat]
    /\ \A r \in RowIds : RowOK(r)

(* What a goroutine or request remembers of the table is still true when   *)
(* it uses it: the rows exist, a retry has an evaluation behind it, a row  *)
(* about to be scored has the name that was scored, a row about to be      *)
(* archived was scored once.                                               *)
JobOK(w) ==
    /\ job[w].row \in 0 .. lastId
    /\ job[w].item \in 0 .. lastId
    /\ job[w].pc \in {"score", "retry", "capture"} => job[w].row # 0
    /\ job[w].pc \in {"update", "reread", "archive"} => job[w].item # 0
    /\ job[w].pc = "score" => job[w].name = row[job[w].row].name
    /\ job[w].pc = "retry" => job[w].count + 1 <= evalFails[job[w].row]
    /\ job[w].pc = "update" => row[job[w].item].name = job[w].name
    /\ job[w].pc \in {"reread", "archive"} =>
         row[job[w].item].scoreOf = row[job[w].item].name

JobsOK ==
    /\ job \in [Workers -> Job]
    /\ \A w \in Workers : JobOK(w)

(* The handlers, the replay loop and the watchdog hold inserted rows, and  *)
(* the watchdog only rows that are past the cutoff.                        *)
LoopsOK ==
    /\ handling \in [RowIds -> {"none", "queued", "routed"}]
    /\ \A r \in RowIds : handling[r] # "none" => r \in Inserted
    /\ replay \in [batch : SUBSET Inserted, routed : Inserted \cup {0}]
    /\ sweep \in [todo : SUBSET Inserted, doomed : SUBSET Inserted]
    /\ \A r \in sweep.todo \cup sweep.doomed : row[r].aged

CountsOK ==
    /\ calls \in 0 .. MaxCalls
    /\ faults \in 0 .. MaxFaults

Inv == TableOK /\ JobsOK /\ LoopsOK /\ CountsOK

USE ConstantsAssumption DEF ConstantsAssumption

LEMMA JobAtFacts ==
  ASSUME NEW pc \in JobPcs, NEW r \in RowIds \cup {0},
         NEW n \in Names \cup {NoName}, NEW i \in RowIds \cup {0}
  PROVE  /\ JobAt(pc, r, n, i) \in Job
         /\ JobAt(pc, r, n, i).pc = pc /\ JobAt(pc, r, n, i).row = r
         /\ JobAt(pc, r, n, i).name = n /\ JobAt(pc, r, n, i).item = i
BY DEF JobAt, Job

LEMMA IdleJobFacts ==
  /\ IdleJob \in Job
  /\ IdleJob.pc = "idle" /\ IdleJob.row = 0 /\ IdleJob.item = 0
BY JobAtFacts DEF IdleJob, JobPcs

LEMMA FreeRowFacts ==
  /\ FreeRow \in Row
  /\ FreeRow.status = "free" /\ FreeRow.reason = "other" /\ FreeRow.retries = 0
BY DEF FreeRow, Row, Statuses, Open, HasScore, Rejected, AllKinds, Reasons

LEMMA InvTypeOK == Inv => TypeOK
<1> SUFFICES ASSUME Inv PROVE TypeOK
  OBVIOUS
<1>1. Inserted \subseteq RowIds
  BY DEF Inv, TableOK, Inserted, RowIds
<1> QED
  BY <1>1 DEF Inv, TableOK, RowOK, JobsOK, LoopsOK, CountsOK, TypeOK

LEMMA InitInv == Init => Inv
<1> SUFFICES ASSUME Init PROVE Inv
  OBVIOUS
<1>1. TableOK
  BY FreeRowFacts DEF Init, TableOK, RowOK, RowIds, HasScore
<1>2. JobsOK
  BY IdleJobFacts DEF Init, JobsOK, JobOK
<1>3. LoopsOK
  BY DEF Init, LoopsOK, NoReplay, NoSweep, Inserted
<1> QED
  BY <1>1, <1>2, <1>3 DEF Init, Inv, CountsOK

-----------------------------------------------------------------------------
(* How the table may change, and what survives it.                         *)

(* Rows are never removed, keep their identity, stay old, keep a score     *)
(* that is their own; failed evaluations only add up.                      *)
Grows ==
    /\ lastId' \in 0 .. MaxRows
    /\ lastId <= lastId'
    /\ \A r \in Inserted :
         /\ row'[r].name = row[r].name
         /\ row[r].aged => row'[r].aged
         /\ row[r].scoreOf = row[r].name => row'[r].scoreOf = row'[r].name
         /\ evalFails[r] <= evalFails'[r]
         /\ evalFails'[r] \in Nat

(* One inserted row is updated.                                            *)
Updates(r) ==
    /\ row' \in [RowIds -> Row]
    /\ \A q \in RowIds \ {r} : row'[q] = row[q]
    /\ row'[r].name = row[r].name
    /\ row[r].aged => row'[r].aged
    /\ row[r].scoreOf = row[r].name => row'[r].scoreOf = row'[r].name
    /\ RowOK(r)'
    /\ UNCHANGED <<lastId, evalFails>>

LEMMA InsertedRows ==
  ASSUME Inv
  PROVE  /\ Inserted \subseteq RowIds
         /\ lastId \in Nat
         /\ \A r \in RowIds : r \in Nat /\ (r \in Inserted <=> r <= lastId)
         /\ \A r \in RowIds : row[r].status # "free" <=> r \in Inserted
BY DEF Inv, TableOK, RowOK, Inserted, RowIds

LEMMA UpdateTable ==
  ASSUME Inv, NEW r \in Inserted, Updates(r)
  PROVE  TableOK' /\ Grows
<1>1. r \in RowIds
  BY InsertedRows
<1>2. TableOK'
  BY <1>1 DEF Inv, TableOK, Updates, RowOK
<1>3. Grows
  BY <1>1, InsertedRows DEF Inv, TableOK, Updates, Grows
<1> QED
  BY <1>2, <1>3

LEMMA SameTable ==
  ASSUME Inv, UNCHANGED <<row, lastId, evalFails>>
  PROVE  TableOK' /\ Grows
<1>1. TableOK'
  BY DEF Inv, TableOK, RowOK
<1>2. Grows
  BY InsertedRows DEF Inv, TableOK, Grows
<1> QED
  BY <1>1, <1>2

LEMMA SameJob ==
  ASSUME Inv, Grows, NEW w \in Workers, job'[w] = job[w]
  PROVE  JobOK(w)'
<1>1. job[w] \in Job /\ JobOK(w) /\ lastId \in Nat /\ lastId' \in Nat
  BY DEF Inv, JobsOK, TableOK, Grows
<1>2. \A r \in 0 .. lastId : r = 0 \/ r \in Inserted
  BY <1>1 DEF Inserted
<1>3. job[w].count \in Nat
  BY <1>1 DEF Job
<1> QED
  BY <1>1, <1>2, <1>3, InsertedRows DEF JobOK, Grows, Inv, TableOK

LEMMA SameJobs ==
  ASSUME Inv, Grows, UNCHANGED job
  PROVE  JobsOK'
BY SameJob DEF Inv, JobsOK

LEMMA SetJob ==
  ASSUME Inv, Grows, NEW w \in Workers, NEW j \in Job,
         job' = [job EXCEPT ![w] = j], JobOK(w)'
  PROVE  JobsOK'
<1>1. job' \in [Workers -> Job] /\ \A v \in Workers \ {w} : job'[v] = job[v]
  BY DEF Inv, JobsOK
<1> QED
  BY <1>1, SameJob DEF JobsOK

LEMMA FinishJob ==
  ASSUME Inv, Grows, NEW w \in Workers, Finish(w)
  PROVE  JobsOK'
<1>1. job'[w] = IdleJob
  BY DEF Finish, Inv, JobsOK
<1>2. JobOK(w)'
  BY <1>1, IdleJobFacts DEF JobOK, Grows
<1> QED
  BY <1>2, IdleJobFacts, SetJob DEF Finish

LEMMA SameLoops ==
  ASSUME Inv, Grows, UNCHANGED <<handling, replay, sweep>>
  PROVE  LoopsOK'
<1>1. Inserted \subseteq Inserted'
  BY DEF Inserted, Grows, Inv, TableOK
<1>2. \A r \in sweep.todo \cup sweep.doomed : r \in Inserted
  BY DEF Inv, LoopsOK
<1> QED
  BY <1>1, <1>2 DEF Inv, LoopsOK, Grows
-----------------------------------------------------------------------------
(* The statements of the code are updates.                                 *)

LEMMA RowFacts ==
  ASSUME Inv, NEW r \in Inserted
  PROVE  /\ r \in RowIds /\ row[r] \in Row /\ RowOK(r)
         /\ row \in [RowIds -> Row] /\ evalFails[r] \in Nat
         /\ r \in 1 .. lastId /\ lastId \in Nat
BY InsertedRows DEF Inv, TableOK, Inserted

LEMMA SetStatus ==
  ASSUME Inv, NEW r \in Inserted, NEW st \in Statuses \ {"free"},
         row' = [row EXCEPT ![r] = [@ EXCEPT !.status = st]],
         st \in HasScore => row[r].scoreOf = row[r].name,
         UNCHANGED <<lastId, evalFails>>
  PROVE  Updates(r)
<1>1. [row[r] EXCEPT !.status = st] \in Row
  BY RowFacts DEF Row
<1>2. /\ row' \in [RowIds -> Row]
      /\ row'[r] = [row[r] EXCEPT !.status = st]
      /\ \A q \in RowIds \ {r} : row'[q] = row[q]
  BY <1>1, RowFacts
<1> QED
  BY <1>2, RowFacts DEF Row, RowOK, Updates

LEMMA FailWithReason ==
  ASSUME Inv, NEW r \in Inserted, NEW why \in Reasons,
         row' = MarkFailedWithReason(r, why),
         why = "scoring_timeout" => row[r].aged,
         why # "evaluation",
         UNCHANGED <<lastId, evalFails>>
  PROVE  Updates(r)
<1>1. [row[r] EXCEPT !.status = "failed", !.reason = why] \in Row
  <2>1. "failed" \in Statuses
    BY DEF Statuses, Rejected
  <2> QED
    <3>1. row[r] \in Row
      BY RowFacts
    <3>2. QED
      BY <2>1, <3>1 DEF Row
<1>2. /\ row' \in [RowIds -> Row]
      /\ row'[r] = [row[r] EXCEPT !.status = "failed", !.reason = why]
      /\ \A q \in RowIds \ {r} : row'[q] = row[q]
  BY <1>1, RowFacts DEF MarkFailedWithReason
<1>3. "failed" \notin HasScore /\ "failed" # "free"
  BY DEF HasScore
<1> QED
  BY <1>2, <1>3, RowFacts DEF Row, RowOK, Updates

LEMMA Store ==
  ASSUME Inv, NEW r \in Inserted, NEW hi \in BOOLEAN,
         row' = StoreScore(r, row[r].name, hi),
         UNCHANGED <<lastId, evalFails>>
  PROVE  Updates(r) /\ row'[r].scoreOf = row'[r].name
<1>1. [row[r] EXCEPT !.status = "scored", !.scoreOf = row[r].name, !.high = hi] \in Row
  BY RowFacts DEF Row, Statuses, HasScore
<1>2. /\ row' \in [RowIds -> Row]
      /\ row'[r] = [row[r] EXCEPT !.status = "scored",
                                  !.scoreOf = row[r].name, !.high = hi]
      /\ \A q \in RowIds \ {r} : row'[q] = row[q]
  BY <1>1, RowFacts DEF StoreScore
<1> QED
  BY <1>2, RowFacts DEF Row, RowOK, Updates

(* A new row is the next id; everything else is as before.                 *)
LEMMA NextId ==
  ASSUME Inv, lastId < MaxRows
  PROVE  \E n \in RowIds : n = lastId + 1
BY DEF Inv, TableOK, RowIds

LEMMA Insertion ==
  ASSUME Inv, NEW n \in RowIds, n = lastId + 1, NEW new \in Row,
         new.status # "free", new.retries = 0, new.reason = "other",
         new.status \in HasScore => new.scoreOf = new.name,
         row' = [row EXCEPT ![lastId + 1] = new],
         lastId' = lastId + 1, UNCHANGED evalFails
  PROVE  /\ TableOK' /\ Grows
         /\ n \in Inserted' /\ n \notin Inserted
         /\ row'[n] = new
<1>1. /\ lastId \in Nat /\ n \in Nat /\ lastId' = n /\ lastId' \in 0 .. MaxRows
      /\ n \in Inserted' /\ n \notin Inserted
  BY DEF Inv, TableOK, RowIds, Inserted
<1>2. /\ row' \in [RowIds -> Row]
      /\ row'[n] = new
      /\ \A q \in RowIds \ {n} : row'[q] = row[q]
  BY DEF Inv, TableOK
<1>3. ASSUME NEW q \in RowIds \ {n} PROVE RowOK(q)'
  <2>1. q \in Nat /\ (q > lastId <=> q > lastId')
    BY <1>1 DEF RowIds
  <2>2. RowOK(q) /\ row'[q] = row[q]
    BY <1>2 DEF Inv, TableOK
  <2> QED
    BY <2>1, <2>2 DEF RowOK
<1>4. RowOK(n)'
  <2>1. evalFails'[n] \in Nat /\ ~(n > lastId')
    BY <1>1 DEF Inv, TableOK
  <2> QED
    BY <1>2, <2>1 DEF RowOK
<1>5. TableOK'
  BY <1>1, <1>2, <1>3, <1>4 DEF Inv, TableOK
<1>6. Grows
  <2>1. \A r \in Inserted : r \in RowIds \ {n}
    BY <1>1, InsertedRows
  <2>2. \A r \in Inserted : row'[r] = row[r] /\ evalFails[r] \in Nat
    BY <1>2, <2>1 DEF Inv, TableOK
  <2> QED
    BY <1>1, <2>2 DEF Grows
<1> QED
  BY <1>1, <1>2, <1>5, <1>6

LEMMA NewRowFacts ==
  ASSUME NEW k \in AllKinds, NEW n \in Names \cup {NoName}, NEW st \in Statuses \ {"free"},
         st # "archived"
  PROVE  /\ NewRow(k, n, st) \in Row
         /\ NewRow(k, n, st).status = st /\ NewRow(k, n, st).name = n
         /\ NewRow(k, n, st).kind = k
         /\ NewRow(k, n, st).retries = 0 /\ NewRow(k, n, st).reason = "other"
         /\ st \in HasScore => NewRow(k, n, st).scoreOf = n
<1> DEFINE new == NewRow(k, n, st)
<1>1. /\ new.status = st /\ new.name = n /\ new.kind = k
      /\ new.retries = 0 /\ new.reason = "other"
      /\ new.scoreOf = IF st = "scored" THEN n ELSE NoName
  BY DEF NewRow
<1>2. new \in Row
  BY DEF NewRow, Row, Reasons
<1> QED
  BY <1>1, <1>2 DEF HasScore

(* A goroutine that is started on an inserted row.                         *)
LEMMA Scoring ==
  ASSUME Inv, NEW w \in Workers, NEW r \in Inserted, StartScoring(w, r),
         UNCHANGED <<row, lastId, evalFails>>
  PROVE  JobsOK'
<1> DEFINE j == JobAt("score", r, row[r].name, 0)
<1>1. row[r].name \in Names \cup {NoName}
  BY RowFacts DEF Row
<1>2. j \in Job /\ j.pc = "score" /\ j.row = r /\ j.item = 0 /\ j.name = row[r].name
  BY <1>1, RowFacts, JobAtFacts DEF JobPcs
<1>3. job'[w] = j
  BY DEF StartScoring, Inv, JobsOK
<1>4. JobOK(w)'
  BY <1>2, <1>3, RowFacts DEF JobOK
<1> QED
  BY <1>2, <1>4, SameTable, SetJob DEF StartScoring

LEMMA Capturing ==
  ASSUME Inv, NEW w \in Workers, NEW r \in Inserted, StartCapture(w, r),
         UNCHANGED <<row, lastId, evalFails>>
  PROVE  JobsOK'
<1> DEFINE j == JobAt("capture", r, NoName, 0)
<1>1. j \in Job /\ j.pc = "capture" /\ j.row = r /\ j.item = 0
  BY RowFacts, JobAtFacts DEF JobPcs
<1>2. job'[w] = j
  BY DEF StartCapture, Inv, JobsOK
<1>3. JobOK(w)'
  BY <1>1, <1>2, RowFacts DEF JobOK
<1> QED
  BY <1>1, <1>3, SameTable, SetJob DEF StartCapture

LEMMA SetHandling ==
  ASSUME Inv, Grows, NEW r \in RowIds, NEW s \in {"none", "queued", "routed"},
         handling' = [handling EXCEPT ![r] = s],
         s # "none" => r \in Inserted', UNCHANGED <<replay, sweep>>
  PROVE  LoopsOK'
<1>1. Inserted \subseteq Inserted'
  BY DEF Inserted, Grows, Inv, TableOK
<1>2. \A q \in sweep.todo \cup sweep.doomed : q \in Inserted
  BY DEF Inv, LoopsOK
<1>3. handling' \in [RowIds -> {"none", "queued", "routed"}]
  BY DEF Inv, LoopsOK
<1>4. \A q \in RowIds : handling'[q] # "none" => q \in Inserted'
  BY <1>1 DEF Inv, LoopsOK
<1> QED
  BY <1>1, <1>2, <1>3, <1>4 DEF Inv, LoopsOK, Grows

LEMMA SetReplay ==
  ASSUME Inv, Grows, NEW B \in SUBSET Inserted, NEW r \in Inserted \cup {0},
         replay' = [batch |-> B, routed |-> r], UNCHANGED <<handling, sweep>>
  PROVE  LoopsOK'
<1>1. Inserted \subseteq Inserted'
  BY DEF Inserted, Grows, Inv, TableOK
<1>2. \A q \in sweep.todo \cup sweep.doomed : q \in Inserted
  BY DEF Inv, LoopsOK
<1> QED
  BY <1>1, <1>2 DEF Inv, LoopsOK, Grows

LEMMA SetSweep ==
  ASSUME Inv, Grows, NEW S \in SUBSET Inserted, NEW T \in SUBSET Inserted,
         sweep' = [todo |-> S, doomed |-> T], UNCHANGED <<handling, replay>>,
         \A r \in S \cup T : row[r].aged
  PROVE  LoopsOK'
<1>1. Inserted \subseteq Inserted'
  BY DEF Inserted, Grows, Inv, TableOK
<1>2. \A r \in S \cup T : row'[r].aged
  BY DEF Grows
<1> QED
  BY <1>1, <1>2 DEF Inv, LoopsOK

LEMMA SameCounts ==
  ASSUME Inv, UNCHANGED <<calls, faults>>
  PROVE  CountsOK'
BY DEF Inv, CountsOK

-----------------------------------------------------------------------------
(* Every action preserves Inv.                                             *)

LEMMA IntakeInv ==
  ASSUME Inv, Intake
  PROVE  Inv'
<1> PICK n \in Names :
      \/ \E k \in Kinds : ShareEnqueue(k, n)
      \/ SharePrefiltered(n)
      \/ SourceEnqueue(n)
      \/ \E w \in Workers : FirehoseEnqueue(w, n)
  BY DEF Intake
<1>1. PICK k \in AllKinds, st \in {"pending", "scored", "prefiltered"} :
        /\ lastId < MaxShares /\ InsertRow(k, n, st)
        /\ UNCHANGED <<replay, sweep, calls, faults, evalFails>>
        /\ \/ UNCHANGED job /\ handling' = [handling EXCEPT ![lastId + 1] = "queued"]
           \/ UNCHANGED job /\ UNCHANGED handling
           \/ /\ UNCHANGED handling
              /\ \E w \in Workers :
                   job' = [job EXCEPT ![w] = JobAt("score", lastId + 1, n, 0)]
  BY DEF ShareEnqueue, SharePrefiltered, SourceEnqueue, FirehoseEnqueue, AllKinds
<1>2. lastId < MaxRows
  BY <1>1 DEF Inv, TableOK
<1>3. PICK r \in RowIds : r = lastId + 1
  BY <1>2, NextId
<1>4. /\ NewRow(k, n, st) \in Row /\ NewRow(k, n, st).status = st
      /\ NewRow(k, n, st).name = n /\ NewRow(k, n, st).scoreOf \in {n, NoName}
      /\ NewRow(k, n, st).retries = 0 /\ NewRow(k, n, st).reason = "other"
      /\ st \in HasScore => NewRow(k, n, st).scoreOf = n
  BY NewRowFacts DEF Statuses, Open, HasScore, Rejected, NewRow
<1>5. /\ TableOK' /\ Grows /\ r \in Inserted' /\ row'[r] = NewRow(k, n, st)
  BY <1>1, <1>3, <1>4, Insertion DEF InsertRow
<1>6. JobsOK'
  <2>1. CASE UNCHANGED job
    BY <1>5, <2>1, SameJobs
  <2>2. ASSUME NEW w \in Workers,
               job' = [job EXCEPT ![w] = JobAt("score", lastId + 1, n, 0)]
        PROVE  JobsOK'
    <3> DEFINE j == JobAt("score", r, n, 0)
    <3>1. j \in Job /\ j.pc = "score" /\ j.row = r /\ j.item = 0 /\ j.name = n
      BY JobAtFacts DEF JobPcs
    <3>2. job' = [job EXCEPT ![w] = j] /\ job'[w] = j
      BY <1>3, <2>2 DEF Inv, JobsOK
    <3>3. r \in 0 .. lastId' /\ 0 \in 0 .. lastId' /\ r # 0
      BY <1>5 DEF Inserted, Grows
    <3>4. JobOK(w)'
      BY <1>4, <1>5, <3>1, <3>2, <3>3 DEF JobOK
    <3> QED
      BY <1>5, <3>1, <3>2, <3>4, SetJob
  <2> QED
    BY <1>1, <2>1, <2>2
<1>7. LoopsOK'
  BY <1>1, <1>3, <1>5, SameLoops, SetHandling
<1> QED
  BY <1>1, <1>5, <1>6, <1>7, SameCounts DEF Inv

LEMMA HandlerInv ==
  ASSUME Inv, NEW r \in RowIds, Handler(r)
  PROVE  Inv'
<1>1. handling[r] # "none"
  BY DEF Handler, HandlerCapture, HandlerRoute, HandlerRouteFails, HandlerMarkRelayed
<1>2. r \in Inserted
  BY <1>1 DEF Inv, LoopsOK
<1>3. CASE UNCHANGED row
  <2>1. /\ UNCHANGED <<row, lastId, replay, sweep, calls, faults, evalFails>>
        /\ \E s \in {"none", "routed"} : handling' = [handling EXCEPT ![r] = s]
        /\ UNCHANGED job \/ \E w \in Workers : StartScoring(w, r) \/ StartCapture(w, r)
    BY <1>2, <1>3 DEF Handler, HandlerCapture, HandlerRoute, HandlerRouteFails,
       HandlerMarkRelayed
  <2>2. TableOK' /\ Grows
    BY <2>1, SameTable
  <2>3. JobsOK'
    BY <1>2, <2>1, <2>2, SameJobs, Scoring, Capturing
  <2>4. LoopsOK'
    <3>1. r \in Inserted'
      BY <1>2, <2>1 DEF Inserted
    <3> QED
      BY <2>1, <2>2, <3>1, SetHandling
  <2> QED
    BY <2>1, <2>2, <2>3, <2>4, SameCounts DEF Inv
<1>4. CASE HandlerMarkRelayed(r)
  <2>1. /\ row' = [row EXCEPT ![r] = [@ EXCEPT !.status = "relayed"]]
        /\ handling' = [handling EXCEPT ![r] = "none"]
        /\ UNCHANGED <<lastId, job, replay, sweep, calls, faults, evalFails>>
    BY <1>4 DEF HandlerMarkRelayed, MarkRelayed
  <2>2. Updates(r)
    BY <1>2, <2>1, SetStatus DEF Statuses, Open, HasScore
  <2>3. TableOK' /\ Grows
    BY <1>2, <2>2, UpdateTable
  <2> QED
    BY <2>1, <2>3, SameJobs, SetHandling, SameCounts DEF Inv
<1> QED
  BY <1>3, <1>4 DEF Handler, HandlerCapture, HandlerRoute, HandlerRouteFails

(* An update of one row by the replay loop, the watchdog or a goroutine.   *)
LEMMA ReplayInv ==
  ASSUME Inv, Replay
  PROVE  Inv'
<1>0. /\ replay.batch \subseteq Inserted /\ replay.routed \in Inserted \cup {0}
      /\ replay = [batch |-> replay.batch, routed |-> replay.routed]
  BY DEF Inv, LoopsOK
<1>1. CASE ReplaySelect
  <2>1. Pending \subseteq Inserted
    BY InsertedRows DEF Pending
  <2>2. /\ replay' = [batch |-> Pending, routed |-> replay.routed]
        /\ UNCHANGED <<row, lastId, handling, job, sweep, calls, faults, evalFails>>
    BY <1>0, <1>1 DEF ReplaySelect
  <2> QED
    BY <1>0, <2>1, <2>2, SameTable, SameJobs, SetReplay, SameCounts DEF Inv
<1>2. ASSUME NEW r \in RowIds, NEW w \in Workers, ReplayCapture(r, w)
      PROVE  Inv'
  <2>1. r \in Inserted
    BY <1>0, <1>2 DEF ReplayCapture, ReplayNext, IsFirst
  <2>2. /\ replay' = [batch |-> replay.batch \ {r}, routed |-> replay.routed]
        /\ replay.batch \ {r} \subseteq Inserted
        /\ StartCapture(w, r)
        /\ UNCHANGED <<row, lastId, handling, sweep, calls, faults, evalFails>>
    BY <1>0, <1>2 DEF ReplayCapture
  <2> QED
    BY <1>0, <2>1, <2>2, SameTable, Capturing, SetReplay, SameCounts DEF Inv
<1>3. ASSUME NEW r \in RowIds, ReplayRoute(r)
      PROVE  Inv'
  <2>1. r \in Inserted
    BY <1>0, <1>3 DEF ReplayRoute, ReplayNext, IsFirst
  <2>2. /\ replay' = [batch |-> replay.batch \ {r}, routed |-> r]
        /\ replay.batch \ {r} \subseteq Inserted
        /\ UNCHANGED job \/ \E w \in Workers : StartScoring(w, r)
        /\ UNCHANGED <<row, lastId, handling, sweep, calls, faults, evalFails>>
    BY <1>0, <1>3 DEF ReplayRoute
  <2>3. TableOK' /\ Grows
    BY <2>2, SameTable
  <2>4. JobsOK'
    BY <2>1, <2>2, <2>3, Scoring, SameJobs
  <2> QED
    BY <2>1, <2>2, <2>3, <2>4, SetReplay, SameCounts DEF Inv
<1>4. ASSUME NEW r \in RowIds, ReplayRouteFails(r)
      PROVE  Inv'
  <2>1. r \in Inserted
    BY <1>0, <1>4 DEF ReplayRouteFails, ReplayNext, IsFirst
  <2>2. /\ replay' = [batch |-> replay.batch \ {r}, routed |-> replay.routed]
        /\ replay.batch \ {r} \subseteq Inserted
        /\ row' = [row EXCEPT ![r] = [@ EXCEPT !.status = "failed"]]
        /\ UNCHANGED <<lastId, handling, job, sweep, calls, faults, evalFails>>
    BY <1>0, <1>4 DEF ReplayRouteFails, MarkFailed
  <2>3. Updates(r)
    BY <2>1, <2>2, SetStatus DEF Statuses, Rejected, HasScore
  <2>4. TableOK' /\ Grows
    BY <2>1, <2>3, UpdateTable
  <2> QED
    BY <1>0, <2>2, <2>4, SameJobs, SetReplay, SameCounts DEF Inv
<1>5. ASSUME NEW r \in RowIds, ReplayMarkRelayed(r)
      PROVE  Inv'
  <2>1. r \in Inserted
    BY <1>0, <1>5 DEF ReplayMarkRelayed, RowIds
  <2>2. /\ replay' = [batch |-> replay.batch, routed |-> 0]
        /\ row' = [row EXCEPT ![r] = [@ EXCEPT !.status = "relayed"]]
        /\ UNCHANGED <<lastId, handling, job, sweep, calls, faults, evalFails>>
    BY <1>0, <1>5 DEF ReplayMarkRelayed, MarkRelayed
  <2>3. Updates(r)
    BY <2>1, <2>2, SetStatus DEF Statuses, Open, HasScore
  <2>4. TableOK' /\ Grows
    BY <2>1, <2>3, UpdateTable
  <2> QED
    BY <1>0, <2>2, <2>4, SameJobs, SetReplay, SameCounts DEF Inv
<1> QED
  BY <1>1, <1>2, <1>3, <1>4, <1>5 DEF Replay

LEMMA SweepInv ==
  ASSUME Inv, Sweep
  PROVE  Inv'
<1>0. /\ sweep.todo \subseteq Inserted /\ sweep.doomed \subseteq Inserted
      /\ sweep = [todo |-> sweep.todo, doomed |-> sweep.doomed]
      /\ \A r \in sweep.todo \cup sweep.doomed : row[r].aged
  BY DEF Inv, LoopsOK
<1>1. CASE SweepSelect
  <2>1. StuckRelayed \subseteq Inserted /\ \A r \in StuckRelayed : row[r].aged
    BY InsertedRows DEF StuckRelayed
  <2>2. /\ sweep' = [todo |-> StuckRelayed, doomed |-> sweep.doomed]
        /\ UNCHANGED <<row, lastId, handling, job, replay, calls, faults, evalFails>>
    BY <1>0, <1>1 DEF SweepSelect
  <2> QED
    BY <1>0, <2>1, <2>2, SameTable, SameJobs, SetSweep, SameCounts DEF Inv
<1>2. ASSUME NEW r \in RowIds, NEW hi \in BOOLEAN, SweepRescue(r, hi)
      PROVE  Inv'
  <2>1. /\ r \in Inserted
        /\ sweep' = [todo |-> sweep.todo \ {r}, doomed |-> sweep.doomed]
        /\ UNCHANGED <<lastId, handling, job, replay, calls, faults, evalFails>>
    BY <1>0, <1>2 DEF SweepRescue
  <2>2. TableOK' /\ Grows
    <3>1. CASE row[r].status = "relayed"
      BY <1>2, <2>1, <3>1, Store, UpdateTable DEF SweepRescue
    <3>2. CASE row[r].status # "relayed"
      BY <1>2, <2>1, <3>2, SameTable DEF SweepRescue
    <3> QED
      BY <3>1, <3>2
  <2>3. LoopsOK'
    <3>1. sweep.todo \ {r} \subseteq Inserted
      BY <1>0
    <3> QED
      BY <1>0, <2>1, <2>2, <3>1, SetSweep
  <2> QED
    BY <2>1, <2>2, <2>3, SameJobs, SameCounts DEF Inv
<1>3. ASSUME NEW r \in RowIds, SweepMiss(r)
      PROVE  Inv'
  <2>1. /\ sweep' = [todo |-> sweep.todo \ {r}, doomed |-> sweep.doomed \cup {r}]
        /\ sweep.todo \ {r} \subseteq Inserted /\ sweep.doomed \cup {r} \subseteq Inserted
        /\ \A q \in (sweep.todo \ {r}) \cup (sweep.doomed \cup {r}) : row[q].aged
        /\ UNCHANGED <<row, lastId, handling, job, replay, calls, faults, evalFails>>
    BY <1>0, <1>3 DEF SweepMiss
  <2> QED
    BY <2>1, SameTable, SameJobs, SetSweep, SameCounts DEF Inv
<1>4. ASSUME NEW r \in RowIds, SweepMark(r)
      PROVE  Inv'
  <2>1. /\ r \in Inserted /\ row[r].aged
        /\ row' = MarkFailedWithReason(r, "scoring_timeout")
        /\ sweep' = [todo |-> sweep.todo, doomed |-> sweep.doomed \ {r}]
        /\ sweep.doomed \ {r} \subseteq Inserted
        /\ UNCHANGED <<lastId, handling, job, replay, calls, faults, evalFails>>
    BY <1>0, <1>4 DEF SweepMark
  <2>2. Updates(r)
    BY <2>1, FailWithReason DEF Reasons
  <2>3. TableOK' /\ Grows
    BY <2>1, <2>2, UpdateTable
  <2>4. LoopsOK'
    BY <1>0, <2>1, <2>3, SetSweep
  <2> QED
    BY <2>1, <2>3, <2>4, SameJobs, SameCounts DEF Inv
<1> QED
  BY <1>1, <1>2, <1>3, <1>4 DEF Sweep

LEMMA TimeInv ==
  ASSUME Inv, NEW r \in RowIds, Time(r)
  PROVE  Inv'
<1>1. /\ row[r].status # "free"
      /\ UNCHANGED <<lastId, handling, job, replay, sweep, calls, faults, evalFails>>
  BY DEF Time, QueuedLong, BackoffEnds, Open
<1>2. r \in Inserted
  BY <1>1, InsertedRows
<1>3. Updates(r)
  <2>1. CASE QueuedLong(r)
    <3>1. [row[r] EXCEPT !.aged = TRUE] \in Row
      BY <1>2, RowFacts DEF Row
    <3>2. /\ row' \in [RowIds -> Row]
          /\ row'[r] = [row[r] EXCEPT !.aged = TRUE]
          /\ \A q \in RowIds \ {r} : row'[q] = row[q]
      BY <1>2, <2>1, <3>1, RowFacts DEF QueuedLong
    <3> QED
      BY <1>1, <1>2, <3>2, RowFacts DEF Row, RowOK, Updates
  <2>2. CASE BackoffEnds(r)
    <3>1. [row[r] EXCEPT !.due = TRUE] \in Row
      BY <1>2, RowFacts DEF Row
    <3>2. /\ row' \in [RowIds -> Row]
          /\ row'[r] = [row[r] EXCEPT !.due = TRUE]
          /\ \A q \in RowIds \ {r} : row'[q] = row[q]
      BY <1>2, <2>2, <3>1, RowFacts DEF BackoffEnds
    <3> QED
      BY <1>1, <1>2, <3>2, RowFacts DEF Row, RowOK, Updates
  <2> QED
    BY <2>1, <2>2 DEF Time
<1> QED
  BY <1>1, <1>2, <1>3, UpdateTable, SameJobs, SameLoops, SameCounts DEF Inv

LEMMA RestartInv ==
  ASSUME Inv, Restart
  PROVE  Inv'
<1>1. UNCHANGED <<row, lastId, evalFails, calls>>
  BY DEF Restart
<1>2. TableOK' /\ Grows
  BY <1>1, SameTable
<1>3. JobsOK'
  BY <1>2, IdleJobFacts DEF Restart, JobsOK, JobOK, Grows
<1>4. LoopsOK'
  BY DEF Restart, LoopsOK, NoReplay, NoSweep
<1>5. CountsOK'
  BY DEF Restart, Inv, CountsOK
<1> QED
  BY <1>2, <1>3, <1>4, <1>5 DEF Inv

LEMMA WriteFailsInv ==
  ASSUME Inv, WriteFails
  PROVE  Inv'
<1>1. UNCHANGED <<row, lastId, evalFails>>
  BY DEF WriteFails
<1>2. TableOK' /\ Grows
  BY <1>1, SameTable
<1>3. CountsOK'
  BY DEF WriteFails, Inv, CountsOK
<1>4. CASE UNCHANGED <<handling, replay, sweep>> /\ \E w \in Workers : Finish(w)
  BY <1>2, <1>3, <1>4, SameLoops, FinishJob DEF Inv
<1>5. CASE /\ UNCHANGED <<job, replay, sweep>>
           /\ \E r \in RowIds : handling' = [handling EXCEPT ![r] = "none"]
  BY <1>2, <1>3, <1>5, SameJobs, SetHandling DEF Inv
<1>6. CASE /\ UNCHANGED <<handling, job, sweep>>
           /\ \/ replay' = [replay EXCEPT !.routed = 0]
              \/ \E r \in RowIds : replay' = [replay EXCEPT !.batch = @ \ {r}]
  <2>1. PICK B \in SUBSET Inserted, q \in Inserted \cup {0} :
          replay' = [batch |-> B, routed |-> q]
    BY <1>6 DEF Inv, LoopsOK
  <2> QED
    BY <1>2, <1>3, <1>6, <2>1, SameJobs, SetReplay DEF Inv
<1>7. CASE UNCHANGED <<handling, job, replay>> /\ sweep' = NoSweep
  BY <1>2, <1>3, <1>7, SameJobs, SetSweep DEF Inv, NoSweep
<1> QED
  BY <1>4, <1>5, <1>6, <1>7 DEF WriteFails

(* The row a goroutine works for, and the one it is about to write.        *)
LEMMA JobFacts ==
  ASSUME Inv, NEW w \in Workers
  PROVE  /\ job[w] \in Job /\ JobOK(w) /\ job \in [Workers -> Job]
         /\ job[w].row # 0 => job[w].row \in Inserted
         /\ job[w].item # 0 => job[w].item \in Inserted
         /\ job[w].row \in RowIds \cup {0} /\ job[w].item \in RowIds \cup {0}
         /\ job[w].name \in Names \cup {NoName} /\ job[w].high \in BOOLEAN
         /\ job[w].count \in Nat
<1>1. job[w] \in Job /\ JobOK(w) /\ job \in [Workers -> Job] /\ lastId \in Nat
  BY DEF Inv, JobsOK, TableOK
<1>2. \A r \in 0 .. lastId : r # 0 => r \in Inserted
  BY <1>1 DEF Inserted
<1> QED
  BY <1>1, <1>2 DEF Job, JobOK

(* The tail of scoreAsync, on a row that has a score of its own.           *)
LEMMA Tail ==
  ASSUME Inv, Grows, NEW w \in Workers, NEW i \in Inserted, NEW hi \in BOOLEAN,
         job' = [job EXCEPT ![w] = ArchiveIf(hi, i)],
         row'[i].scoreOf = row'[i].name
  PROVE  JobsOK'
<1>1. /\ i \in RowIds \cup {0} /\ i # 0 /\ i \in 0 .. lastId'
      /\ 0 \in 0 .. lastId' /\ job'[w] = ArchiveIf(hi, i)
  BY RowFacts DEF Grows, Inv, JobsOK
<1>2. CASE hi
  <2>1. /\ ArchiveIf(hi, i) \in Job /\ ArchiveIf(hi, i).pc = "archive"
        /\ ArchiveIf(hi, i).item = i /\ ArchiveIf(hi, i).row = 0
    BY <1>1, <1>2, JobAtFacts DEF ArchiveIf, JobPcs
  <2>2. JobOK(w)'
    BY <1>1, <2>1 DEF JobOK
  <2> QED
    BY <2>1, <2>2, SetJob
<1>3. CASE ~hi
  BY <1>3, FinishJob DEF ArchiveIf, Finish
<1> QED
  BY <1>2, <1>3

(* A goroutine reads the table and moves on: ScoreByURL's first SELECT,    *)
(* called for the name n.                                                  *)
LEMMA FindScoredJobs ==
  ASSUME Inv, NEW w \in Workers, NEW j \in Job,
         FindScored(w, j), UNCHANGED <<row, lastId, evalFails>>,
         j.row \in 0 .. lastId, j.item \in 0 .. lastId
  PROVE  JobsOK'
<1>1. Grows
  BY SameTable
<1> DEFINE scored == {r \in WithURL(j.name) : row[r].status \in HasScore}
<1>2. CASE scored = {}
  <2> DEFINE k == [j EXCEPT !.pc = "find_open"]
  <2>1. k \in Job /\ k.pc = "find_open" /\ k.row = j.row /\ k.item = j.item
    BY DEF Job, JobPcs
  <2>2. job' = [job EXCEPT ![w] = k] /\ job'[w] = k
    BY <1>2 DEF FindScored, Inv, JobsOK
  <2>3. JobOK(w)'
    BY <2>1, <2>2 DEF JobOK
  <2> QED
    BY <1>1, <2>1, <2>2, <2>3, SetJob
<1>3. CASE scored # {}
  <2>1. PICK r \in RowIds :
          /\ IsLatest(r, scored)
          /\ job' = [job EXCEPT ![w] = ArchiveIf(row[r].high, r)]
    BY <1>3 DEF FindScored
  <2>2. /\ row[r].status \in HasScore
        /\ row[r] \in Row /\ RowOK(r)
    BY <2>1 DEF IsLatest, Inv, TableOK
  <2>3. r \in Inserted
    BY <2>2, InsertedRows DEF HasScore
  <2>4. row'[r].scoreOf = row'[r].name /\ row[r].high \in BOOLEAN
    BY <2>2 DEF RowOK, Row
  <2> QED
    BY <1>1, <2>1, <2>3, <2>4, Tail
<1> QED
  BY <1>2, <1>3

(* The goroutine ends with one UPDATE of an inserted row.                  *)
LEMMA UpdateAndFinish ==
  ASSUME Inv, NEW w \in Workers, NEW r \in Inserted, Updates(r), Finish(w),
         UNCHANGED <<handling, replay, sweep, calls, faults>>
  PROVE  Inv'
BY UpdateTable, FinishJob, SameLoops, SameCounts DEF Inv

LEMMA FailingInv ==
  ASSUME Inv, NEW w \in Workers,
         \/ ScoringAborts(w) \/ PersistFails(w)
         \/ CaptureFails(w) \/ CaptureFallsBack(w) \/ SetCaptured(w)
  PROVE  Inv'
<1>1. Finish(w) /\ UNCHANGED <<lastId, handling, replay, sweep, calls, faults, evalFails>>
  BY DEF ScoringAborts, PersistFails, CaptureFails, CaptureFallsBack, SetCaptured
<1>2. CASE UNCHANGED row
  BY <1>1, <1>2, SameTable, FinishJob, SameLoops, SameCounts DEF Inv
<1>3. CASE row' # row
  <2>1. PICK r \in Inserted : r = job[w].row
    BY <1>3, JobFacts DEF JobOK, ScoringAborts, PersistFails, CaptureFails,
       CaptureFallsBack, SetCaptured
  <2>2. \/ \E why \in Reasons \ {"scoring_timeout", "evaluation"} :
             row' = MarkFailedWithReason(r, why)
        \/ row' = [row EXCEPT ![r] = [@ EXCEPT !.status = "captured"]]
    BY <1>3, <2>1 DEF ScoringAborts, PersistFails, CaptureFails, CaptureFallsBack,
       SetCaptured, Reasons
  <2>3. Updates(r)
    BY <1>1, <2>2, FailWithReason, SetStatus DEF Statuses, Rejected, HasScore
  <2> QED
    BY <1>1, <2>3, UpdateAndFinish
<1> QED
  BY <1>2, <1>3

LEMMA EvaluationFailsInv ==
  ASSUME Inv, NEW w \in Workers, EvaluationFails(w)
  PROVE  Inv'
<1> PICK r \in Inserted : r = job[w].row
  BY JobFacts DEF EvaluationFails, JobOK
<1> DEFINE j == [job[w] EXCEPT !.pc = "retry", !.count = row[r].retries]
<1>1. /\ job[w].pc = "score" /\ job[w] \in Job /\ JobOK(w)
      /\ job' = [job EXCEPT ![w] = j]
      /\ evalFails' = [evalFails EXCEPT ![r] = @ + 1]
      /\ UNCHANGED <<row, lastId, handling, replay, sweep, calls, faults>>
  BY JobFacts DEF EvaluationFails, JobOK
<1>2. /\ r \in RowIds /\ row[r] \in Row /\ RowOK(r) /\ evalFails[r] \in Nat
      /\ row[r].retries \in Nat
  BY <1>1, RowFacts DEF Row
<1>3. /\ evalFails' \in [RowIds -> Nat]
      /\ evalFails'[r] = evalFails[r] + 1
      /\ \A q \in RowIds \ {r} : evalFails'[q] = evalFails[q]
      /\ \A q \in RowIds : evalFails[q] \in Nat /\ evalFails[q] <= evalFails'[q]
  BY <1>1, <1>2 DEF Inv, TableOK
<1>4. TableOK'
  <2>1. ASSUME NEW q \in RowIds PROVE RowOK(q)'
    <3>1. RowOK(q) /\ row[q].retries \in Nat
      BY DEF Inv, TableOK, Row
    <3> QED
      BY <1>1, <1>3, <3>1 DEF RowOK, ScoringMaxAttempts
  <2> QED
    BY <1>1, <1>3, <2>1 DEF Inv, TableOK
<1>5. Grows
  BY <1>1, <1>3, InsertedRows DEF Inv, TableOK, Grows
<1>6. j \in Job /\ j.pc = "retry" /\ j.row = r /\ j.item = job[w].item
      /\ j.count = row[r].retries
  BY <1>1, <1>2 DEF Job, JobPcs
<1>7. job'[w] = j
  BY <1>1 DEF Inv, JobsOK
<1>8. JobOK(w)'
  <2>1. j.count + 1 <= evalFails'[r]
    BY <1>2, <1>3, <1>6 DEF RowOK
  <2> QED
    BY <1>1, <1>6, <1>7, <2>1 DEF JobOK
<1> QED
  BY <1>1, <1>4, <1>5, <1>6, <1>8, SetJob, SameLoops, SameCounts DEF Inv

LEMMA RetryOrFailInv ==
  ASSUME Inv, NEW w \in Workers, RetryOrFail(w)
  PROVE  Inv'
<1> PICK r \in Inserted, c \in Nat : r = job[w].row /\ c = job[w].count + 1
  BY JobFacts DEF RetryOrFail, JobOK
<1>1. /\ r \in Inserted /\ c \in Nat /\ c <= evalFails[r]
      /\ Finish(w)
      /\ UNCHANGED <<lastId, handling, replay, sweep, calls, faults, evalFails>>
  BY JobFacts DEF RetryOrFail, JobOK
<1>2. r \in RowIds /\ row[r] \in Row /\ RowOK(r) /\ row \in [RowIds -> Row]
  BY <1>1, RowFacts
<1>3. Updates(r)
  <2>1. CASE c >= ScoringMaxAttempts
    <3> DEFINE new == [row[r] EXCEPT !.status = "failed",
                         !.reason = "evaluation", !.retries = c]
    <3>1. "failed" \in Statuses /\ "evaluation" \in Reasons /\ "failed" \notin HasScore
      BY DEF Statuses, Rejected, Reasons, HasScore
    <3>2. new \in Row
      BY <1>1, <1>2, <3>1 DEF Row
    <3>3. row' = [row EXCEPT ![r] = new]
      BY <2>1 DEF RetryOrFail, OutOfAttempts
    <3>4. /\ row' \in [RowIds -> Row] /\ row'[r] = new
          /\ \A q \in RowIds \ {r} : row'[q] = row[q]
      BY <1>2, <3>2, <3>3
    <3>5. evalFails[r] >= ScoringMaxAttempts
      BY <1>1, <1>2, <2>1 DEF Inv, TableOK, ScoringMaxAttempts
    <3> QED
      BY <1>1, <1>2, <3>1, <3>4, <3>5, RowFacts DEF Row, RowOK, Updates
  <2>2. CASE ~(c >= ScoringMaxAttempts)
    <3> DEFINE new == [row[r] EXCEPT !.status = "pending",
                         !.retries = c, !.due = FALSE]
    <3>1. "pending" \in Statuses /\ "pending" \notin HasScore
      BY DEF Statuses, Open, HasScore
    <3>2. new \in Row
      BY <1>1, <1>2, <3>1 DEF Row
    <3>3. row' = [row EXCEPT ![r] = new]
      BY <2>2 DEF RetryOrFail, OutOfAttempts
    <3>4. /\ row' \in [RowIds -> Row] /\ row'[r] = new
          /\ \A q \in RowIds \ {r} : row'[q] = row[q]
      BY <1>2, <3>2, <3>3
    <3> QED
      BY <1>1, <1>2, <3>1, <3>4, RowFacts DEF Row, RowOK, Updates
  <2> QED
    BY <2>1, <2>2
<1> QED
  BY <1>1, <1>3, UpdateAndFinish

LEMMA EvaluationOfURLInv ==
  ASSUME Inv, NEW w \in Workers, NEW hi \in BOOLEAN, EvaluationOfURL(w, hi)
  PROVE  Inv'
<1> DEFINE j == [job[w] EXCEPT !.high = hi]
<1>1. j \in Job /\ j.row = job[w].row /\ j.item = job[w].item
  BY JobFacts DEF Job
<1>2. j.row \in 0 .. lastId /\ j.item \in 0 .. lastId
  BY <1>1, JobFacts DEF JobOK
<1>3. JobsOK'
  BY <1>1, <1>2, FindScoredJobs DEF EvaluationOfURL
<1> QED
  BY <1>3, SameTable, SameLoops, SameCounts DEF EvaluationOfURL, Inv

LEMMA NotifyInv ==
  ASSUME Inv, NEW w \in Workers, NEW n \in Names, NEW hi \in BOOLEAN, Notify(w, n, hi)
  PROVE  Inv'
<1> DEFINE k == JobAt("idle", 0, n, 0)
           j == [k EXCEPT !.high = hi]
<1>1. k \in Job /\ k.row = 0 /\ k.item = 0
  BY JobAtFacts DEF JobPcs
<1>2. j \in Job /\ j.row = 0 /\ j.item = 0
  BY <1>1 DEF Job
<1>3. 0 \in 0 .. lastId
  BY DEF Inv, TableOK
<1>4. JobsOK'
  BY <1>2, <1>3, FindScoredJobs DEF Notify
<1>5. CountsOK'
  BY DEF Notify, Inv, CountsOK
<1> QED
  BY <1>4, <1>5, SameTable, SameLoops DEF Notify, Inv

LEMMA EvaluationOfFileInv ==
  ASSUME Inv, NEW w \in Workers, NEW hi \in BOOLEAN, EvaluationOfFile(w, hi)
  PROVE  Inv'
<1> PICK r \in Inserted : r = job[w].row
  BY JobFacts DEF EvaluationOfFile, JobOK
<1>1. /\ job[w].pc = "score" /\ job[w] \in Job /\ JobOK(w)
      /\ r \in RowIds /\ row[r] \in Row /\ RowOK(r)
      /\ UNCHANGED <<row, lastId, handling, replay, sweep, calls, faults, evalFails>>
  BY JobFacts, RowFacts DEF EvaluationOfFile
<1>2. TableOK' /\ Grows
  BY <1>1, SameTable
<1>3. CASE row[r].status \notin HasScore
  <2> DEFINE j == [job[w] EXCEPT !.pc = "update", !.item = r, !.high = hi]
  <2>1. /\ j \in Job /\ j.pc = "update" /\ j.row = r /\ j.item = r
        /\ j.name = job[w].name
    BY <1>1 DEF Job, JobPcs
  <2>2. job' = [job EXCEPT ![w] = j] /\ job'[w] = j
    BY <1>3 DEF EvaluationOfFile, Inv, JobsOK
  <2>3. r \in 0 .. lastId' /\ r # 0
    BY <1>1, RowFacts
  <2>4. row'[r].name = job[w].name
    BY <1>1 DEF JobOK
  <2>5. JobOK(w)'
    BY <2>1, <2>2, <2>3, <2>4 DEF JobOK
  <2> QED
    BY <1>1, <1>2, <2>1, <2>2, <2>5, SetJob, SameLoops, SameCounts DEF Inv
<1>4. CASE row[r].status \in HasScore
  <2>1. job' = [job EXCEPT ![w] = ArchiveIf(hi, r)]
    BY <1>4 DEF EvaluationOfFile
  <2>2. row'[r].scoreOf = row'[r].name
    BY <1>1, <1>4 DEF RowOK
  <2>3. JobsOK'
    BY <1>2, <2>1, <2>2, Tail
  <2> QED
    BY <1>1, <1>2, <2>3, SameLoops, SameCounts DEF Inv
<1> QED
  BY <1>3, <1>4

(* ScoreByURL's second SELECT: the row it picks bears the scored URL.      *)
LEMMA FindOpenInv ==
  ASSUME Inv, NEW w \in Workers, FindOpen(w)
  PROVE  Inv'
<1>1. /\ job[w] \in Job /\ JobOK(w)
      /\ UNCHANGED <<row, lastId, handling, replay, sweep, calls, faults, evalFails>>
  BY JobFacts DEF FindOpen
<1>2. TableOK' /\ Grows
  BY <1>1, SameTable
<1>3. JobsOK'
  <2>1. CASE OpenOfURL(job[w].name) = {}
    <3> DEFINE j == [job[w] EXCEPT !.pc = "insert"]
    <3>1. /\ j \in Job /\ j.pc = "insert" /\ j.row = job[w].row
          /\ j.item = job[w].item
      BY <1>1 DEF Job, JobPcs
    <3>2. job' = [job EXCEPT ![w] = j] /\ job'[w] = j
      BY <2>1 DEF FindOpen, Inv, JobsOK
    <3>3. JobOK(w)'
      BY <1>1, <3>1, <3>2 DEF JobOK
    <3> QED
      BY <1>2, <3>1, <3>2, <3>3, SetJob
  <2>2. CASE OpenOfURL(job[w].name) # {}
    <3>1. PICK r \in RowIds :
            /\ IsLatest(r, OpenOfURL(job[w].name))
            /\ job' = [job EXCEPT ![w] = [@ EXCEPT !.pc = "update", !.item = r]]
      BY <2>2 DEF FindOpen
    <3>2. row[r].name = job[w].name /\ row[r].status # "free"
      BY <3>1 DEF IsLatest, OpenOfURL, WithURL, Open
    <3>3. r \in Inserted /\ r \in 0 .. lastId' /\ r # 0
      BY <1>1, <3>2, InsertedRows, RowFacts
    <3> DEFINE j == [job[w] EXCEPT !.pc = "update", !.item = r]
    <3>4. /\ j \in Job /\ j.pc = "update" /\ j.row = job[w].row
          /\ j.item = r /\ j.name = job[w].name
      BY <1>1 DEF Job, JobPcs
    <3>5. job' = [job EXCEPT ![w] = j] /\ job'[w] = j
      BY <3>1 DEF Inv, JobsOK
    <3>6. JobOK(w)'
      BY <1>1, <3>2, <3>3, <3>4, <3>5 DEF JobOK
    <3> QED
      BY <1>2, <3>4, <3>5, <3>6, SetJob
  <2> QED
    BY <2>1, <2>2
<1> QED
  BY <1>1, <1>2, <1>3, SameLoops, SameCounts DEF Inv

LEMMA UpdateItemInv ==
  ASSUME Inv, NEW w \in Workers, UpdateItem(w)
  PROVE  Inv'
<1> PICK i \in Inserted : i = job[w].item
  BY JobFacts DEF UpdateItem, JobOK
<1>1. /\ job[w] \in Job /\ JobOK(w) /\ job[w].high \in BOOLEAN
      /\ row[i].name = job[w].name
      /\ row' = StoreScore(i, row[i].name, job[w].high)
      /\ UNCHANGED <<lastId, handling, replay, sweep, calls, faults, evalFails>>
  BY JobFacts DEF UpdateItem, JobOK
<1>2. Updates(i) /\ row'[i].scoreOf = row'[i].name
  BY <1>1, Store
<1>3. TableOK' /\ Grows
  BY <1>2, UpdateTable
<1>4. JobsOK'
  <2>1. CASE row[i].kind = "file"
    <3>1. job' = [job EXCEPT ![w] = ArchiveIf(job[w].high, i)]
      BY <2>1 DEF UpdateItem
    <3> QED
      BY <1>1, <1>2, <1>3, <3>1, Tail
  <2>2. CASE row[i].kind # "file"
    <3> DEFINE j == [job[w] EXCEPT !.pc = "reread"]
    <3>1. /\ j \in Job /\ j.pc = "reread" /\ j.row = job[w].row /\ j.item = i
      BY <1>1 DEF Job, JobPcs
    <3>2. job' = [job EXCEPT ![w] = j] /\ job'[w] = j
      BY <2>2 DEF UpdateItem, Inv, JobsOK
    <3>3. i # 0 /\ i \in 0 .. lastId' /\ job[w].row \in 0 .. lastId'
      BY <1>1, RowFacts DEF JobOK
    <3>4. JobOK(w)'
      BY <1>2, <3>1, <3>2, <3>3 DEF JobOK
    <3> QED
      BY <1>3, <3>1, <3>2, <3>4, SetJob
  <2> QED
    BY <2>1, <2>2
<1> QED
  BY <1>1, <1>3, <1>4, SameLoops, SameCounts DEF Inv

LEMMA RereadInv ==
  ASSUME Inv, NEW w \in Workers, Reread(w)
  PROVE  Inv'
<1> PICK i \in Inserted : i = job[w].item
  BY JobFacts DEF Reread, JobOK
<1>1. /\ row[i].scoreOf = row[i].name /\ row[i].high \in BOOLEAN
      /\ job' = [job EXCEPT ![w] = ArchiveIf(row[i].high, i)]
      /\ UNCHANGED <<row, lastId, handling, replay, sweep, calls, faults, evalFails>>
  BY JobFacts, RowFacts DEF Reread, JobOK, Row
<1>2. JobsOK'
  BY <1>1, SameTable, Tail
<1> QED
  BY <1>1, <1>2, SameTable, SameLoops, SameCounts DEF Inv

LEMMA ArchiveItemInv ==
  ASSUME Inv, NEW w \in Workers, ArchiveItem(w)
  PROVE  Inv'
<1> PICK i \in Inserted : i = job[w].item
  BY JobFacts DEF ArchiveItem, JobOK
<1>1. /\ row[i].scoreOf = row[i].name
      /\ row' = [row EXCEPT ![i] = [@ EXCEPT !.status = "archived"]]
      /\ Finish(w)
      /\ UNCHANGED <<lastId, handling, replay, sweep, calls, faults, evalFails>>
  BY JobFacts DEF ArchiveItem, Archive, JobOK
<1>2. Updates(i)
  BY <1>1, SetStatus DEF Statuses, HasScore
<1> QED
  BY <1>1, <1>2, UpdateAndFinish

LEMMA QueueScoreInv ==
  ASSUME Inv, NEW w \in Workers, NEW r \in RowIds, NEW hi \in BOOLEAN,
         QueueScore(w, r, hi)
  PROVE  Inv'
<1>1. /\ r \in Inserted
      /\ row' = StoreScore(r, row[r].name, hi)
      /\ job' = [job EXCEPT ![w] = ArchiveIf(hi, r)]
      /\ UNCHANGED <<lastId, handling, replay, sweep, faults, evalFails>>
  BY InsertedRows DEF QueueScore
<1>2. Updates(r) /\ row'[r].scoreOf = row'[r].name
  BY <1>1, Store
<1>3. TableOK' /\ Grows
  BY <1>1, <1>2, UpdateTable
<1>4. JobsOK'
  BY <1>1, <1>2, <1>3, Tail
<1>5. CountsOK'
  BY DEF QueueScore, Inv, CountsOK
<1> QED
  BY <1>1, <1>3, <1>4, <1>5, SameLoops DEF Inv

LEMMA InsertScoredInv ==
  ASSUME Inv, NEW w \in Workers, InsertScored(w)
  PROVE  Inv'
<1> DEFINE new == [NewRow("url", job[w].name, "scored") EXCEPT !.high = job[w].high]
<1>1. /\ job[w] \in Job /\ JobOK(w) /\ lastId < MaxRows
      /\ row' = [row EXCEPT ![lastId + 1] = new]
      /\ lastId' = lastId + 1
      /\ job' = [job EXCEPT ![w] = [@ EXCEPT !.pc = "reread", !.item = lastId + 1]]
      /\ UNCHANGED <<handling, replay, sweep, calls, faults, evalFails>>
  BY JobFacts DEF InsertScored
<1> PICK n \in RowIds : n = lastId + 1
  BY <1>1, NextId
<1>2. /\ new \in Row /\ new.status = "scored" /\ new.retries = 0
      /\ new.reason = "other" /\ new.scoreOf = new.name
  <2>1. "scored" \in Statuses /\ "scored" \in HasScore /\ "url" \in AllKinds
    BY DEF Statuses, HasScore, AllKinds
  <2> DEFINE k == NewRow("url", job[w].name, "scored")
  <2>2. /\ k \in Row /\ k.status = "scored" /\ k.name = job[w].name
        /\ k.retries = 0 /\ k.reason = "other" /\ k.scoreOf = job[w].name
    BY <2>1, JobFacts, NewRowFacts
  <2>3. job[w].high \in BOOLEAN
    BY JobFacts
  <2> HIDE DEF k
  <2>4. [k EXCEPT !.high = job[w].high] \in Row
    BY <2>2, <2>3 DEF Row
  <2>5. /\ [k EXCEPT !.high = job[w].high].status = "scored"
        /\ [k EXCEPT !.high = job[w].high].name = k.name
        /\ [k EXCEPT !.high = job[w].high].scoreOf = k.scoreOf
        /\ [k EXCEPT !.high = job[w].high].retries = 0
        /\ [k EXCEPT !.high = job[w].high].reason = "other"
    BY <2>2 DEF Row
  <2>6. new = [k EXCEPT !.high = job[w].high]
    BY DEF k
  <2> HIDE DEF new
  <2> QED
    BY <2>2, <2>4, <2>5, <2>6
<1> HIDE DEF new
<1>3. TableOK' /\ Grows /\ row'[n].scoreOf = row'[n].name
  BY <1>1, <1>2, Insertion
<1> DEFINE j == [job[w] EXCEPT !.pc = "reread", !.item = n]
<1>4. j \in Job /\ j.pc = "reread" /\ j.row = job[w].row /\ j.item = n
  BY <1>1 DEF Job, JobPcs
<1>5. job' = [job EXCEPT ![w] = j] /\ job'[w] = j
  BY <1>1 DEF Inv, JobsOK
<1>6. n # 0 /\ n \in 0 .. lastId' /\ job[w].row \in 0 .. lastId'
  BY <1>1 DEF Inv, TableOK, JobOK, RowIds
<1>7. JobOK(w)'
  BY <1>3, <1>4, <1>5, <1>6 DEF JobOK
<1> QED
  BY <1>1, <1>3, <1>4, <1>5, <1>7, SetJob, SameLoops, SameCounts DEF Inv

LEMMA NextInv == Inv /\ [Next]_vars => Inv'
<1> SUFFICES ASSUME Inv, [Next]_vars PROVE Inv'
  OBVIOUS
<1>1. ASSUME NEW w \in Workers, JobStep(w) PROVE Inv'
  BY <1>1, FailingInv, EvaluationFailsInv, RetryOrFailInv, EvaluationOfURLInv,
     EvaluationOfFileInv, FindOpenInv, UpdateItemInv, InsertScoredInv, RereadInv,
     ArchiveItemInv DEF JobStep
<1>2. CASE Calls
  BY <1>2, NotifyInv, QueueScoreInv DEF Calls
<1>3. CASE UNCHANGED vars
  BY <1>3, SameTable, SameJobs, SameLoops, SameCounts DEF vars, Inv
<1> QED
  BY <1>1, <1>2, <1>3, IntakeInv, HandlerInv, TimeInv, ReplayInv, SweepInv,
     RestartInv, WriteFailsInv DEF Next

(* Inv, the inductive invariant, holds in every reachable state.           *)
THEOREM InvHolds == Spec => []Inv
BY InitInv, NextInv, PTL DEF Spec

(* The table, the goroutines and the loops are well typed.                 *)
THEOREM TypeCorrect == Spec => []TypeOK
BY InvHolds, InvTypeOK, PTL

(* No row is failed as timed out before its queued_at is past the cutoff.  *)
THEOREM Timeouts == Spec => []TimeoutsAreOverdue
<1>1. Inv => TimeoutsAreOverdue
  BY DEF Inv, TableOK, RowOK, TimeoutsAreOverdue
<1> QED
  BY <1>1, InvHolds, PTL

(* No row is given up for failed evaluations before enough of them failed, *)
(* however many goroutines score it at once.                               *)
THEOREM Retries == Spec => []RetriesAreSpent
<1>1. Inv => RetriesAreSpent
  BY DEF Inv, TableOK, RowOK, RetriesAreSpent
<1> QED
  BY <1>1, InvHolds, PTL

(* Every score in the table was computed for the URL or file of its row.   *)
THEOREM OwnScores == Spec => []ScoresAreOwn
<1>1. Inv => ScoresAreOwn
  BY DEF Inv, TableOK, RowOK, ScoresAreOwn
<1> QED
  BY <1>1, InvHolds, PTL

-----------------------------------------------------------------------------
(* Settled rows.                                                           *)

(* The loops do not hold r; the goroutine j neither writes r's status nor  *)
(* will archive it, unless r, whose status is st, has a score.             *)
LoopsAway(r) ==
    /\ handling[r] = "none"
    /\ r \notin replay.batch /\ replay.routed # r
    /\ r \notin sweep.todo /\ r \notin sweep.doomed

Away(j, r, st) ==
    /\ j.row = r => j.pc \in {"idle", "archive"}
    /\ j.item = r => j.pc # "update"
    /\ j.item = r /\ j.pc \in {"reread", "archive"} => st \in HasScore

LEMMA RestMeansAway ==
  ASSUME NEW r \in RowIds
  PROVE  AtRest(r) <=> /\ LoopsAway(r)
                       /\ \A w \in Workers : Away(job[w], r, row[r].status)
                       /\ row[r].status \in HasScore \cup Rejected
<1>1. "free" \notin HasScore \cup Rejected /\ HasScore \cap Rejected = {}
  BY DEF HasScore, Rejected
<1> QED
  BY <1>1 DEF AtRest, Held, Overwriters, Archivers, LoopsAway, Away

LEMMA AwayMeansRestNext ==
  ASSUME NEW r \in RowIds, LoopsAway(r)',
         \A w \in Workers : Away(job'[w], r, row'[r].status),
         row'[r].status \in HasScore \cup Rejected
  PROVE  AtRest(r)'
<1>1. HasScore \cap Rejected = {}
  BY DEF HasScore, Rejected
<1> QED
  BY <1>1 DEF AtRest, Held, Overwriters, Archivers, LoopsAway, Away

(* What each step must show: the loops stay away, and so does the one      *)
(* goroutine that moves.                                                   *)
StaysSettled(r) == AtRest(r)' /\ SameOutcome(row[r].status, row'[r].status)

LEMMA StaysAway ==
  ASSUME Inv, NEW r \in RowIds, AtRest(r), LoopsAway(r)',
         SameOutcome(row[r].status, row'[r].status),
         \/ UNCHANGED job
         \/ \E w \in Workers :
              /\ \A v \in Workers \ {w} : job'[v] = job[v]
              /\ Away(job'[w], r, row'[r].status)
  PROVE  StaysSettled(r)
<1>1. /\ row[r].status \in HasScore <=> row'[r].status \in HasScore
      /\ row'[r].status \in HasScore \cup Rejected
  BY RestMeansAway DEF SameOutcome
<1>2. \A w \in Workers : Away(job[w], r, row'[r].status)
  BY <1>1, RestMeansAway DEF Away
<1>3. \A w \in Workers : Away(job'[w], r, row'[r].status)
  BY <1>2
<1> QED
  BY <1>1, <1>3, AwayMeansRestNext DEF StaysSettled

LEMMA RestFacts ==
  ASSUME Inv, NEW r \in RowIds, AtRest(r)
  PROVE  /\ LoopsAway(r) /\ r \in Inserted /\ r # 0
         /\ row[r].status \notin Open /\ row[r].status # "free"
         /\ \A w \in Workers : Away(job[w], r, row[r].status)
         /\ row \in [RowIds -> Row] /\ job \in [Workers -> Job]
         /\ handling \in [RowIds -> {"none", "queued", "routed"}]
<1>1. row[r].status \notin Open /\ row[r].status # "free"
  BY RestMeansAway DEF Open, HasScore, Rejected
<1>2. r \in Inserted
  BY <1>1, InsertedRows
<1> QED
  BY <1>1, <1>2, RowFacts, RestMeansAway DEF Inv, TableOK, JobsOK, LoopsOK

LEMMA AwayStarts ==
  ASSUME NEW r \in RowIds, NEW q \in RowIds, q # r, r # 0,
         NEW n \in Names \cup {NoName}, NEW st
  PROVE  /\ Away(JobAt("score", q, n, 0), r, st)
         /\ Away(JobAt("capture", q, n, 0), r, st)
         /\ Away(IdleJob, r, st)
BY DEF Away, JobAt, IdleJob

LEMMA IntakeSettled ==
  ASSUME Inv, NEW r \in RowIds, AtRest(r), Intake
  PROVE  StaysSettled(r)
<1>1. PICK n \in Names :
        /\ lastId < MaxShares
        /\ \E k \in AllKinds, st \in Statuses : row' = [row EXCEPT ![lastId + 1] = NewRow(k, n, st)]
        /\ UNCHANGED handling \/ handling' = [handling EXCEPT ![lastId + 1] = "queued"]
        /\ UNCHANGED <<replay, sweep>>
        /\ \/ UNCHANGED job
           \/ \E w \in Workers : job' = [job EXCEPT ![w] = JobAt("score", lastId + 1, n, 0)]
  BY DEF Intake, ShareEnqueue, SharePrefiltered, SourceEnqueue, FirehoseEnqueue,
     InsertRow, AllKinds, Statuses, Open, HasScore, Rejected
<1>2. lastId < MaxRows
  BY <1>1 DEF Inv, TableOK
<1>3. PICK q \in RowIds : q = lastId + 1
  BY <1>2, NextId
<1>4. q # r
  BY <1>3, RestFacts, InsertedRows
<1>5. row'[r] = row[r] /\ LoopsAway(r)'
  BY <1>1, <1>3, <1>4, RestFacts DEF LoopsAway
<1>6. CASE UNCHANGED job
  BY <1>5, <1>6, StaysAway DEF SameOutcome
<1>7. ASSUME NEW w \in Workers, job' = [job EXCEPT ![w] = JobAt("score", q, n, 0)]
      PROVE  StaysSettled(r)
  <2>1. /\ job'[w] = JobAt("score", q, n, 0)
        /\ \A v \in Workers \ {w} : job'[v] = job[v]
    BY <1>7, RestFacts
  <2>2. Away(job'[w], r, row'[r].status)
    BY <1>4, <2>1, RestFacts, AwayStarts
  <2> QED
    BY <1>5, <2>1, <2>2, StaysAway DEF SameOutcome
<1> QED
  BY <1>1, <1>3, <1>6, <1>7

(* A goroutine is started on another row.                                  *)
LEMMA StartsAway ==
  ASSUME Inv, NEW r \in RowIds, AtRest(r), NEW q \in RowIds, q # r,
         NEW w \in Workers, StartScoring(w, q) \/ StartCapture(w, q)
  PROVE  /\ \A v \in Workers \ {w} : job'[v] = job[v]
         /\ Away(job'[w], r, row'[r].status)
<1>1. \/ job' = [job EXCEPT ![w] = JobAt("score", q, row[q].name, 0)]
      \/ job' = [job EXCEPT ![w] = JobAt("capture", q, NoName, 0)]
  BY DEF StartScoring, StartCapture
<1>2. row[q].name \in Names \cup {NoName}
  BY RestFacts DEF Row
<1> QED
  BY <1>1, <1>2, RestFacts, AwayStarts

LEMMA HandlerSettled ==
  ASSUME Inv, NEW r \in RowIds, AtRest(r), NEW q \in RowIds, Handler(q)
  PROVE  StaysSettled(r)
<1>1. handling[q] # "none"
  BY DEF Handler, HandlerCapture, HandlerRoute, HandlerRouteFails, HandlerMarkRelayed
<1>2. q # r
  BY <1>1, RestFacts DEF LoopsAway
<1>3. /\ UNCHANGED row \/ row' = [row EXCEPT ![q] = [@ EXCEPT !.status = "relayed"]]
      /\ \E s \in {"none", "routed"} : handling' = [handling EXCEPT ![q] = s]
      /\ UNCHANGED <<replay, sweep>>
      /\ UNCHANGED job \/ \E w \in Workers : StartScoring(w, q) \/ StartCapture(w, q)
  BY DEF Handler, HandlerCapture, HandlerRoute, HandlerRouteFails,
     HandlerMarkRelayed, MarkRelayed
<1>4. row'[r] = row[r] /\ LoopsAway(r)'
  BY <1>2, <1>3, RestFacts DEF LoopsAway
<1> QED
  BY <1>2, <1>3, <1>4, StartsAway, StaysAway DEF SameOutcome

LEMMA ReplaySettled ==
  ASSUME Inv, NEW r \in RowIds, AtRest(r), Replay
  PROVE  StaysSettled(r)
<1>0. replay = [batch |-> replay.batch, routed |-> replay.routed]
  BY DEF Inv, LoopsOK
<1>1. CASE ReplaySelect
  <2>1. replay' = [batch |-> Pending, routed |-> replay.routed] /\ r \notin Pending
    BY <1>0, <1>1, RestFacts DEF ReplaySelect, Pending, Open
  <2>2. UNCHANGED <<row, job, handling, sweep>>
    BY <1>1 DEF ReplaySelect
  <2>3. LoopsAway(r)'
    BY <2>1, <2>2, RestFacts DEF LoopsAway
  <2> QED
    BY <2>2, <2>3, StaysAway DEF SameOutcome
<1>2. ASSUME NEW q \in RowIds,
             \/ \E w \in Workers : ReplayCapture(q, w)
             \/ ReplayRoute(q) \/ ReplayRouteFails(q) \/ ReplayMarkRelayed(q)
      PROVE  StaysSettled(r)
  <2>1. q \in replay.batch \/ replay.routed = q
    BY <1>2 DEF ReplayCapture, ReplayRoute, ReplayRouteFails, ReplayMarkRelayed,
       ReplayNext, IsFirst
  <2>2. q # r
    BY <2>1, RestFacts DEF LoopsAway
  <2>3. /\ \/ UNCHANGED row
           \/ \E st \in {"failed", "relayed"} :
                row' = [row EXCEPT ![q] = [@ EXCEPT !.status = st]]
        /\ \E B \in SUBSET replay.batch, x \in {0, q, replay.routed} :
             replay' = [batch |-> B, routed |-> x]
        /\ UNCHANGED <<handling, sweep>>
        /\ UNCHANGED job \/ \E w \in Workers : StartScoring(w, q) \/ StartCapture(w, q)
    BY <1>0, <1>2 DEF ReplayCapture, ReplayRoute, ReplayRouteFails,
       ReplayMarkRelayed, MarkRelayed, MarkFailed
  <2>4. row'[r] = row[r]
    BY <2>2, <2>3, RestFacts
  <2>5. LoopsAway(r)'
    BY <2>2, <2>3, RestFacts DEF LoopsAway
  <2> QED
    BY <2>2, <2>3, <2>4, <2>5, StartsAway, StaysAway DEF SameOutcome
<1> QED
  BY <1>1, <1>2 DEF Replay

LEMMA SweepSettled ==
  ASSUME Inv, NEW r \in RowIds, AtRest(r), Sweep
  PROVE  StaysSettled(r)
<1>1. UNCHANGED <<job, handling, replay>>
  BY DEF Sweep, SweepSelect, SweepRescue, SweepMiss, SweepMark
<1>2. CASE SweepSelect
  <2>1. sweep'.todo = StuckRelayed /\ sweep'.doomed = sweep.doomed
        /\ r \notin StuckRelayed /\ UNCHANGED row
    BY <1>2, RestFacts DEF SweepSelect, StuckRelayed, Open, Inv, LoopsOK
  <2> QED
    BY <1>1, <2>1, RestFacts, StaysAway DEF LoopsAway, SameOutcome
<1>3. ASSUME NEW q \in RowIds,
             \/ \E hi \in BOOLEAN : SweepRescue(q, hi)
             \/ SweepMiss(q) \/ SweepMark(q)
      PROVE  StaysSettled(r)
  <2>1. q # r
    BY <1>3, RestFacts DEF SweepRescue, SweepMiss, SweepMark, LoopsAway
  <2>2. row'[r] = row[r]
    BY <1>3, <2>1, RestFacts
       DEF SweepRescue, SweepMiss, SweepMark, StoreScore, MarkFailedWithReason
  <2>3. r \notin sweep'.todo /\ r \notin sweep'.doomed
    BY <1>3, <2>1, RestFacts
       DEF SweepRescue, SweepMiss, SweepMark, LoopsAway, Inv, LoopsOK
  <2> QED
    BY <1>1, <2>2, <2>3, RestFacts, StaysAway DEF LoopsAway, SameOutcome
<1> QED
  BY <1>2, <1>3 DEF Sweep

LEMMA TimeSettled ==
  ASSUME Inv, NEW r \in RowIds, AtRest(r), NEW q \in RowIds, Time(q)
  PROVE  StaysSettled(r)
<1>1. q # r
  BY RestFacts DEF Time, QueuedLong, BackoffEnds, Open
<1>2. row'[r] = row[r] /\ UNCHANGED <<handling, job, replay, sweep>>
  BY <1>1, RestFacts DEF Time, QueuedLong, BackoffEnds
<1> QED
  BY <1>2, RestFacts, StaysAway DEF LoopsAway, SameOutcome

LEMMA RestartSettled ==
  ASSUME Inv, NEW r \in RowIds, AtRest(r), Restart
  PROVE  StaysSettled(r)
<1>1. UNCHANGED row /\ \A w \in Workers : job'[w] = IdleJob
  BY DEF Restart
<1>2. LoopsAway(r)'
  BY RestFacts DEF Restart, LoopsAway, NoReplay, NoSweep
<1>3. \A w \in Workers : Away(job'[w], r, row'[r].status)
  BY <1>1, RestFacts DEF Away, IdleJob, JobAt
<1> QED
  BY <1>1, <1>2, <1>3, RestMeansAway, AwayMeansRestNext DEF StaysSettled, SameOutcome

(* A goroutine moves on without touching the status of r.                  *)
LEMMA JobMovesAway ==
  ASSUME Inv, NEW r \in RowIds, AtRest(r), NEW w \in Workers, NEW j,
         job' = [job EXCEPT ![w] = j], Away(j, r, row'[r].status),
         UNCHANGED <<handling, replay, sweep>>,
         SameOutcome(row[r].status, row'[r].status)
  PROVE  StaysSettled(r)
<1>1. job'[w] = j /\ \A v \in Workers \ {w} : job'[v] = job[v]
  BY RestFacts
<1>2. LoopsAway(r)'
  BY RestFacts DEF LoopsAway
<1> QED
  BY <1>1, <1>2, StaysAway

LEMMA FinishSettled ==
  ASSUME Inv, NEW r \in RowIds, AtRest(r), NEW w \in Workers, Finish(w),
         UNCHANGED <<handling, replay, sweep>>,
         SameOutcome(row[r].status, row'[r].status)
  PROVE  StaysSettled(r)
<1>1. Away(IdleJob, r, row'[r].status)
  BY RestFacts DEF Away, IdleJob, JobAt
<1> QED
  BY <1>1, JobMovesAway DEF Finish

LEMMA TailSettled ==
  ASSUME Inv, NEW r \in RowIds, AtRest(r), NEW w \in Workers,
         NEW i \in Inserted, NEW hi \in BOOLEAN,
         job' = [job EXCEPT ![w] = ArchiveIf(hi, i)],
         i = r => row[r].status \in HasScore,
         UNCHANGED <<handling, replay, sweep>>, row'[r] = row[r]
  PROVE  StaysSettled(r)
<1>1. Away(ArchiveIf(hi, i), r, row'[r].status)
  BY RestFacts DEF Away, ArchiveIf, IdleJob, JobAt
<1> QED
  BY <1>1, JobMovesAway DEF SameOutcome

LEMMA FindScoredSettled ==
  ASSUME Inv, NEW r \in RowIds, AtRest(r), NEW w \in Workers, NEW j \in Job,
         FindScored(w, j), j.row # r,
         UNCHANGED <<row, handling, replay, sweep>>
  PROVE  StaysSettled(r)
<1> DEFINE scored == {q \in WithURL(j.name) : row[q].status \in HasScore}
<1>1. CASE scored = {}
  <2> DEFINE k == [j EXCEPT !.pc = "find_open"]
  <2>1. k.row = j.row /\ k.pc = "find_open"
    BY DEF Job
  <2>2. Away(k, r, row'[r].status)
    BY <2>1 DEF Away
  <2>3. job' = [job EXCEPT ![w] = k]
    BY <1>1 DEF FindScored
  <2> QED
    BY <2>2, <2>3, JobMovesAway DEF SameOutcome
<1>2. CASE scored # {}
  <2>1. PICK i \in RowIds :
          /\ IsLatest(i, scored)
          /\ job' = [job EXCEPT ![w] = ArchiveIf(row[i].high, i)]
    BY <1>2 DEF FindScored
  <2>2. row[i].status \in HasScore /\ row[i].high \in BOOLEAN
    BY <2>1, RestFacts DEF IsLatest, Row
  <2>3. i \in Inserted
    BY <2>2, InsertedRows DEF HasScore
  <2> QED
    BY <2>1, <2>2, <2>3, TailSettled
<1> QED
  BY <1>1, <1>2

LEMMA JobStepSettled ==
  ASSUME Inv, NEW r \in RowIds, AtRest(r), NEW w \in Workers, JobStep(w)
  PROVE  StaysSettled(r)
<1>0. /\ job[w] \in Job /\ Away(job[w], r, row[r].status)
      /\ row \in [RowIds -> Row] /\ row[r].status \notin Open /\ r # 0
      /\ job[w].high \in BOOLEAN
  BY RestFacts, JobFacts
<1>1. UNCHANGED <<handling, replay, sweep>>
  BY DEF JobStep, ScoringAborts, EvaluationFails, RetryOrFail, EvaluationOfURL,
     EvaluationOfFile, FindOpen, UpdateItem, InsertScored, Reread, ArchiveItem,
     PersistFails, CaptureFails, CaptureFallsBack, SetCaptured
<1>2. ASSUME \/ ScoringAborts(w) \/ RetryOrFail(w) \/ PersistFails(w)
             \/ CaptureFails(w) \/ CaptureFallsBack(w) \/ SetCaptured(w)
      PROVE  StaysSettled(r)
  <2>1. job[w].row # r /\ Finish(w)
    BY <1>0, <1>2 DEF Away, ScoringAborts, RetryOrFail, PersistFails,
       CaptureFails, CaptureFallsBack, SetCaptured
  <2>2. row'[r] = row[r]
    BY <1>0, <1>2, <2>1
       DEF ScoringAborts, RetryOrFail, PersistFails, CaptureFails,
       CaptureFallsBack, SetCaptured, MarkFailedWithReason
  <2> QED
    BY <1>1, <2>1, <2>2, FinishSettled DEF SameOutcome
<1>3. CASE EvaluationFails(w)
  <2> DEFINE j == [job[w] EXCEPT !.pc = "retry", !.count = row[job[w].row].retries]
  <2>1. job[w].row # r /\ job' = [job EXCEPT ![w] = j] /\ UNCHANGED row
    BY <1>0, <1>3 DEF EvaluationFails, Away
  <2>2. j.row = job[w].row /\ j.pc = "retry"
    BY <1>0 DEF Job
  <2>3. Away(j, r, row'[r].status)
    BY <2>1, <2>2 DEF Away
  <2> QED
    BY <1>1, <2>1, <2>3, JobMovesAway DEF SameOutcome
<1>4. ASSUME NEW hi \in BOOLEAN, EvaluationOfURL(w, hi) PROVE StaysSettled(r)
  <2> DEFINE j == [job[w] EXCEPT !.high = hi]
  <2>1. /\ j \in Job /\ j.row = job[w].row
        /\ job[w].row # r
    BY <1>0, <1>4 DEF Job, EvaluationOfURL, Away
  <2> QED
    BY <1>1, <1>4, <2>1, FindScoredSettled DEF EvaluationOfURL
<1>5. ASSUME NEW hi \in BOOLEAN, EvaluationOfFile(w, hi) PROVE StaysSettled(r)
  <2>1. PICK q \in Inserted : q = job[w].row /\ q # r
    BY <1>0, <1>5, JobFacts DEF EvaluationOfFile, JobOK, Away
  <2>2. UNCHANGED row
    BY <1>5 DEF EvaluationOfFile
  <2>3. CASE row[q].status \in HasScore
    <3>1. job' = [job EXCEPT ![w] = ArchiveIf(hi, q)]
      BY <1>5, <2>1, <2>3 DEF EvaluationOfFile
    <3> QED
      BY <1>1, <2>1, <2>2, <3>1, TailSettled
  <2>4. CASE row[q].status \notin HasScore
    <3> DEFINE j == [job[w] EXCEPT !.pc = "update", !.item = q, !.high = hi]
    <3>1. job' = [job EXCEPT ![w] = j]
      BY <1>5, <2>1, <2>4 DEF EvaluationOfFile
    <3>2. j.row = q /\ j.item = q
      BY <1>0, <2>1 DEF Job
    <3>3. Away(j, r, row'[r].status)
      BY <2>1, <3>2 DEF Away
    <3> QED
      BY <1>1, <2>2, <3>1, <3>3, JobMovesAway DEF SameOutcome
  <2> QED
    BY <2>3, <2>4
<1>6. CASE FindOpen(w)
  <2>1. job[w].row # r /\ UNCHANGED row
    BY <1>0, <1>6 DEF FindOpen, Away
  <2>2. CASE OpenOfURL(job[w].name) = {}
    <3> DEFINE j == [job[w] EXCEPT !.pc = "insert"]
    <3>1. job' = [job EXCEPT ![w] = j]
      BY <1>6, <2>2 DEF FindOpen
    <3>2. j.row = job[w].row /\ j.pc = "insert"
      BY <1>0 DEF Job
    <3>3. Away(j, r, row'[r].status)
      BY <2>1, <3>2 DEF Away
    <3> QED
      BY <1>1, <2>1, <3>1, <3>3, JobMovesAway DEF SameOutcome
  <2>3. CASE OpenOfURL(job[w].name) # {}
    <3>1. PICK q \in RowIds :
            /\ IsLatest(q, OpenOfURL(job[w].name))
            /\ job' = [job EXCEPT ![w] = [@ EXCEPT !.pc = "update", !.item = q]]
      BY <1>6, <2>3 DEF FindOpen
    <3>2. q # r
      BY <1>0, <3>1 DEF IsLatest, OpenOfURL
    <3> DEFINE j == [job[w] EXCEPT !.pc = "update", !.item = q]
    <3>3. j.row = job[w].row /\ j.item = q
      BY <1>0 DEF Job
    <3>4. Away(j, r, row'[r].status)
      BY <2>1, <3>2, <3>3 DEF Away
    <3>5. job' = [job EXCEPT ![w] = j]
      BY <3>1
    <3> QED
      BY <1>1, <2>1, <3>4, <3>5, JobMovesAway DEF SameOutcome
  <2> QED
    BY <2>2, <2>3
<1>7. CASE UpdateItem(w)
  <2>1. PICK i \in Inserted : i = job[w].item /\ i # r
    BY <1>0, <1>7, JobFacts DEF UpdateItem, JobOK, Away
  <2>2. row'[r] = row[r]
    BY <1>0, <1>7, <2>1 DEF UpdateItem, StoreScore
  <2>3. CASE row[i].kind = "file"
    <3>1. job' = [job EXCEPT ![w] = ArchiveIf(job[w].high, i)]
      BY <1>7, <2>1, <2>3 DEF UpdateItem
    <3> QED
      BY <1>0, <1>1, <2>1, <2>2, <3>1, TailSettled
  <2>4. CASE row[i].kind # "file"
    <3> DEFINE j == [job[w] EXCEPT !.pc = "reread"]
    <3>1. job' = [job EXCEPT ![w] = j]
      BY <1>7, <2>1, <2>4 DEF UpdateItem
    <3>2. j.row = job[w].row /\ j.item = i /\ job[w].row # r
      BY <1>0, <1>7, <2>1 DEF Job, UpdateItem, Away
    <3>3. Away(j, r, row'[r].status)
      BY <2>1, <3>2 DEF Away
    <3> QED
      BY <1>1, <2>2, <3>1, <3>3, JobMovesAway DEF SameOutcome
  <2> QED
    BY <2>3, <2>4
<1>8. CASE InsertScored(w)
  <2>1. lastId < MaxRows
    BY <1>8 DEF InsertScored
  <2>2. PICK n \in RowIds : n = lastId + 1
    BY <2>1, NextId
  <2>3. n # r
    BY <2>2, RestFacts, InsertedRows
  <2>4. row'[r] = row[r]
    BY <1>0, <1>8, <2>2, <2>3 DEF InsertScored
  <2> DEFINE j == [job[w] EXCEPT !.pc = "reread", !.item = n]
  <2>5. job' = [job EXCEPT ![w] = j]
    BY <1>8, <2>2 DEF InsertScored
  <2>6. j.row = job[w].row /\ j.item = n /\ job[w].row # r
    BY <1>0, <1>8 DEF Job, InsertScored, Away
  <2>7. Away(j, r, row'[r].status)
    BY <2>3, <2>6 DEF Away
  <2> QED
    BY <1>1, <2>4, <2>5, <2>7, JobMovesAway DEF SameOutcome
<1>9. CASE Reread(w)
  <2>1. PICK i \in Inserted :
          /\ i = job[w].item
          /\ i = r => row[r].status \in HasScore
          /\ row[i].high \in BOOLEAN
    BY <1>0, <1>9, JobFacts, RowFacts DEF Reread, JobOK, Away, Row
  <2>2. job' = [job EXCEPT ![w] = ArchiveIf(row[i].high, i)] /\ UNCHANGED row
    BY <1>9, <2>1 DEF Reread
  <2> QED
    BY <1>1, <2>1, <2>2, TailSettled
<1>10. CASE ArchiveItem(w)
  <2>1. PICK i \in Inserted :
          /\ i = job[w].item
          /\ i = r => row[r].status \in HasScore
    BY <1>0, <1>10, JobFacts DEF ArchiveItem, JobOK, Away
  <2>2. /\ row' = [row EXCEPT ![i] = [@ EXCEPT !.status = "archived"]]
        /\ Finish(w)
    BY <1>10, <2>1 DEF ArchiveItem, Archive
  <2>3. SameOutcome(row[r].status, row'[r].status)
    <3>1. CASE i = r
      <4>1. row[r] \in Row /\ row'[r] = [row[r] EXCEPT !.status = "archived"]
        BY <1>0, <2>2, <3>1
      <4>2. row'[r].status = "archived"
        BY <4>1 DEF Row
      <4> QED
        BY <2>1, <3>1, <4>2 DEF SameOutcome, HasScore
    <3>2. CASE i # r
      BY <1>0, <2>2, <3>2 DEF SameOutcome
    <3> QED
      BY <3>1, <3>2
  <2> QED
    BY <1>1, <2>2, <2>3, FinishSettled
<1> QED
  BY <1>2, <1>3, <1>4, <1>5, <1>6, <1>7, <1>8, <1>9, <1>10 DEF JobStep

LEMMA CallsSettled ==
  ASSUME Inv, NEW r \in RowIds, AtRest(r), Calls
  PROVE  \/ StaysSettled(r)
         \/ \E w \in Workers, hi \in BOOLEAN : QueueScore(w, r, hi)
<1>1. ASSUME NEW w \in Workers, NEW n \in Names, NEW hi \in BOOLEAN, Notify(w, n, hi)
      PROVE  StaysSettled(r)
  <2> DEFINE k == JobAt("idle", 0, n, 0)
             j == [k EXCEPT !.high = hi]
  <2>1. k \in Job /\ k.row = 0
    BY DEF JobAt, Job, JobPcs
  <2>2. j \in Job /\ j.row # r
    BY <2>1, RestFacts DEF Job
  <2>3. FindScored(w, j) /\ UNCHANGED <<row, handling, replay, sweep>>
    BY <1>1 DEF Notify
  <2> HIDE DEF j
  <2> QED
    BY <2>2, <2>3, FindScoredSettled
<1>2. ASSUME NEW w \in Workers, NEW q \in RowIds, NEW hi \in BOOLEAN,
             QueueScore(w, q, hi), q # r
      PROVE  StaysSettled(r)
  <2>1. q \in Inserted /\ row'[r] = row[r]
    BY <1>2, RestFacts, InsertedRows DEF QueueScore, StoreScore
  <2> QED
    BY <1>2, <2>1, TailSettled DEF QueueScore
<1> QED
  BY <1>1, <1>2 DEF Calls

(* A write that fails writes nothing, and nobody takes the row up.         *)
LEMMA WriteFailsSettled ==
  ASSUME Inv, NEW r \in RowIds, AtRest(r), WriteFails
  PROVE  StaysSettled(r)
<1>0. UNCHANGED row
  BY DEF WriteFails
<1>1. ASSUME NEW w \in Workers, Finish(w), UNCHANGED <<handling, replay, sweep>>
      PROVE  StaysSettled(r)
  BY <1>0, <1>1, FinishSettled DEF SameOutcome
<1>2. ASSUME UNCHANGED job, LoopsAway(r)' PROVE StaysSettled(r)
  BY <1>0, <1>2, StaysAway DEF SameOutcome
<1>3. CASE /\ UNCHANGED <<job, replay, sweep>>
           /\ \E q \in RowIds : handling' = [handling EXCEPT ![q] = "none"]
  BY <1>2, <1>3, RestFacts DEF LoopsAway
<1>4. CASE /\ UNCHANGED <<handling, job, sweep>>
           /\ \/ replay' = [replay EXCEPT !.routed = 0]
              \/ \E q \in RowIds : replay' = [replay EXCEPT !.batch = @ \ {q}]
  <2>1. /\ replay'.batch \subseteq replay.batch
        /\ replay'.routed \in {replay.routed, 0}
    BY <1>4 DEF Inv, LoopsOK
  <2> QED
    BY <1>2, <1>4, <2>1, RestFacts DEF LoopsAway
<1>5. CASE UNCHANGED <<handling, job, replay>> /\ sweep' = NoSweep
  BY <1>2, <1>5, RestFacts DEF LoopsAway, NoSweep
<1> QED
  BY <1>1, <1>3, <1>4, <1>5 DEF WriteFails

LEMMA SettledStep ==
  ASSUME Inv, NEW r \in RowIds, AtRest(r), Next
  PROVE  \/ StaysSettled(r)
         \/ \E w \in Workers, hi \in BOOLEAN : QueueScore(w, r, hi)
BY IntakeSettled, HandlerSettled, TimeSettled, ReplaySettled, JobStepSettled,
   CallsSettled, SweepSettled, RestartSettled, WriteFailsSettled DEF Next

(* A settled row that nobody holds is settled for good, unless a caller of *)
(* POST /queue/{id}/score scores it.                                       *)
THEOREM Settled == Spec => SettledIsFinal
<1>1. Inv /\ [Next]_vars =>
        [\A r \in RowIds : AtRest(r) =>
           \/ AtRest(r)' /\ SameOutcome(row[r].status, row'[r].status)
           \/ \E w \in Workers, hi \in BOOLEAN : QueueScore(w, r, hi)]_vars
  BY SettledStep DEF StaysSettled
<1> QED
  BY <1>1, InvHolds, PTL DEF Spec, SettledIsFinal

-----------------------------------------------------------------------------
(* Prefiltered rows are at rest from the insertion on.                     *)

PrefilteredAtRest == \A r \in RowIds : row[r].status = "prefiltered" => AtRest(r)

(* The writes of a score, a rejection and an archiving make no row         *)
(* prefiltered.                                                            *)
LEMMA OtherWrites ==
  ASSUME row \in [RowIds -> Row], NEW r \in RowIds, NEW q, NEW n, NEW hi,
         \/ row' = StoreScore(q, n, hi)
         \/ row' = Archive(q)
         \/ row' = MarkFailedWithReason(q, n)
         \/ UNCHANGED row
  PROVE  row'[r].status = "prefiltered" => row[r].status = "prefiltered"
<1>1. CASE q = r
  <2>1. row[r] \in Row
    OBVIOUS
  <2>2. CASE row' = StoreScore(q, n, hi)
    <3>1. row'[r] = [row[r] EXCEPT !.status = "scored", !.scoreOf = n, !.high = hi]
      BY <1>1, <2>2 DEF StoreScore
    <3> QED
      BY <2>1, <3>1 DEF Row
  <2>3. CASE row' = Archive(q)
    <3>1. row'[r] = [row[r] EXCEPT !.status = "archived"]
      BY <1>1, <2>3 DEF Archive
    <3> QED
      BY <2>1, <3>1 DEF Row
  <2>4. CASE row' = MarkFailedWithReason(q, n)
    <3>1. row'[r] = [row[r] EXCEPT !.status = "failed", !.reason = n]
      BY <1>1, <2>4 DEF MarkFailedWithReason
    <3> QED
      BY <2>1, <3>1 DEF Row
  <2> QED
    BY <2>2, <2>3, <2>4
<1>2. CASE q # r
  BY <1>2 DEF StoreScore, Archive, MarkFailedWithReason
<1> QED
  BY <1>1, <1>2

(* Only the handler's prefilter makes a row prefiltered, and it is new.    *)
LEMMA OnlyIntakePrefilters ==
  ASSUME Inv, NEW r \in RowIds, Next,
         row[r].status # "prefiltered", row'[r].status = "prefiltered"
  PROVE  r \notin Inserted /\ UNCHANGED <<handling, job, replay, sweep>>
<1>0. row \in [RowIds -> Row] /\ lastId \in Nat
  BY DEF Inv, TableOK
<1>1. CASE Intake
  <2>1. PICK n \in Names :
          \/ \E k \in Kinds : ShareEnqueue(k, n)
          \/ SharePrefiltered(n)
          \/ SourceEnqueue(n)
          \/ \E w \in Workers : FirehoseEnqueue(w, n)
    BY <1>1 DEF Intake
  <2>2. CASE SharePrefiltered(n)
    <3>1. r = lastId + 1
      BY <1>0, <2>2 DEF SharePrefiltered, InsertRow
    <3> QED
      BY <1>0, <2>2, <3>1 DEF SharePrefiltered, Inserted
  <2>3. CASE ~SharePrefiltered(n)
    <3>1. PICK k \in AllKinds, st \in {"pending", "scored"} :
            row' = [row EXCEPT ![lastId + 1] = NewRow(k, n, st)]
      BY <2>1, <2>3 DEF ShareEnqueue, SourceEnqueue, FirehoseEnqueue, InsertRow, AllKinds
    <3>2. NewRow(k, n, st).status # "prefiltered"
      BY DEF NewRow
    <3> QED
      BY <1>0, <3>1, <3>2
  <2> QED
    BY <2>2, <2>3
<1>2. ASSUME NEW q \in RowIds, Handler(q) \/ Time(q) PROVE FALSE
  BY <1>0, <1>2 DEF Handler, HandlerCapture, HandlerRoute, HandlerRouteFails,
     HandlerMarkRelayed, MarkRelayed, Time, QueuedLong, BackoffEnds, Row
<1>3. CASE Replay
  BY <1>0, <1>3 DEF Replay, ReplaySelect, ReplayCapture, ReplayRoute,
     ReplayRouteFails, ReplayMarkRelayed, MarkRelayed, MarkFailed, Row
<1>4. ASSUME NEW w \in Workers, JobStep(w) PROVE FALSE
  <2>1. job[w] \in Job /\ JobOK(w)
    BY DEF Inv, JobsOK
  <2>2. CASE ScoringAborts(w) \/ PersistFails(w) \/ CaptureFails(w) \/ CaptureFallsBack(w)
    BY <1>0, <2>2, OtherWrites DEF ScoringAborts, PersistFails, CaptureFails,
       CaptureFallsBack
  <2>3. CASE RetryOrFail(w)
    BY <1>0, <2>3 DEF RetryOrFail, Row
  <2>4. CASE SetCaptured(w)
    BY <1>0, <2>4 DEF SetCaptured, Row
  <2>5. CASE UpdateItem(w) \/ ArchiveItem(w)
    BY <1>0, <2>5, OtherWrites DEF UpdateItem, ArchiveItem
  <2>6. CASE InsertScored(w)
    <3> DEFINE new == NewRow("url", job[w].name, "scored")
               scored == [new EXCEPT !.high = job[w].high]
    <3>1. scored.status = "scored"
      BY DEF NewRow
    <3>2. row' = [row EXCEPT ![lastId + 1] = scored]
      BY <2>6 DEF InsertScored
    <3> HIDE DEF scored
    <3> QED
      BY <1>0, <3>1, <3>2
  <2>7. CASE UNCHANGED row
    BY <2>7
  <2>8. EvaluationFails(w) => UNCHANGED row
    BY DEF EvaluationFails
  <2>9. ASSUME NEW hi \in BOOLEAN, EvaluationOfURL(w, hi) \/ EvaluationOfFile(w, hi)
        PROVE  UNCHANGED row
    BY <2>9 DEF EvaluationOfURL, EvaluationOfFile
  <2>10. ASSUME FindOpen(w) PROVE UNCHANGED row
    BY <2>10 DEF FindOpen
  <2>11. ASSUME Reread(w) PROVE UNCHANGED row
    BY <2>11 DEF Reread
  <2> QED
    BY <1>4, <2>2, <2>3, <2>4, <2>5, <2>6, <2>7, <2>8, <2>9,
       <2>10, <2>11 DEF JobStep
<1>5. CASE Calls
  <2>1. PICK w \in Workers, hi \in BOOLEAN :
          \/ \E n \in Names : Notify(w, n, hi)
          \/ \E q \in RowIds : QueueScore(w, q, hi)
    BY <1>5 DEF Calls
  <2>2. \/ UNCHANGED row
        \/ \E q \in RowIds : row' = StoreScore(q, row[q].name, hi)
    BY <2>1 DEF Notify, QueueScore
  <2> QED
    BY <1>0, <2>2, OtherWrites
<1>6. CASE Sweep
  BY <1>0, <1>6, OtherWrites DEF Sweep, SweepSelect, SweepRescue, SweepMiss, SweepMark
<1>7. CASE Restart \/ WriteFails
  BY <1>7 DEF Restart, WriteFails
<1> QED
  BY <1>1, <1>2, <1>3, <1>4, <1>5, <1>6, <1>7 DEF Next

(* A row that is not inserted yet is not known to anybody.                 *)
LEMMA UnknownRow ==
  ASSUME Inv, NEW r \in RowIds, r \notin Inserted
  PROVE  ~Held(r) /\ Archivers(r) = {}
<1>1. handling[r] = "none" /\ r \notin replay.batch /\ replay.routed # r
  BY DEF Inv, LoopsOK, RowIds
<1>2. r \notin sweep.todo \cup sweep.doomed
  BY DEF Inv, LoopsOK
<1>3. ASSUME NEW w \in Workers PROVE job[w].row # r /\ job[w].item # r
  BY DEF Inv, JobsOK, JobOK, TableOK, RowIds, Inserted
<1> QED
  BY <1>1, <1>2, <1>3 DEF Held, Overwriters, Archivers

LEMMA PrefilteredStep ==
  ASSUME Inv, PrefilteredAtRest, NEW r \in RowIds, Next
  PROVE  /\ row[r].status = "prefiltered" =>
              \/ row'[r].status = "prefiltered"
              \/ \E w \in Workers, hi \in BOOLEAN : QueueScore(w, r, hi)
         /\ row'[r].status = "prefiltered" => AtRest(r)'
<1>1. CASE row[r].status = "prefiltered"
  <2>1. AtRest(r)
    BY <1>1 DEF PrefilteredAtRest
  <2>2. CASE StaysSettled(r)
    BY <1>1, <2>2 DEF StaysSettled, SameOutcome, HasScore
  <2>3. ASSUME NEW w \in Workers, NEW hi \in BOOLEAN, QueueScore(w, r, hi)
        PROVE  row'[r].status # "prefiltered"
    BY <2>3 DEF QueueScore, StoreScore, Inv, TableOK, Row
  <2> QED
    BY <2>1, <2>2, <2>3, SettledStep
<1>2. CASE row[r].status # "prefiltered" /\ row'[r].status = "prefiltered"
  <2>1. r \notin Inserted /\ UNCHANGED <<handling, job, replay, sweep>>
    BY <1>2, OnlyIntakePrefilters
  <2>2. ~Held(r) /\ Archivers(r) = {}
    BY <2>1, UnknownRow
  <2>3. (~Held(r))' /\ Archivers(r)' = {}
    BY <2>1, <2>2 DEF Held, Overwriters, Archivers
  <2> QED
    BY <1>2, <2>3 DEF AtRest, Rejected
<1> QED
  BY <1>1, <1>2

(* No step routes, captures, scores or times out a prefiltered share; only *)
(* POST /queue/{id}/score can change its status.                           *)
THEOREM Prefiltered == Spec => PrefilteredIsFinal
<1>1. Init => PrefilteredAtRest
  BY DEF Init, PrefilteredAtRest, FreeRow
<1>2. Inv /\ PrefilteredAtRest /\ [Next]_vars => PrefilteredAtRest'
  <2>1. CASE UNCHANGED vars
    BY <2>1 DEF vars, PrefilteredAtRest, AtRest, Held, Overwriters, Archivers
  <2> QED
    BY <2>1, PrefilteredStep DEF PrefilteredAtRest
<1>3. Inv /\ PrefilteredAtRest /\ [Next]_vars =>
        [\A r \in RowIds : row[r].status = "prefiltered" =>
           \/ row'[r].status = "prefiltered"
           \/ \E w \in Workers, hi \in BOOLEAN : QueueScore(w, r, hi)]_vars
  BY PrefilteredStep
<1> QED
  BY <1>1, <1>2, <1>3, InvHolds, PTL DEF Spec, PrefilteredIsFinal
=============================================================================
