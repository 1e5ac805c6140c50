------------------------------ MODULE JiraPoller ------------------------------
(***************************************************************************)
(* jira-poller: status transitions of Jira issues on their way through the *)
(* poll cycle into the table pending_events and out to the sink.           *)
(*                                                                         *)
(* A cycle (at most one at a time) asks Jira page by page for the issues   *)
(* that changed within the lookback window, keeps the transitions that are *)
(* not before its own cutoff, and for each inserts a row, then marks it as *)
(* seen. The drain worker takes rows that are due, dead-letters old ones,  *)
(* hands the rest to the sink in one call and records the outcome row by   *)
(* row. Both share nothing but the tables, each statement is a step, most  *)
(* errors of statements are only logged, and the process may die anywhere. *)
(*                                                                         *)
(* Nothing deletes rows of either table: CleanupExpired has no caller.     *)
(* Time is abstract: a transition leaves the window, a row's next attempt  *)
(* comes, and a pass may find a row older than a day.                      *)
(***************************************************************************)
EXTENDS Naturals, FiniteSets

CONSTANTS
    Events,        \* transitions, by ChangelogID
    NoEvent,
    MaxIssue,      \* issues, numbered in the order Jira lists them
    IssueOf,       \* the issue of each transition
    PageSize,      \* MaxResults of one search request
    DrainBatch,    \* drainBatchSize
    MaxAttempts,   \* maxAttempts: failed deliveries before a row is dead
    MaxFaults      \* a bound on crashes, failing statements and searches

ASSUME JiraAssumption ==
    /\ NoEvent \notin Events
    /\ MaxIssue \in Nat
    /\ IssueOf \in [Events -> 1 .. MaxIssue]
    /\ PageSize \in Nat \ {0}
    /\ DrainBatch \in Nat \ {0}
    /\ MaxAttempts \in Nat \ {0}
    /\ MaxFaults \in Nat

Row == [status : {"none", "pending", "delivered", "dead"}, attempts : Nat,
        due : BOOLEAN, old : BOOLEAN]

VARIABLES
    age,       \* of each transition: to come, in the window, out of it
    dated,     \* those whose date is in a form that the client can parse
    poll,      \* the cycle: its cutoff, its offset, what is left to publish
    row,       \* pending_events
    seen,      \* seen_events
    drain,     \* the drain pass
    faults,    \* used up part of the bound
    copies,    \* history: times the sink took each transition
    lost,      \* history: those whose record never happened
    failures   \* history: failed deliveries

hist == <<copies, lost, failures>>
vars == <<age, dated, poll, row, seen, drain, faults, hist>>

NoRow == [status |-> "none", attempts |-> 0, due |-> TRUE, old |-> FALSE]

IdlePoll == [pc |-> "idle", cutoff |-> {}, startAt |-> 0, todo |-> {},
             at |-> NoEvent, shifted |-> FALSE]

IdleDrain == [pc |-> "idle", expire |-> {}, rows |-> {}, got |-> {}]

Init ==
    /\ age = [e \in Events |-> "future"]
    /\ dated = {}
    /\ poll = IdlePoll
    /\ row = [e \in Events |-> NoRow]
    /\ seen = {}
    /\ drain = IdleDrain
    /\ faults = 0
    /\ copies = [e \in Events |-> 0]
    /\ lost = [e \in Events |-> 0]
    /\ failures = [e \in Events |-> 0]

Fault == faults < MaxFaults /\ faults' = faults + 1

-----------------------------------------------------------------------------
(* Jira and the clock.                                                     *)

Fresh == {e \in Events : age[e] = "fresh"}
Stale == {e \in Events : age[e] = "stale"}

(* What the search lists: issues with a transition in the window, now.     *)
Matching == {IssueOf[e] : e \in Fresh}

(* History: what the offset counts in has changed during the search.       *)
NoteShift ==
    poll' = [poll EXCEPT !.shifted = poll.shifted \/ poll.pc = "fetch"]

(* The date may have any form: as RFC 3339 wants it, or with "+0000" for   *)
(* an offset, which is what the tests' answers of Jira have.               *)
Transition(e) ==
    /\ age[e] = "future"
    /\ age' = [age EXCEPT ![e] = "fresh"]
    /\ dated' \in {dated, dated \cup {e}}
    /\ NoteShift
    /\ UNCHANGED <<row, seen, drain, faults, hist>>

LeaveWindow(e) ==
    /\ age[e] = "fresh"
    /\ age' = [age EXCEPT ![e] = "stale"]
    /\ NoteShift
    /\ UNCHANGED <<dated, row, seen, drain, faults, hist>>

-----------------------------------------------------------------------------
(* The poll cycle.                                                         *)

PollStart ==
    /\ poll.pc = "idle"
    /\ poll' = [IdlePoll EXCEPT !.pc = "fetch", !.cutoff = Stale]
    /\ UNCHANGED <<age, dated, row, seen, drain, faults, hist>>

Rank(i) == Cardinality({j \in Matching : j <= i})

Page == {i \in Matching : poll.startAt < Rank(i)
                          /\ Rank(i) <= poll.startAt + PageSize}

(* Mutant of MorePages: one page is all.                                   *)
NoMorePages == FALSE

(* A full page means that there may be another.                            *)
MorePages == Cardinality(Page) = PageSize

(* What the cycle takes for older than the window. The parser's error is   *)
(* dropped, so a date it cannot read is the zero time, before any cutoff.  *)
BeforeCutoff == poll.cutoff \cup (Events \ dated)

(* A page brings the whole changelog of its issues; the cutoff filters.    *)
Found == {e \in Events \ BeforeCutoff :
            age[e] # "future" /\ IssueOf[e] \in Page}

PollPage ==
    /\ poll.pc = "fetch"
    /\ LET todo == poll.todo \cup Found
       IN  poll' = IF MorePages
                     THEN [poll EXCEPT !.todo = todo,
                                       !.startAt = poll.startAt + PageSize]
                     ELSE [IdlePoll EXCEPT !.pc = "publish", !.todo = todo]
    /\ UNCHANGED <<age, dated, row, seen, drain, faults, hist>>

(* A page fails: the cycle ends and what it has is thrown away.            *)
PollFails ==
    /\ poll.pc = "fetch"
    /\ Fault
    /\ poll' = IdlePoll
    /\ UNCHANGED <<age, dated, row, seen, drain, hist>>

InHand(e) == poll.pc = "publish" /\ poll.at = NoEvent /\ e \in poll.todo

(* INSERT OR IGNORE; only a new row is then marked as seen.                *)
Publish(e) ==
    /\ InHand(e)
    /\ IF row[e].status = "none"
         THEN /\ row' = [row EXCEPT ![e] = [NoRow EXCEPT !.status = "pending"]]
              /\ poll' = [poll EXCEPT !.todo = poll.todo \ {e}, !.at = e]
         ELSE /\ poll' = [poll EXCEPT !.todo = poll.todo \ {e}]
              /\ UNCHANGED row
    /\ UNCHANGED <<age, dated, seen, drain, faults, hist>>

(* Mutant of PublishFails: the error is not looked at.                     *)
PublishFailsUnnoticed(e) ==
    /\ InHand(e)
    /\ Fault
    /\ poll' = [poll EXCEPT !.todo = poll.todo \ {e}, !.at = e]
    /\ UNCHANGED <<age, dated, row, seen, drain, hist>>

PublishFails(e) ==
    /\ InHand(e)
    /\ Fault
    /\ poll' = [poll EXCEPT !.todo = poll.todo \ {e}]
    /\ UNCHANGED <<age, dated, row, seen, drain, hist>>

Mark ==
    /\ poll.at # NoEvent
    /\ seen' = seen \cup {poll.at}
    /\ poll' = [poll EXCEPT !.at = NoEvent]
    /\ UNCHANGED <<age, dated, row, drain, faults, hist>>

MarkFails ==
    /\ poll.at # NoEvent
    /\ Fault
    /\ poll' = [poll EXCEPT !.at = NoEvent]
    /\ UNCHANGED <<age, dated, row, seen, drain, hist>>

PollEnds ==
    /\ poll.pc = "publish" /\ poll.at = NoEvent /\ poll.todo = {}
    /\ poll' = IdlePoll
    /\ UNCHANGED <<age, dated, row, seen, drain, faults, hist>>

-----------------------------------------------------------------------------
(* The drain pass.                                                         *)

(* Mutants of Due: the status is not looked at; rows that failed before    *)
(* are not taken again.                                                    *)
DueAnyStatus == {e \in Events : row[e].status # "none" /\ row[e].due}
DueFirstTime ==
    {e \in Events : row[e].status = "pending" /\ row[e].attempts = 0}

Due == {e \in Events : row[e].status = "pending" /\ row[e].due}

(* A batch of due rows, of which the pass finds some too old: its time is  *)
(* fixed at the start, and a row that was too old once stays so.           *)
DrainSelect(B, old) ==
    /\ drain.pc = "idle"
    /\ B # {}
    /\ B = Due \/ Cardinality(B) = DrainBatch
    /\ Cardinality(B) <= DrainBatch
    /\ \A e \in B : row[e].old => e \in old
    /\ row' = [e \in Events |-> [row[e] EXCEPT !.old = row[e].old \/ e \in old]]
    /\ drain' = [pc |-> "expire", expire |-> old, rows |-> B \ old,
                 got |-> {}]
    /\ UNCHANGED <<age, dated, poll, seen, faults, hist>>

MarkDead(e) == row' = [row EXCEPT ![e] = [row[e] EXCEPT !.status = "dead"]]

ExpireRow(e) ==
    /\ e \in drain.expire
    /\ MarkDead(e)
    /\ drain' = [drain EXCEPT !.expire = drain.expire \ {e}]
    /\ UNCHANGED <<age, dated, poll, seen, faults, hist>>

ExpireLost(e) ==
    /\ e \in drain.expire
    /\ Fault
    /\ drain' = [drain EXCEPT !.expire = drain.expire \ {e}]
    /\ UNCHANGED <<age, dated, poll, row, seen, hist>>

DeliverStart ==
    /\ drain.pc = "expire" /\ drain.expire = {}
    /\ drain' = IF drain.rows = {} THEN IdleDrain
                ELSE [drain EXCEPT !.pc = "deliver"]
    /\ UNCHANGED <<age, dated, poll, row, seen, faults, hist>>

(* The sink takes one transition of the call: a line of the file is        *)
(* written, or the receiver of the POST has processed it.                  *)
SinkAccepts(e) ==
    /\ drain.pc = "deliver"
    /\ e \in drain.rows \ drain.got
    /\ drain' = [drain EXCEPT !.got = drain.got \cup {e}]
    /\ copies' = [copies EXCEPT ![e] = copies[e] + 1]
    /\ UNCHANGED <<age, dated, poll, row, seen, faults, lost, failures>>

(* Mutant of SinkSucceeds: a partial delivery counts.                      *)
SinkSucceedsInPart ==
    /\ drain.pc = "deliver"
    /\ drain' = [drain EXCEPT !.pc = "delivered"]
    /\ UNCHANGED <<age, dated, poll, row, seen, faults, hist>>

SinkSucceeds ==
    /\ drain.pc = "deliver" /\ drain.got = drain.rows
    /\ drain' = [drain EXCEPT !.pc = "delivered"]
    /\ UNCHANGED <<age, dated, poll, row, seen, faults, hist>>

(* One added to each element of S.                                         *)
Plus(f, S) == [e \in Events |-> IF e \in S THEN f[e] + 1 ELSE f[e]]

(* The call fails after any part of it; all its rows count as failed.      *)
SinkFails ==
    /\ drain.pc = "deliver"
    /\ drain' = [drain EXCEPT !.pc = "failed", !.got = {}]
    /\ failures' = Plus(failures, drain.rows)
    /\ lost' = Plus(lost, drain.got)
    /\ UNCHANGED <<age, dated, poll, row, seen, faults, copies>>

(* The loop that records the outcome has done e.                           *)
Recorded(e) ==
    drain' = IF drain.rows = {e} THEN IdleDrain
             ELSE [drain EXCEPT !.rows = drain.rows \ {e},
                                !.got = drain.got \ {e}]

MarkDelivered(e) ==
    /\ drain.pc = "delivered" /\ e \in drain.rows
    /\ row' = [row EXCEPT ![e] = [row[e] EXCEPT !.status = "delivered"]]
    /\ Recorded(e)
    /\ UNCHANGED <<age, dated, poll, seen, faults, hist>>

(* Mutant of LastAttempt: off by one.                                      *)
LastAttemptEarly(e) == row[e].attempts + 2 >= MaxAttempts

LastAttempt(e) == row[e].attempts + 1 >= MaxAttempts

RecordFailure(e) ==
    /\ drain.pc = "failed" /\ e \in drain.rows
    /\ IF LastAttempt(e)
         THEN MarkDead(e)
         ELSE row' = [row EXCEPT ![e] =
                [row[e] EXCEPT !.attempts = row[e].attempts + 1, !.due = FALSE]]
    /\ Recorded(e)
    /\ UNCHANGED <<age, dated, poll, seen, faults, hist>>

(* The statement fails, which is only logged.                              *)
RecordLost(e) ==
    /\ drain.pc \in {"delivered", "failed"} /\ e \in drain.rows
    /\ Fault
    /\ Recorded(e)
    /\ lost' = Plus(lost, drain.got \cap {e})
    /\ UNCHANGED <<age, dated, poll, row, seen, copies, failures>>

(* The process dies; a shutdown, which cancels the statements, is no       *)
(* better for the rows in hand.                                            *)
Crash ==
    /\ poll # IdlePoll \/ drain # IdleDrain
    /\ Fault
    /\ poll' = IdlePoll
    /\ drain' = IdleDrain
    /\ lost' = Plus(lost, drain.got)
    /\ UNCHANGED <<age, dated, row, seen, copies, failures>>

-----------------------------------------------------------------------------
(* Time.                                                                   *)

BackoffEnds(e) ==
    /\ row[e].status = "pending" /\ ~row[e].due
    /\ row' = [row EXCEPT ![e] = [row[e] EXCEPT !.due = TRUE]]
    /\ UNCHANGED <<age, dated, poll, seen, drain, faults, hist>>

-----------------------------------------------------------------------------
PollStep ==
    \/ PollStart \/ PollPage \/ PollFails
    \/ \E e \in poll.todo : Publish(e) \/ PublishFails(e)
    \/ Mark \/ MarkFails \/ PollEnds

DrainStep ==
    \/ \E B \in SUBSET Due : \E old \in SUBSET B : DrainSelect(B, old)
    \/ \E e \in drain.expire : ExpireRow(e) \/ ExpireLost(e)
    \/ DeliverStart \/ SinkSucceeds \/ SinkFails
    \/ \E e \in drain.rows :
         SinkAccepts(e) \/ MarkDelivered(e) \/ RecordFailure(e) \/ RecordLost(e)

Time ==
    \E e \in Events :
      Transition(e) \/ LeaveWindow(e) \/ BackoffEnds(e)

Next == PollStep \/ DrainStep \/ Time \/ Crash

Spec == Init /\ [][Next]_vars

(* Both tickers keep firing and a backoff ends. Every call returns: those  *)
(* to Jira have a timeout of 30 seconds, and the sink in use is a file (an *)
(* HTTPSink may have no timeout, and could hold up the drain for ever).    *)
(* The sink may fail every time. No transition has to leave the window.    *)
Fairness ==
    /\ WF_vars(PollStep)
    /\ WF_vars(DrainStep)
    /\ \A e \in Events : WF_vars(BackoffEnds(e))

FairSpec == Spec /\ Fairness

-----------------------------------------------------------------------------
(* Properties.                                                             *)

(* The tables and the two goroutines' variables have their types, and what *)
(* the sink took of a call are rows of the call.                           *)
TypeOK ==
    /\ age \in [Events -> {"future", "fresh", "stale"}]
    /\ dated \in SUBSET Events
    /\ poll \in [pc : {"idle", "fetch", "publish"}, cutoff : SUBSET Events,
                 startAt : Nat, todo : SUBSET Events,
                 at : Events \cup {NoEvent}, shifted : BOOLEAN]
    /\ row \in [Events -> Row]
    /\ seen \in SUBSET Events
    /\ drain \in [pc : {"idle", "expire", "deliver", "delivered", "failed"},
                  expire : SUBSET Events, rows : SUBSET Events,
                  got : SUBSET Events]
    /\ drain.got \subseteq drain.rows
    /\ faults \in 0 .. MaxFaults
    /\ copies \in [Events -> Nat]
    /\ lost \in [Events -> Nat]
    /\ failures \in [Events -> Nat]

(* "a publish failure does not permanently drop the event": a transition   *)
(* counts as seen only once it is in the outbox, whatever failed before.   *)
SeenIsStored == \A e \in seen : row[e].status # "none"

(* Unless a transition enters or leaves the window during a search, the    *)
(* pages together leave out none that is in the window, of those whose     *)
(* date can be parsed: the others the cycle drops, however it searches.    *)
SearchIsComplete ==
    [][poll.pc = "fetch" /\ poll'.pc = "publish" /\ ~poll.shifted =>
         Fresh \cap dated \subseteq poll'.todo]_vars

(* The sink takes a transition twice only because a record was lost or a   *)
(* call failed half way: every copy belongs to the row's delivered mark,   *)
(* to a record that is being written, or to one that never was.            *)
CopiesAreAccountedFor ==
    \A e \in Events :
      copies[e] = lost[e]
                  + (IF row[e].status = "delivered" THEN 1 ELSE 0)
                  + (IF e \in drain.got THEN 1 ELSE 0)

(* A row is dead-lettered after MaxAttempts failed deliveries of its own,  *)
(* or because it is older than a day, not for what befell other rows of    *)
(* its batch, and not by a crash.                                          *)
DeathIsDeserved ==
    \A e \in Events :
      row[e].status = "dead" => row[e].old \/ failures[e] >= MaxAttempts

(* What the outbox promises: see PushDelivery.                             *)
PhaseOf == [none |-> "absent", pending |-> "queued", delivered |-> "done",
            dead |-> "dropped"]

phase == [e \in Events |-> PhaseOf[row[e].status]]

Promise == INSTANCE PushDelivery WITH Pushes <- Events

KeepsPromise == Promise!Spec

(* A transition whose date can be parsed and that stays in the window is   *)
(* stored, and once stored it is delivered or dead-lettered: crashes,      *)
(* failing searches and lost inserts only delay it, a sink that always     *)
(* fails and full batches of others too. One whose date cannot be parsed   *)
(* is never stored.                                                        *)
(* (Transitions are finitely many here, so each of them settles exactly if *)
(* from some time on all have.)                                            *)
EveryTransitionSettles ==
    <>[](\A e \in dated :
           \/ age[e] = "stale" /\ row[e].status = "none"
           \/ row[e].status \in {"delivered", "dead"})
=============================================================================
