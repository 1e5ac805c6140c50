--------------------------- MODULE JiraPollerProofs ---------------------------
(***************************************************************************)
(* What holds of JiraPoller for every set of transitions, every page and   *)
(* batch size and any number of attempts and faults: the type invariant,   *)
(* that nothing is marked as seen without being stored, the accounting of  *)
(* copies, the reasons a row may be dead-lettered for, and the refinement  *)
(* of PushDelivery, from one inductive invariant, Inv; and that a search   *)
(* by pages leaves nothing out, from SearchSoFar and from what the places  *)
(* of issues in a result are.                                              *)
(***************************************************************************)
EXTENDS JiraPoller, FiniteSetTheorems, TLAPS

(* The transition that is about to be marked has its row.                  *)
AtIsStored == poll.at # NoEvent => row[poll.at].status # "none"

(* The rows in hand are pending until the pass records an outcome, and the *)
(* phase of the pass says what the sink has taken of them.                 *)
PassIsSound ==
    /\ \A e \in drain.rows \cup drain.expire : row[e].status = "pending"
    /\ \A e \in drain.expire : row[e].old
    /\ drain.expire \cap drain.rows = {}
    /\ drain.pc # "expire" => drain.expire = {}
    /\ drain.pc = "idle" => drain.rows = {}
    /\ drain.pc \in {"idle", "expire", "failed"} => drain.got = {}
    /\ drain.pc = "delivered" => drain.got = drain.rows

(* attempts counts failed deliveries, and lags by one while the failure of *)
(* the row is being recorded.                                              *)
AttemptsAreFailures ==
    \A e \in Events :
      /\ row[e].attempts <= failures[e]
      /\ drain.pc = "failed" /\ e \in drain.rows =>
           row[e].attempts + 1 <= failures[e]

Inv ==
    /\ TypeOK
    /\ SeenIsStored
    /\ AtIsStored
    /\ PassIsSound
    /\ CopiesAreAccountedFor
    /\ AttemptsAreFailures
    /\ DeathIsDeserved

USE JiraAssumption DEF JiraAssumption

LEMMA InitInv == Init => Inv
<1> SUFFICES ASSUME Init PROVE Inv
  OBVIOUS
<1> USE DEF Init, IdlePoll, IdleDrain, NoRow
<1>1. TypeOK
  BY DEF TypeOK, Row
<1>2. SeenIsStored /\ AtIsStored /\ PassIsSound
  BY DEF SeenIsStored, AtIsStored, PassIsSound
<1>3. CopiesAreAccountedFor /\ AttemptsAreFailures /\ DeathIsDeserved
  BY DEF CopiesAreAccountedFor, AttemptsAreFailures, DeathIsDeserved
<1> QED
  BY <1>1, <1>2, <1>3 DEF Inv

-----------------------------------------------------------------------------
(* The poll cycle and Jira.                                                *)

(* Whoever leaves the rows and the drain alone disturbs none of what is    *)
(* said of them.                                                           *)
LEMMA SameRows ==
  ASSUME Inv, UNCHANGED <<row, drain, copies, lost, failures>>
  PROVE  /\ PassIsSound' /\ CopiesAreAccountedFor' /\ AttemptsAreFailures'
         /\ DeathIsDeserved'
BY DEF Inv, PassIsSound, CopiesAreAccountedFor, AttemptsAreFailures, DeathIsDeserved

PollType == [pc : {"idle", "fetch", "publish"}, cutoff : SUBSET Events,
             startAt : Nat, todo : SUBSET Events,
             at : Events \cup {NoEvent}, shifted : BOOLEAN]

(* A step that only moves the cycle on, and marks or forgets what it marks.*)
LEMMA PollOnly ==
  ASSUME Inv, UNCHANGED <<row, drain, copies, lost, failures>>,
         age' \in [Events -> {"future", "fresh", "stale"}],
         dated' \in SUBSET Events,
         faults' \in 0 .. MaxFaults, poll' \in PollType,
         poll'.at \in {poll.at, NoEvent},
         seen' = seen \/ (poll.at # NoEvent /\ seen' = seen \cup {poll.at})
  PROVE  Inv'
<1>1. TypeOK'
  BY DEF Inv, TypeOK, PollType
<1>2. SeenIsStored' /\ AtIsStored'
  BY DEF Inv, SeenIsStored, AtIsStored
<1> QED
  BY <1>1, <1>2, SameRows DEF Inv

LEMMA FaultType == ASSUME Inv, Fault PROVE faults' \in 0 .. MaxFaults
BY DEF Inv, TypeOK, Fault

LEMMA JiraInv ==
  ASSUME Inv, NEW e \in Events, Transition(e) \/ LeaveWindow(e)
  PROVE  Inv'
<1>1. /\ UNCHANGED <<row, seen, drain, faults, copies, lost, failures>>
      /\ poll' = [poll EXCEPT !.shifted = poll.shifted \/ poll.pc = "fetch"]
      /\ age' \in [Events -> {"future", "fresh", "stale"}]
      /\ dated' \in SUBSET Events
  BY DEF Transition, LeaveWindow, NoteShift, hist, Inv, TypeOK
<1>2. poll \in PollType /\ faults' \in 0 .. MaxFaults
  BY <1>1 DEF Inv, TypeOK, PollType
<1>3. poll' \in PollType /\ poll'.at = poll.at
  <2>1. (poll.shifted \/ poll.pc = "fetch") \in BOOLEAN
    OBVIOUS
  <2> QED
    BY <1>1, <1>2, <2>1 DEF PollType
<1> QED
  BY <1>1, <1>2, <1>3, PollOnly

LEMMA PollStartInv == ASSUME Inv, PollStart PROVE Inv'
<1>1. /\ UNCHANGED <<age, dated, row, seen, drain, faults, copies, lost, failures>>
      /\ poll' = [IdlePoll EXCEPT !.pc = "fetch", !.cutoff = Stale]
  BY DEF PollStart, hist
<1>2. poll' \in PollType /\ poll'.at = NoEvent
  BY <1>1 DEF PollType, IdlePoll, Stale
<1> QED
  BY <1>1, <1>2, PollOnly DEF Inv, TypeOK

LEMMA PollPageInv == ASSUME Inv, PollPage PROVE Inv'
<1>1. UNCHANGED <<age, dated, row, seen, drain, faults, copies, lost, failures>>
  BY DEF PollPage, hist
<1>2. poll \in PollType
  BY DEF Inv, TypeOK, PollType
<1>3. poll.todo \cup Found \in SUBSET Events /\ poll.startAt + PageSize \in Nat
  BY <1>2 DEF PollType, Found, BeforeCutoff
<1>4. poll' \in PollType /\ poll'.at \in {poll.at, NoEvent}
  <2>1. CASE MorePages
    BY <1>2, <1>3, <2>1 DEF PollPage, PollType
  <2>2. CASE ~MorePages
    BY <1>2, <1>3, <2>2 DEF PollPage, PollType, IdlePoll
  <2> QED
    BY <2>1, <2>2
<1> QED
  BY <1>1, <1>4, PollOnly DEF Inv, TypeOK

LEMMA PollFailsInv == ASSUME Inv, PollFails PROVE Inv'
<1>1. /\ UNCHANGED <<age, dated, row, seen, drain, copies, lost, failures>>
      /\ poll' = IdlePoll
  BY DEF PollFails, hist
<1>2. poll' \in PollType /\ poll'.at = NoEvent
  BY <1>1 DEF PollType, IdlePoll
<1>3. faults' \in 0 .. MaxFaults
  BY FaultType DEF PollFails
<1> QED
  BY <1>1, <1>2, <1>3, PollOnly DEF Inv, TypeOK

LEMMA PublishFailsInv == ASSUME Inv, NEW e \in Events, PublishFails(e) PROVE Inv'
<1>1. /\ UNCHANGED <<age, dated, row, seen, drain, copies, lost, failures>>
      /\ poll' = [poll EXCEPT !.todo = poll.todo \ {e}]
  BY DEF PublishFails, hist
<1>2. poll' \in PollType /\ poll'.at = poll.at
  BY <1>1 DEF Inv, TypeOK, PollType
<1>3. faults' \in 0 .. MaxFaults
  BY FaultType DEF PublishFails
<1> QED
  BY <1>1, <1>2, <1>3, PollOnly DEF Inv, TypeOK

LEMMA MarkInv == ASSUME Inv, Mark \/ MarkFails PROVE Inv'
<1>1. /\ UNCHANGED <<age, dated, row, drain, copies, lost, failures>>
      /\ poll' = [poll EXCEPT !.at = NoEvent]
      /\ poll.at # NoEvent
      /\ seen' = seen \/ seen' = seen \cup {poll.at}
  BY DEF Mark, MarkFails, hist
<1>2. poll' \in PollType /\ poll'.at = NoEvent
  BY <1>1 DEF Inv, TypeOK, PollType
<1>3. faults' \in 0 .. MaxFaults
  BY FaultType DEF Mark, MarkFails, Inv, TypeOK
<1> QED
  BY <1>1, <1>2, <1>3, PollOnly DEF Inv, TypeOK

LEMMA PollEndsInv == ASSUME Inv, PollEnds PROVE Inv'
<1>1. /\ UNCHANGED <<age, dated, row, seen, drain, faults, copies, lost, failures>>
      /\ poll' = IdlePoll
  BY DEF PollEnds, hist
<1>2. poll' \in PollType /\ poll'.at = NoEvent
  BY <1>1 DEF PollType, IdlePoll
<1> QED
  BY <1>1, <1>2, PollOnly DEF Inv, TypeOK

(* The INSERT: a blank row becomes pending, or nothing happens.            *)
LEMMA PublishInv == ASSUME Inv, NEW e \in Events, Publish(e) PROVE Inv'
<1>1. /\ UNCHANGED <<age, dated, seen, drain, faults, copies, lost, failures>>
      /\ poll.at = NoEvent
  BY DEF Publish, InHand, hist
<1>2. poll \in PollType
  BY DEF Inv, TypeOK, PollType
<1>3. CASE row[e].status # "none"
  <2>1. poll' = [poll EXCEPT !.todo = poll.todo \ {e}] /\ UNCHANGED row
    BY <1>3 DEF Publish
  <2>2. poll' \in PollType /\ poll'.at = poll.at
    BY <1>2, <2>1 DEF PollType
  <2> QED
    BY <1>1, <2>1, <2>2, PollOnly DEF Inv, TypeOK
<1>4. CASE row[e].status = "none"
  <2>1. /\ row' = [row EXCEPT ![e] = [NoRow EXCEPT !.status = "pending"]]
        /\ poll' = [poll EXCEPT !.todo = poll.todo \ {e}, !.at = e]
    BY <1>4 DEF Publish
  <2>2. poll' \in PollType /\ poll'.at = e
    BY <1>2, <2>1 DEF PollType
  <2>3. /\ row' \in [Events -> Row]
        /\ row'[e].status = "pending" /\ row'[e].attempts = 0
        /\ \A f \in Events \ {e} : row'[f] = row[f]
    <3>1. [NoRow EXCEPT !.status = "pending"] \in Row
      BY DEF NoRow, Row
    <3> QED
      BY <2>1, <3>1 DEF Inv, TypeOK, NoRow
  <2>4. e \notin drain.rows \cup drain.expire
    BY <1>4 DEF Inv, PassIsSound
  <2>5. TypeOK'
    BY <1>1, <2>2, <2>3 DEF Inv, TypeOK, PollType
  <2>6. SeenIsStored' /\ AtIsStored'
    BY <1>1, <2>2, <2>3 DEF Inv, TypeOK, SeenIsStored, AtIsStored
  <2>7. PassIsSound'
    BY <1>1, <2>3, <2>4 DEF Inv, TypeOK, PassIsSound
  <2>8. CopiesAreAccountedFor'
    BY <1>1, <1>4, <2>3 DEF Inv, CopiesAreAccountedFor
  <2>9. AttemptsAreFailures'
    <3>1. failures[e] \in Nat
      BY DEF Inv, TypeOK
    <3> QED
      BY <1>1, <2>3, <2>4, <3>1 DEF Inv, AttemptsAreFailures
  <2>10. DeathIsDeserved'
    BY <1>1, <2>3 DEF Inv, DeathIsDeserved
  <2> QED
    BY <2>5, <2>6, <2>7, <2>8, <2>9, <2>10 DEF Inv
<1> QED
  BY <1>3, <1>4

-----------------------------------------------------------------------------
(* The drain pass.                                                         *)

(* What a step of the drain leaves to the cycle.                           *)
LEMMA StoredStays ==
  ASSUME Inv, UNCHANGED <<poll, seen>>,
         \A e \in Events : row[e].status # "none" => row'[e].status # "none"
  PROVE  SeenIsStored' /\ AtIsStored'
BY DEF Inv, TypeOK, SeenIsStored, AtIsStored

(* The row e gets the status s and the attempts a.                         *)
RowChange(e, s, a) ==
    /\ row' \in [Events -> Row]
    /\ row'[e].status = s
    /\ row'[e].attempts = a
    /\ row'[e].old = row[e].old
    /\ \A f \in Events \ {e} : row'[f] = row[f]

LEMMA StatusChange ==
  ASSUME Inv, NEW e \in Events, NEW s \in {"pending", "delivered", "dead"},
         row' = [row EXCEPT ![e] = [row[e] EXCEPT !.status = s]]
  PROVE  RowChange(e, s, row[e].attempts)
<1>1. row \in [Events -> Row]
  BY DEF Inv, TypeOK
<1>2. [row[e] EXCEPT !.status = s] \in Row
  BY <1>1 DEF Row
<1> QED
  BY <1>1, <1>2 DEF Row, RowChange

LEMMA RetryChange ==
  ASSUME Inv, NEW e \in Events, NEW a \in Nat,
         row' = [row EXCEPT ![e] = [row[e] EXCEPT !.attempts = a, !.due = FALSE]]
  PROVE  RowChange(e, row[e].status, a)
<1>1. row \in [Events -> Row]
  BY DEF Inv, TypeOK
<1>2. [row[e] EXCEPT !.attempts = a, !.due = FALSE] \in Row
  BY <1>1 DEF Row
<1> QED
  BY <1>1, <1>2 DEF Row, RowChange

DrainType == [pc : {"idle", "expire", "deliver", "delivered", "failed"},
              expire : SUBSET Events, rows : SUBSET Events, got : SUBSET Events]

LEMMA DrainSelectInv ==
  ASSUME Inv, NEW B \in SUBSET Due, NEW old \in SUBSET B, DrainSelect(B, old)
  PROVE  Inv'
<1>1. /\ drain.pc = "idle" /\ drain.rows = {} /\ drain.got = {}
      /\ drain' = [pc |-> "expire", expire |-> old, rows |-> B \ old, got |-> {}]
      /\ row' = [e \in Events |-> [row[e] EXCEPT !.old = row[e].old \/ e \in old]]
      /\ UNCHANGED <<age, dated, poll, seen, faults, copies, lost, failures>>
  BY DEF DrainSelect, hist, Inv, PassIsSound
<1>2. B \subseteq Events /\ old \subseteq Events
      /\ \A e \in B : row[e].status = "pending"
  BY DEF Due
<1>3. row' \in [Events -> Row]
  <2>1. \A e \in Events : [row[e] EXCEPT !.old = row[e].old \/ e \in old] \in Row
    <3> TAKE e \in Events
    <3>1. row[e] \in Row
      BY DEF Inv, TypeOK
    <3>2. (row[e].old \/ e \in old) \in BOOLEAN
      OBVIOUS
    <3> QED
      BY <3>1, <3>2 DEF Row
  <2> QED
    BY <1>1, <2>1
<1>4. \A e \in Events :
        /\ row'[e].status = row[e].status /\ row'[e].attempts = row[e].attempts
        /\ row[e].old \/ e \in old => row'[e].old
  <2> TAKE e \in Events
  <2>1. row'[e] = [row[e] EXCEPT !.old = row[e].old \/ e \in old]
    BY <1>1
  <2>2. row[e] \in Row
    BY DEF Inv, TypeOK
  <2> QED
    BY <2>1, <2>2 DEF Row
<1>5. TypeOK'
  BY <1>1, <1>2, <1>3 DEF Inv, TypeOK
<1>6. PassIsSound'
  <2>1. \A e \in B : row'[e].status = "pending"
    BY <1>2, <1>4
  <2>2. \A e \in old : row'[e].old
    BY <1>2, <1>4
  <2>3. /\ drain'.rows = B \ old /\ drain'.expire = old /\ drain'.pc = "expire"
        /\ drain'.got = {}
    BY <1>1
  <2>4. QED
    BY <2>1, <2>2, <2>3 DEF PassIsSound
<1>7. CopiesAreAccountedFor' /\ AttemptsAreFailures' /\ DeathIsDeserved'
  BY <1>1, <1>4 DEF Inv, CopiesAreAccountedFor, AttemptsAreFailures, DeathIsDeserved
<1>8. SeenIsStored' /\ AtIsStored'
  BY <1>1, <1>4, StoredStays
<1> QED
  BY <1>5, <1>6, <1>7, <1>8 DEF Inv

LEMMA ExpireRowInv ==
  ASSUME Inv, NEW e \in Events, ExpireRow(e)
  PROVE  Inv'
<1>1. /\ drain' = [drain EXCEPT !.expire = drain.expire \ {e}]
      /\ UNCHANGED <<age, dated, poll, seen, faults, copies, lost, failures>>
  BY DEF ExpireRow, hist
<1>2. /\ row[e].status = "pending" /\ row[e].old
      /\ e \notin drain.rows /\ e \notin drain.got
  BY DEF ExpireRow, Inv, PassIsSound, TypeOK
<1>3. RowChange(e, "dead", row[e].attempts)
  BY StatusChange DEF ExpireRow, MarkDead
<1>4. TypeOK'
  BY <1>1, <1>3 DEF Inv, TypeOK, RowChange
<1>5. PassIsSound'
  BY <1>1, <1>2, <1>3 DEF Inv, TypeOK, PassIsSound, RowChange
<1>6. CopiesAreAccountedFor'
  BY <1>1, <1>2, <1>3 DEF Inv, TypeOK, CopiesAreAccountedFor, RowChange
<1>7. AttemptsAreFailures'
  BY <1>1, <1>2, <1>3 DEF Inv, TypeOK, AttemptsAreFailures, RowChange
<1>8. DeathIsDeserved'
  BY <1>1, <1>2, <1>3 DEF Inv, DeathIsDeserved, RowChange
<1>9. SeenIsStored' /\ AtIsStored'
  BY <1>1, <1>3, StoredStays DEF RowChange
<1> QED
  BY <1>4, <1>5, <1>6, <1>7, <1>8, <1>9 DEF Inv

(* Steps that leave the table alone and the histories too.                 *)
LEMMA DrainOnly ==
  ASSUME Inv, UNCHANGED <<age, dated, poll, row, seen, copies, lost, failures>>,
         faults' \in 0 .. MaxFaults, drain' \in DrainType,
         drain'.got = drain.got, drain'.rows = drain.rows,
         PassIsSound', drain'.pc = "failed" => drain.pc = "failed"
  PROVE  Inv'
<1>1. TypeOK'
  BY DEF Inv, TypeOK, DrainType
<1>2. SeenIsStored' /\ AtIsStored'
  BY StoredStays
<1>3. CopiesAreAccountedFor' /\ AttemptsAreFailures' /\ DeathIsDeserved'
  BY DEF Inv, CopiesAreAccountedFor, AttemptsAreFailures, DeathIsDeserved
<1> QED
  BY <1>1, <1>2, <1>3 DEF Inv

LEMMA ExpireLostInv ==
  ASSUME Inv, NEW e \in Events, ExpireLost(e)
  PROVE  Inv'
<1>1. /\ UNCHANGED <<age, dated, poll, row, seen, copies, lost, failures>>
      /\ drain' = [drain EXCEPT !.expire = drain.expire \ {e}]
      /\ faults' \in 0 .. MaxFaults
  BY FaultType DEF ExpireLost, hist
<1>2. /\ drain' \in DrainType
      /\ drain'.got = drain.got /\ drain'.rows = drain.rows /\ drain'.pc = drain.pc
      /\ drain'.expire = drain.expire \ {e}
  BY <1>1 DEF Inv, TypeOK, DrainType
<1>3. PassIsSound'
  BY <1>1, <1>2 DEF Inv, PassIsSound
<1> QED
  BY <1>1, <1>2, <1>3, DrainOnly

LEMMA DeliverStartInv == ASSUME Inv, DeliverStart PROVE Inv'
<1>1. /\ UNCHANGED <<age, dated, poll, row, seen, faults, copies, lost, failures>>
      /\ drain.pc = "expire" /\ drain.expire = {} /\ drain.got = {}
      /\ faults' \in 0 .. MaxFaults
  BY DEF DeliverStart, hist, Inv, TypeOK, PassIsSound
<1>2. /\ drain' \in DrainType
      /\ drain'.got = drain.got /\ drain'.rows = drain.rows
      /\ drain'.expire = drain.expire
      /\ \/ drain'.pc = "deliver"
         \/ drain'.pc = "idle" /\ drain.rows = {}
  <2>1. CASE drain.rows = {}
    BY <1>1, <2>1 DEF DeliverStart, IdleDrain, DrainType
  <2>2. CASE drain.rows # {}
    BY <1>1, <2>2 DEF DeliverStart, Inv, TypeOK, DrainType
  <2> QED
    BY <2>1, <2>2
<1>3. PassIsSound'
  BY <1>1, <1>2 DEF Inv, PassIsSound
<1> QED
  BY <1>1, <1>2, <1>3, DrainOnly

LEMMA SinkSucceedsInv == ASSUME Inv, SinkSucceeds PROVE Inv'
<1>1. /\ UNCHANGED <<age, dated, poll, row, seen, faults, copies, lost, failures>>
      /\ drain.pc = "deliver" /\ drain.got = drain.rows
      /\ drain' = [drain EXCEPT !.pc = "delivered"]
      /\ faults' \in 0 .. MaxFaults
  BY DEF SinkSucceeds, hist, Inv, TypeOK
<1>2. /\ drain' \in DrainType
      /\ drain'.got = drain.got /\ drain'.rows = drain.rows
      /\ drain'.expire = drain.expire /\ drain'.pc = "delivered"
  BY <1>1 DEF Inv, TypeOK, DrainType
<1>3. PassIsSound'
  BY <1>1, <1>2 DEF Inv, PassIsSound
<1> QED
  BY <1>1, <1>2, <1>3, DrainOnly

LEMMA SinkAcceptsInv ==
  ASSUME Inv, NEW e \in Events, SinkAccepts(e)
  PROVE  Inv'
<1>1. /\ UNCHANGED <<age, dated, poll, row, seen, faults, lost, failures>>
      /\ drain.pc = "deliver" /\ e \in drain.rows /\ e \notin drain.got
      /\ drain' = [drain EXCEPT !.got = drain.got \cup {e}]
      /\ copies' = [copies EXCEPT ![e] = copies[e] + 1]
  BY DEF SinkAccepts
<1>2. TypeOK'
  BY <1>1 DEF Inv, TypeOK
<1>3. /\ drain'.got = drain.got \cup {e} /\ drain'.rows = drain.rows
      /\ drain'.expire = drain.expire /\ drain'.pc = "deliver"
  BY <1>1 DEF Inv, TypeOK
<1>4. PassIsSound'
  BY <1>1, <1>3 DEF Inv, PassIsSound
<1>5. CopiesAreAccountedFor'
  <2>1. \A f \in Events : copies[f] \in Nat /\ lost[f] \in Nat
    BY DEF Inv, TypeOK
  <2>2. \A f \in Events : copies'[f] = IF f = e THEN copies[f] + 1 ELSE copies[f]
    BY <1>1 DEF Inv, TypeOK
  <2> QED
    BY <1>1, <1>3, <2>1, <2>2 DEF Inv, CopiesAreAccountedFor
<1>6. AttemptsAreFailures' /\ DeathIsDeserved'
  BY <1>1, <1>3 DEF Inv, AttemptsAreFailures, DeathIsDeserved
<1>7. SeenIsStored' /\ AtIsStored'
  BY <1>1, StoredStays
<1> QED
  BY <1>2, <1>4, <1>5, <1>6, <1>7 DEF Inv

LEMMA PlusFacts ==
  ASSUME NEW f \in [Events -> Nat], NEW S
  PROVE  /\ Plus(f, S) \in [Events -> Nat]
         /\ \A e \in Events : Plus(f, S)[e] = IF e \in S THEN f[e] + 1 ELSE f[e]
BY DEF Plus

LEMMA SinkFailsInv == ASSUME Inv, SinkFails PROVE Inv'
<1>1. /\ UNCHANGED <<age, dated, poll, row, seen, faults, copies>>
      /\ drain.pc = "deliver"
      /\ drain' = [drain EXCEPT !.pc = "failed", !.got = {}]
      /\ failures' = Plus(failures, drain.rows)
      /\ lost' = Plus(lost, drain.got)
  BY DEF SinkFails
<1>2. /\ lost' \in [Events -> Nat]
      /\ failures' \in [Events -> Nat]
      /\ \A e \in Events :
           /\ lost'[e] = IF e \in drain.got THEN lost[e] + 1 ELSE lost[e]
           /\ failures'[e] = IF e \in drain.rows THEN failures[e] + 1 ELSE failures[e]
  BY <1>1, PlusFacts DEF Inv, TypeOK
<1>3. /\ drain' \in DrainType
      /\ drain'.got = {} /\ drain'.rows = drain.rows
      /\ drain'.expire = drain.expire /\ drain'.pc = "failed"
  BY <1>1 DEF Inv, TypeOK, DrainType
<1>4. TypeOK'
  BY <1>1, <1>2, <1>3 DEF Inv, TypeOK, DrainType
<1>5. PassIsSound'
  BY <1>1, <1>3 DEF Inv, PassIsSound
<1>6. \A e \in Events : /\ copies[e] \in Nat /\ lost[e] \in Nat
                        /\ failures[e] \in Nat /\ row[e].attempts \in Nat
                        /\ e \in drain.got => e \in drain.rows
  BY DEF Inv, TypeOK, Row
<1>7. CopiesAreAccountedFor'
  <2>1. \A e \in drain.got : row[e].status = "pending"
    BY DEF Inv, TypeOK, PassIsSound
  <2> QED
    BY <1>1, <1>2, <1>3, <1>6, <2>1 DEF Inv, CopiesAreAccountedFor
<1>8. AttemptsAreFailures' /\ DeathIsDeserved'
  BY <1>1, <1>2, <1>3, <1>6 DEF Inv, AttemptsAreFailures, DeathIsDeserved
<1>9. SeenIsStored' /\ AtIsStored'
  BY <1>1, StoredStays
<1> QED
  BY <1>4, <1>5, <1>7, <1>8, <1>9 DEF Inv

(* The record of one row's outcome: whether this was the last row or not,  *)
(* the row is no longer in hand.                                           *)
LEMMA RecordedFacts ==
  ASSUME Inv, NEW e \in Events, Recorded(e), e \in drain.rows,
         drain.pc \in {"delivered", "failed"}
  PROVE  /\ drain' \in DrainType
         /\ drain'.rows = drain.rows \ {e} /\ drain'.got = drain.got \ {e}
         /\ drain'.expire = {}
         /\ drain'.pc = drain.pc \/ (drain'.pc = "idle" /\ drain'.rows = {})
         /\ drain.expire = {}
<1>1. drain.expire = {} /\ drain.got \in {{}, drain.rows} /\ drain \in DrainType
  BY DEF Inv, TypeOK, PassIsSound, DrainType
<1>2. CASE drain.rows = {e}
  BY <1>1, <1>2 DEF Recorded, IdleDrain, DrainType
<1>3. CASE drain.rows # {e}
  <2>1. drain' = [drain EXCEPT !.rows = drain.rows \ {e}, !.got = drain.got \ {e}]
    BY <1>3 DEF Recorded
  <2>2. /\ drain' \in DrainType
        /\ drain'.rows = drain.rows \ {e} /\ drain'.got = drain.got \ {e}
        /\ drain'.expire = drain.expire /\ drain'.pc = drain.pc
    BY <1>1, <2>1 DEF DrainType
  <2> QED
    BY <1>1, <2>2
<1> QED
  BY <1>1, <1>2, <1>3

LEMMA MarkDeliveredInv ==
  ASSUME Inv, NEW e \in Events, MarkDelivered(e)
  PROVE  Inv'
<1>1. /\ UNCHANGED <<age, dated, poll, seen, faults, copies, lost, failures>>
      /\ drain.pc = "delivered" /\ e \in drain.rows /\ e \in drain.got
      /\ row[e].status = "pending" /\ drain.got = drain.rows
  BY DEF MarkDelivered, hist, Inv, PassIsSound
<1>2. /\ drain' \in DrainType
      /\ drain'.rows = drain.rows \ {e} /\ drain'.got = drain.got \ {e}
      /\ drain'.expire = {}
      /\ drain'.pc = "delivered" \/ (drain'.pc = "idle" /\ drain'.rows = {})
  BY <1>1, RecordedFacts DEF MarkDelivered
<1>3. RowChange(e, "delivered", row[e].attempts)
  BY StatusChange DEF MarkDelivered
<1>4. TypeOK'
  BY <1>1, <1>2, <1>3 DEF Inv, TypeOK, DrainType, RowChange
<1>5. PassIsSound'
  BY <1>1, <1>2, <1>3 DEF Inv, TypeOK, PassIsSound, RowChange
<1>6. CopiesAreAccountedFor'
  BY <1>1, <1>2, <1>3 DEF Inv, TypeOK, CopiesAreAccountedFor, RowChange
<1>7. AttemptsAreFailures'
  BY <1>1, <1>2, <1>3 DEF Inv, TypeOK, AttemptsAreFailures, RowChange
<1>8. DeathIsDeserved'
  BY <1>1, <1>2, <1>3 DEF Inv, DeathIsDeserved, RowChange
<1>9. SeenIsStored' /\ AtIsStored'
  BY <1>1, <1>3, StoredStays DEF RowChange
<1> QED
  BY <1>4, <1>5, <1>6, <1>7, <1>8, <1>9 DEF Inv

(* The failure that is recorded here is one more than attempts shows.      *)
LEMMA RecordFailureInv ==
  ASSUME Inv, NEW e \in Events, RecordFailure(e)
  PROVE  Inv'
<1>1. /\ UNCHANGED <<age, dated, poll, seen, faults, copies, lost, failures>>
      /\ drain.pc = "failed" /\ e \in drain.rows /\ drain.got = {}
      /\ row[e].status = "pending"
  BY DEF RecordFailure, hist, Inv, PassIsSound
<1>2. /\ drain' \in DrainType
      /\ drain'.rows = drain.rows \ {e} /\ drain'.got = {}
      /\ drain'.expire = {}
      /\ drain'.pc = "failed" \/ (drain'.pc = "idle" /\ drain'.rows = {})
  BY <1>1, RecordedFacts DEF RecordFailure
<1>3. row[e].attempts \in Nat /\ failures[e] \in Nat
      /\ row[e].attempts + 1 <= failures[e]
  BY <1>1 DEF Inv, TypeOK, Row, AttemptsAreFailures
<1>4. PICK s \in {"pending", "dead"}, a \in Nat :
        /\ RowChange(e, s, a) /\ a <= failures[e]
        /\ s = "dead" => failures[e] >= MaxAttempts
  <2>1. CASE LastAttempt(e)
    <3>1. RowChange(e, "dead", row[e].attempts)
      BY <2>1, StatusChange DEF RecordFailure, MarkDead
    <3>2. row[e].attempts <= failures[e] /\ failures[e] >= MaxAttempts
      BY <1>3, <2>1 DEF LastAttempt
    <3> QED
      BY <1>3, <3>1, <3>2
  <2>2. CASE ~LastAttempt(e)
    <3>1. row' = [row EXCEPT ![e] =
                   [row[e] EXCEPT !.attempts = row[e].attempts + 1, !.due = FALSE]]
      BY <2>2 DEF RecordFailure
    <3>2. row[e].attempts + 1 \in Nat
      BY <1>3
    <3>3. RowChange(e, row[e].status, row[e].attempts + 1)
      BY <3>1, <3>2, RetryChange
    <3> QED
      BY <1>1, <1>3, <3>2, <3>3
  <2> QED
    BY <2>1, <2>2
<1>5. TypeOK'
  BY <1>1, <1>2, <1>4 DEF Inv, TypeOK, DrainType, RowChange
<1>6. PassIsSound'
  BY <1>1, <1>2, <1>4 DEF Inv, TypeOK, PassIsSound, RowChange
<1>7. CopiesAreAccountedFor'
  BY <1>1, <1>2, <1>4 DEF Inv, TypeOK, CopiesAreAccountedFor, RowChange
<1>8. AttemptsAreFailures'
  BY <1>1, <1>2, <1>4 DEF Inv, TypeOK, AttemptsAreFailures, RowChange
<1>9. DeathIsDeserved'
  BY <1>1, <1>2, <1>4 DEF Inv, DeathIsDeserved, RowChange
<1>10. SeenIsStored' /\ AtIsStored'
  BY <1>1, <1>4, StoredStays DEF RowChange
<1> QED
  BY <1>5, <1>6, <1>7, <1>8, <1>9, <1>10 DEF Inv

(* Copies in hand whose record is given up move to the lost ones.          *)
LEMMA LoseCopies ==
  ASSUME Inv, NEW S \in SUBSET drain.got, lost' = Plus(lost, S),
         UNCHANGED <<row, copies, failures>>,
         drain'.got = drain.got \ S
  PROVE  lost' \in [Events -> Nat] /\ CopiesAreAccountedFor'
<1>1. /\ lost' \in [Events -> Nat]
      /\ \A e \in Events : lost'[e] = IF e \in S THEN lost[e] + 1 ELSE lost[e]
  BY PlusFacts DEF Inv, TypeOK
<1>2. \A e \in Events : copies[e] \in Nat /\ lost[e] \in Nat
  BY DEF Inv, TypeOK
<1> QED
  BY <1>1, <1>2 DEF Inv, CopiesAreAccountedFor

LEMMA RecordLostInv ==
  ASSUME Inv, NEW e \in Events, RecordLost(e)
  PROVE  Inv'
<1>1. /\ UNCHANGED <<age, dated, poll, row, seen, copies, failures>>
      /\ drain.pc \in {"delivered", "failed"} /\ e \in drain.rows
      /\ faults' \in 0 .. MaxFaults
      /\ lost' = Plus(lost, drain.got \cap {e})
  BY FaultType DEF RecordLost
<1>2. /\ drain' \in DrainType
      /\ drain'.rows = drain.rows \ {e} /\ drain'.got = drain.got \ {e}
      /\ drain'.expire = {}
      /\ drain'.pc = drain.pc \/ (drain'.pc = "idle" /\ drain'.rows = {})
  BY <1>1, RecordedFacts DEF RecordLost
<1>3. lost' \in [Events -> Nat] /\ CopiesAreAccountedFor'
  <2>1. drain'.got = drain.got \ (drain.got \cap {e})
    BY <1>2
  <2> QED
    BY <1>1, <2>1, LoseCopies
<1>4. TypeOK'
  BY <1>1, <1>2, <1>3 DEF Inv, TypeOK, DrainType
<1>5. PassIsSound'
  BY <1>1, <1>2 DEF Inv, TypeOK, PassIsSound
<1>6. AttemptsAreFailures' /\ DeathIsDeserved'
  BY <1>1, <1>2 DEF Inv, AttemptsAreFailures, DeathIsDeserved
<1>7. SeenIsStored' /\ AtIsStored'
  BY <1>1, StoredStays
<1> QED
  BY <1>3, <1>4, <1>5, <1>6, <1>7 DEF Inv

LEMMA CrashInv == ASSUME Inv, Crash PROVE Inv'
<1>1. /\ UNCHANGED <<age, dated, row, seen, copies, failures>>
      /\ faults' \in 0 .. MaxFaults
      /\ poll' = IdlePoll /\ drain' = IdleDrain
      /\ lost' = Plus(lost, drain.got)
  BY FaultType DEF Crash
<1>2. lost' \in [Events -> Nat] /\ CopiesAreAccountedFor'
  <2>1. drain'.got = drain.got \ drain.got
    BY <1>1 DEF IdleDrain
  <2> QED
    BY <1>1, <2>1, LoseCopies
<1>3. TypeOK'
  BY <1>1, <1>2 DEF Inv, TypeOK, IdlePoll, IdleDrain
<1>4. PassIsSound' /\ SeenIsStored' /\ AtIsStored'
  BY <1>1 DEF Inv, PassIsSound, SeenIsStored, AtIsStored, IdlePoll, IdleDrain
<1>5. AttemptsAreFailures' /\ DeathIsDeserved'
  BY <1>1 DEF Inv, AttemptsAreFailures, DeathIsDeserved, IdleDrain
<1> QED
  BY <1>2, <1>3, <1>4, <1>5 DEF Inv

LEMMA BackoffEndsInv ==
  ASSUME Inv, NEW e \in Events, BackoffEnds(e)
  PROVE  Inv'
<1>1. /\ UNCHANGED <<age, dated, poll, seen, drain, faults, copies, lost, failures>>
      /\ row' = [row EXCEPT ![e] = [row[e] EXCEPT !.due = TRUE]]
  BY DEF BackoffEnds, hist
<1>2. RowChange(e, row[e].status, row[e].attempts)
  <2>1. row \in [Events -> Row]
    BY DEF Inv, TypeOK
  <2>2. [row[e] EXCEPT !.due = TRUE] \in Row
    BY <2>1 DEF Row
  <2> QED
    BY <1>1, <2>1, <2>2 DEF Row, RowChange
<1>3. TypeOK'
  BY <1>1, <1>2 DEF Inv, TypeOK, RowChange
<1>4. \A f \in Events : /\ row'[f].status = row[f].status
                        /\ row'[f].attempts = row[f].attempts
                        /\ row'[f].old = row[f].old
  BY <1>2 DEF RowChange
<1>5. SeenIsStored' /\ AtIsStored'
  BY <1>1, <1>4, StoredStays
<1>6. PassIsSound'
  BY <1>1, <1>4 DEF Inv, TypeOK, PassIsSound
<1>7. CopiesAreAccountedFor' /\ AttemptsAreFailures' /\ DeathIsDeserved'
  BY <1>1, <1>4 DEF Inv, CopiesAreAccountedFor, AttemptsAreFailures, DeathIsDeserved
<1> QED
  BY <1>3, <1>5, <1>6, <1>7 DEF Inv

-----------------------------------------------------------------------------
(* The theorems.                                                           *)

LEMMA Members ==
  ASSUME Inv
  PROVE  /\ poll.todo \subseteq Events
         /\ drain.expire \subseteq Events /\ drain.rows \subseteq Events
BY DEF Inv, TypeOK

LEMMA NextInv == Inv /\ [Next]_vars => Inv'
<1> SUFFICES ASSUME Inv, [Next]_vars PROVE Inv'
  OBVIOUS
<1>1. CASE PollStep
  BY <1>1, Members, PollStartInv, PollPageInv, PollFailsInv, PublishInv,
     PublishFailsInv, MarkInv, PollEndsInv DEF PollStep
<1>2. CASE DrainStep
  BY <1>2, Members, DrainSelectInv, ExpireRowInv, ExpireLostInv, DeliverStartInv,
     SinkSucceedsInv, SinkFailsInv, SinkAcceptsInv, MarkDeliveredInv,
     RecordFailureInv, RecordLostInv DEF DrainStep
<1>3. CASE Time
  BY <1>3, JiraInv, BackoffEndsInv DEF Time
<1>4. CASE Crash
  BY <1>4, CrashInv
<1>5. CASE UNCHANGED vars
  BY <1>5 DEF vars, hist, Inv, TypeOK, SeenIsStored, AtIsStored, PassIsSound,
     CopiesAreAccountedFor, AttemptsAreFailures, DeathIsDeserved
<1> QED
  BY <1>1, <1>2, <1>3, <1>4, <1>5 DEF Next

(* Inv, the inductive invariant, holds in every reachable state.           *)
THEOREM InvHolds == Spec => []Inv
BY InitInv, NextInv, PTL DEF Spec

(* The tables, the two goroutines and the histories are well typed.        *)
THEOREM TypeCorrect == Spec => []TypeOK
<1>1. Inv => TypeOK
  BY DEF Inv
<1> QED
  BY <1>1, InvHolds, PTL

(* A transition is marked as seen only after its row was written: a failed *)
(* insert leaves it to the next cycle.                                     *)
THEOREM StoredBeforeSeen == Spec => []SeenIsStored
<1>1. Inv => SeenIsStored
  BY DEF Inv
<1> QED
  BY <1>1, InvHolds, PTL

(* Every copy the sink took is accounted for: a second one means that a    *)
(* record was lost or that a call failed after taking part of its rows.    *)
THEOREM Accounting == Spec => []CopiesAreAccountedFor
<1>1. Inv => CopiesAreAccountedFor
  BY DEF Inv
<1> QED
  BY <1>1, InvHolds, PTL

(* Only age or MaxAttempts failed deliveries of the row itself kill it.    *)
THEOREM NoEarlyDeath == Spec => []DeathIsDeserved
<1>1. Inv => DeathIsDeserved
  BY DEF Inv
<1> QED
  BY <1>1, InvHolds, PTL

-----------------------------------------------------------------------------
(* The search: ranks count the matching issues from 1 without a gap, so a  *)
(* page that is not full is the last.                                      *)

LEMMA MatchingFinite ==
  ASSUME TypeOK
  PROVE  /\ Matching \subseteq 1 .. MaxIssue /\ IsFiniteSet(Matching)
         /\ Cardinality(Matching) \in Nat
<1>1. Matching \subseteq 1 .. MaxIssue
  BY DEF Matching, Fresh
<1>2. IsFiniteSet(1 .. MaxIssue)
  BY FS_Interval
<1> QED
  BY <1>1, <1>2, FS_Subset, FS_CardinalityType

UpTo(i) == {j \in Matching : j <= i}

LEMMA RankType ==
  ASSUME TypeOK, NEW i \in Matching
  PROVE  Rank(i) \in 1 .. Cardinality(Matching)
<1>1. IsFiniteSet(UpTo(i)) /\ Cardinality(UpTo(i)) <= Cardinality(Matching)
  BY MatchingFinite, FS_Subset DEF UpTo
<1>2. i \in UpTo(i)
  BY MatchingFinite DEF UpTo
<1>3. Cardinality(UpTo(i)) \in Nat /\ Cardinality(UpTo(i)) # 0
  BY <1>1, <1>2, FS_CardinalityType, FS_EmptySet
<1> QED
  BY <1>1, <1>3, MatchingFinite DEF Rank, UpTo

LEMMA RankGrows ==
  ASSUME TypeOK, NEW i \in Matching, NEW j \in Matching, i < j
  PROVE  Rank(i) < Rank(j)
<1>1. i \in Nat /\ j \in Nat /\ \A x \in Matching : x \in Nat
  BY MatchingFinite
<1>2. UpTo(i) \subseteq UpTo(j) /\ j \in UpTo(j) /\ j \notin UpTo(i)
  <2>1. \A x \in Matching : x <= i => x <= j
    BY <1>1
  <2>2. j <= j /\ ~(j <= i)
    BY <1>1
  <2> QED
    BY <2>1, <2>2 DEF UpTo
<1>3. IsFiniteSet(UpTo(j))
  BY MatchingFinite, FS_Subset DEF UpTo
<1>4. /\ Cardinality(UpTo(i)) <= Cardinality(UpTo(j))
      /\ Cardinality(UpTo(i)) # Cardinality(UpTo(j))
  BY <1>2, <1>3, FS_Subset
<1>5. Rank(i) \in Nat /\ Rank(j) \in Nat
  BY RankType
<1> QED
  BY <1>4, <1>5 DEF Rank, UpTo

LEMMA RankIsOnto ==
  ASSUME TypeOK, NEW r \in 1 .. Cardinality(Matching)
  PROVE  \E i \in Matching : Rank(i) = r
<1> DEFINE T == 1 .. Cardinality(Matching)
           f == [i \in Matching |-> Rank(i)]
<1>1. f \in [Matching -> T]
  BY RankType
<1>2. ASSUME NEW i \in Matching, NEW j \in Matching, f[i] = f[j] PROVE i = j
  <2>1. i \in Nat /\ j \in Nat /\ Rank(i) \in Nat /\ Rank(j) \in Nat
    BY MatchingFinite, RankType
  <2>2. ~(i < j) /\ ~(j < i)
    BY <1>2, <2>1, RankGrows
  <2> QED
    BY <2>1, <2>2
<1>3. f \in Injection(Matching, T)
  BY <1>1, <1>2 DEF Injection, IsInjective
<1>4. IsFiniteSet(T) /\ Cardinality(T) = Cardinality(Matching)
  BY MatchingFinite, FS_Interval
<1>5. f \in Surjection(Matching, T)
  BY <1>3, <1>4, FS_Injection
<1> QED
  BY <1>5 DEF Surjection

(* If an issue is left for a later page, this one is full.                 *)
LEMMA FullPage ==
  ASSUME TypeOK, NEW i \in Matching, Rank(i) > poll.startAt + PageSize
  PROVE  Cardinality(Page) = PageSize
<1> DEFINE s == poll.startAt
           N == Cardinality(Matching)
           g == [x \in Page |-> Rank(x) - s]
<1>1. s \in Nat /\ N \in Nat /\ s + PageSize < N /\ PageSize \in Nat
  BY RankType, MatchingFinite DEF TypeOK
<1>2. Page \subseteq Matching /\ \A x \in Page : /\ Rank(x) \in Nat
                                                 /\ s < Rank(x) /\ Rank(x) <= s + PageSize
  BY RankType DEF Page
<1>3. g \in [Page -> 1 .. PageSize]
  <2>1. \A x \in Page : Rank(x) - s \in 1 .. PageSize
    BY <1>1, <1>2
  <2> QED
    BY <2>1
<1>4. ASSUME NEW x \in Page, NEW y \in Page, g[x] = g[y] PROVE x = y
  <2>1. Rank(x) = Rank(y) /\ x \in Nat /\ y \in Nat
    BY <1>1, <1>2, <1>4, MatchingFinite
  <2>2. ~(x < y) /\ ~(y < x)
    BY <1>2, <2>1, RankGrows
  <2> QED
    BY <2>1, <2>2
<1>5. ASSUME NEW r \in 1 .. PageSize PROVE \E x \in Page : g[x] = r
  <2>1. s + r \in 1 .. N
    BY <1>1
  <2>2. PICK x \in Matching : Rank(x) = s + r
    BY <2>1, RankIsOnto
  <2>3. x \in Page /\ Rank(x) - s = r
    BY <1>1, <2>2 DEF Page
  <2> QED
    BY <2>3
<1>6. g \in Injection(Page, 1 .. PageSize) /\ g \in Surjection(Page, 1 .. PageSize)
  BY <1>3, <1>4, <1>5 DEF Injection, Surjection, IsInjective
<1>7. IsFiniteSet(1 .. PageSize) /\ Cardinality(1 .. PageSize) = PageSize
  BY <1>1, FS_Interval
<1> QED
  BY <1>6, <1>7, FS_Injection

(* The pages so far have brought what is in the window up to the offset,   *)
(* as far as its date can be parsed.                                       *)
SearchSoFar ==
    poll.pc = "fetch" =>
      /\ poll.cutoff \subseteq Stale
      /\ ~poll.shifted =>
           \A e \in Fresh \cap dated :
             Rank(IssueOf[e]) <= poll.startAt => e \in poll.todo

(* A page brings what is in the window and between its bounds, if its date *)
(* can be parsed.                                                          *)
LEMMA PageBrings ==
  ASSUME TypeOK, SearchSoFar, PollPage, ~poll.shifted, NEW e \in Fresh \cap dated,
         Rank(IssueOf[e]) <= poll.startAt + PageSize
  PROVE  e \in poll.todo \cup Found
<1>1. /\ poll.pc = "fetch" /\ e \in Events /\ e \in dated /\ age[e] = "fresh"
      /\ IssueOf[e] \in Matching
  BY DEF PollPage, Fresh, Matching
<1>2. Rank(IssueOf[e]) \in Nat /\ poll.startAt \in Nat
  BY <1>1, RankType DEF TypeOK
<1>3. CASE Rank(IssueOf[e]) <= poll.startAt
  BY <1>1, <1>3 DEF SearchSoFar
<1>4. CASE poll.startAt < Rank(IssueOf[e])
  <2>1. e \notin poll.cutoff
    BY <1>1 DEF SearchSoFar, Stale
  <2>2. IssueOf[e] \in Page
    BY <1>1, <1>4 DEF Page
  <2> QED
    BY <1>1, <2>1, <2>2 DEF Found, BeforeCutoff
<1> QED
  BY <1>2, <1>3, <1>4

(* The last page brings the rest.                                          *)
LEMMA LastPageBrings ==
  ASSUME TypeOK, SearchSoFar, PollPage, ~poll.shifted, ~MorePages
  PROVE  Fresh \cap dated \subseteq poll'.todo
<1>1. poll'.todo = poll.todo \cup Found
  BY DEF PollPage, IdlePoll
<1>2. ASSUME NEW e \in Fresh \cap dated PROVE e \in poll.todo \cup Found
  <2>1. IssueOf[e] \in Matching
    BY DEF Matching
  <2>2. ~(Rank(IssueOf[e]) > poll.startAt + PageSize)
    BY <2>1, FullPage DEF MorePages
  <2>3. Rank(IssueOf[e]) \in Nat /\ poll.startAt \in Nat
    BY <2>1, RankType DEF TypeOK
  <2>4. Rank(IssueOf[e]) <= poll.startAt + PageSize
    BY <2>2, <2>3
  <2> QED
    BY <2>4, PageBrings
<1> QED
  BY <1>1, <1>2

LEMMA SearchInit == Init => SearchSoFar
BY DEF Init, SearchSoFar, IdlePoll

LEMMA SearchStep ==
  ASSUME Inv, SearchSoFar, [Next]_vars
  PROVE  SearchSoFar'
<1>0. TypeOK /\ poll \in PollType
  BY DEF Inv, TypeOK, PollType
<1>1. CASE PollStart
  <2>1. /\ poll' = [IdlePoll EXCEPT !.pc = "fetch", !.cutoff = Stale]
        /\ age' = age /\ dated' = dated
    BY <1>1 DEF PollStart
  <2>2. poll'.cutoff = Stale /\ poll'.startAt = 0
    BY <2>1 DEF IdlePoll
  <2>3. Stale' = Stale /\ Fresh' = Fresh /\ \A i : Rank(i)' = Rank(i)
    BY <2>1 DEF Stale, Fresh, Rank, Matching
  <2>4. ASSUME NEW e \in Fresh PROVE ~(Rank(IssueOf[e]) <= 0)
    <3>1. Rank(IssueOf[e]) \in 1 .. Cardinality(Matching)
      BY <1>0, RankType DEF Matching
    <3>2. Cardinality(Matching) \in Nat
      BY <1>0, MatchingFinite
    <3> QED
      BY <3>1, <3>2
  <2> QED
    BY <2>2, <2>3, <2>4 DEF SearchSoFar
<1>2. CASE PollPage
  <2>1. CASE ~MorePages
    BY <1>2, <2>1 DEF PollPage, SearchSoFar, IdlePoll
  <2>2. CASE MorePages
    <3>1. /\ poll'.pc = "fetch" /\ poll'.todo = poll.todo \cup Found
          /\ poll'.startAt = poll.startAt + PageSize /\ poll'.cutoff = poll.cutoff
          /\ poll'.shifted = poll.shifted /\ age' = age /\ dated' = dated
          /\ poll.pc = "fetch"
      BY <1>0, <1>2, <2>2 DEF PollPage, PollType
    <3>2. Stale' = Stale /\ Fresh' = Fresh /\ \A i : Rank(i)' = Rank(i)
      BY <3>1 DEF Stale, Fresh, Rank, Matching
    <3>3. ~poll.shifted => \A e \in Fresh \cap dated :
            Rank(IssueOf[e]) <= poll.startAt + PageSize => e \in poll.todo \cup Found
      BY <1>0, <1>2, PageBrings
    <3> QED
      BY <3>1, <3>2, <3>3 DEF SearchSoFar
  <2> QED
    BY <2>1, <2>2
<1>3. ASSUME NEW e \in Events, Transition(e) \/ LeaveWindow(e) PROVE SearchSoFar'
  <2>1. poll' = [poll EXCEPT !.shifted = poll.shifted \/ poll.pc = "fetch"]
    BY <1>3 DEF Transition, LeaveWindow, NoteShift
  <2>2. /\ poll'.pc = poll.pc /\ poll'.cutoff = poll.cutoff
        /\ poll.pc = "fetch" => poll'.shifted
    BY <1>0, <2>1 DEF PollType
  <2>3. Stale \subseteq Stale'
    BY <1>0, <1>3 DEF Stale, Transition, LeaveWindow, TypeOK
  <2> QED
    BY <2>2, <2>3 DEF SearchSoFar
<1>4. CASE /\ poll'.pc = poll.pc /\ poll'.cutoff = poll.cutoff /\ poll'.todo = poll.todo
         /\ poll'.startAt = poll.startAt /\ poll'.shifted = poll.shifted
         /\ age' = age /\ dated' = dated
  <2>1. Stale' = Stale /\ Fresh' = Fresh /\ \A i : Rank(i)' = Rank(i)
    BY <1>4 DEF Stale, Fresh, Rank, Matching
  <2> QED
    BY <1>4, <2>1 DEF SearchSoFar
<1>5. CASE poll'.pc # "fetch"
  BY <1>5 DEF SearchSoFar
<1>6. CASE PollStep
  <2>1. PollFails \/ PollEnds => poll'.pc # "fetch"
    BY DEF PollFails, PollEnds, IdlePoll
  <2>2. \A e : Publish(e) \/ PublishFails(e) => poll'.pc # "fetch"
    BY <1>0 DEF Publish, PublishFails, InHand, PollType
  <2>3. CASE Mark \/ MarkFails
    BY <1>0, <1>4, <2>3 DEF Mark, MarkFails, PollType
  <2> QED
    BY <1>1, <1>2, <1>5, <1>6, <2>1, <2>2, <2>3 DEF PollStep
<1>7. CASE DrainStep
  BY <1>4, <1>7 DEF DrainStep, DrainSelect, ExpireRow, ExpireLost, DeliverStart,
     SinkSucceeds, SinkFails, SinkAccepts, MarkDelivered, RecordFailure, RecordLost
<1>8. CASE Time
  <2>1. \A e : BackoffEnds(e) => poll' = poll /\ age' = age /\ dated' = dated
    BY DEF BackoffEnds
  <2> QED
    BY <1>3, <1>4, <1>8, <2>1 DEF Time
<1>9. CASE Crash
  BY <1>5, <1>9 DEF Crash, IdlePoll
<1>10. CASE UNCHANGED vars
  BY <1>4, <1>10 DEF vars
<1> QED
  BY <1>6, <1>7, <1>8, <1>9, <1>10 DEF Next

(* The only way from a search to publishing is the last page.              *)
LEMMA SearchEnds ==
  ASSUME Inv, SearchSoFar, [Next]_vars, poll.pc = "fetch", poll'.pc = "publish",
         ~poll.shifted
  PROVE  Fresh \cap dated \subseteq poll'.todo
<1>0. TypeOK /\ poll \in PollType
  BY DEF Inv, TypeOK, PollType
<1>1. PollPage
  <2>1. \A e \in Events : ~Transition(e) /\ ~LeaveWindow(e)
    BY <1>0 DEF Transition, LeaveWindow, NoteShift, PollType
  <2>2. poll' # poll /\ poll' # IdlePoll
    BY DEF IdlePoll
  <2>3. \A e : ~Publish(e) /\ ~PublishFails(e)
    BY DEF Publish, PublishFails, InHand
  <2>4. ~Mark /\ ~MarkFails /\ ~PollStart
    BY <1>0 DEF Mark, MarkFails, PollStart, PollType
  <2>5. ~PollFails /\ ~PollEnds /\ ~Crash
    BY <2>2 DEF PollFails, PollEnds, Crash
  <2>6. ~DrainStep
    BY <2>2 DEF DrainStep, DrainSelect, ExpireRow, ExpireLost, DeliverStart,
       SinkSucceeds, SinkFails, SinkAccepts, MarkDelivered, RecordFailure, RecordLost
  <2>7. ~Time /\ ~UNCHANGED vars
    BY <2>1, <2>2 DEF Time, BackoffEnds, vars
  <2> QED
    BY <2>3, <2>4, <2>5, <2>6, <2>7 DEF Next, PollStep
<1>2. ~MorePages
  BY <1>0, <1>1 DEF PollPage, PollType
<1> QED
  BY <1>0, <1>1, <1>2, LastPageBrings

(* A search during which no transition enters or leaves the window brings  *)
(* all that are in it and have a date that can be parsed, for every page   *)
(* size (runCycle, SearchTransitions).                                     *)
THEOREM SearchCompletes == Spec => SearchIsComplete
<1>1. Inv /\ SearchSoFar /\ [Next]_vars => SearchSoFar'
  BY SearchStep
<1>2. Inv /\ SearchSoFar /\ [Next]_vars =>
        [poll.pc = "fetch" /\ poll'.pc = "publish" /\ ~poll.shifted =>
           Fresh \cap dated \subseteq poll'.todo]_vars
  BY SearchEnds
<1> QED
  BY <1>1, <1>2, SearchInit, InvHolds, PTL DEF Spec, SearchIsComplete

-----------------------------------------------------------------------------
(* The refinement of PushDelivery.                                         *)

LEMMA InitRefines == Init => Promise!Init
BY DEF Init, Promise!Init, phase, PhaseOf, NoRow

(* One row changes its status: the phase of that transition changes.       *)
LEMMA PhaseChange ==
  ASSUME Inv, NEW e \in Events, NEW s, NEW a, RowChange(e, s, a)
  PROVE  phase' = [phase EXCEPT ![e] = PhaseOf[s]]
<1>1. \A f \in Events :
        phase'[f] = IF f = e THEN PhaseOf[s] ELSE phase[f]
  BY DEF RowChange, phase
<1> QED
  BY <1>1 DEF phase

LEMMA StepRefines == Inv /\ [Next]_vars => [Promise!Next]_(Promise!vars)
<1> SUFFICES ASSUME Inv, [Next]_vars
             PROVE  Promise!Next \/ UNCHANGED <<phase, copies>>
  BY DEF Promise!vars
<1>1. ASSUME UNCHANGED copies,
             \A e \in Events : row'[e].status = row[e].status
      PROVE  UNCHANGED <<phase, copies>>
  BY <1>1 DEF phase
<1>2. CASE UNCHANGED <<row, copies>>
  BY <1>1, <1>2
<1>3. ASSUME NEW e \in Events, NEW s \in {"pending", "dead"}, NEW a,
             RowChange(e, s, a), row[e].status = "pending", UNCHANGED copies
      PROVE  Promise!Next \/ UNCHANGED <<phase, copies>>
  <2>1. phase' = [phase EXCEPT ![e] = PhaseOf[s]]
    BY <1>3, PhaseChange
  <2>2. phase[e] = "queued"
    BY <1>3 DEF phase, PhaseOf
  <2>3. CASE s = "dead"
    BY <1>3, <2>1, <2>2, <2>3 DEF Promise!Drop, Promise!Next, PhaseOf
  <2>4. CASE s = "pending"
    BY <1>3, <2>1, <2>2, <2>4 DEF phase, PhaseOf
  <2> QED
    BY <2>3, <2>4
<1>4. ASSUME NEW e \in Events, Publish(e)
      PROVE  Promise!Next \/ UNCHANGED <<phase, copies>>
  <2>1. UNCHANGED copies
    BY <1>4 DEF Publish, hist
  <2>2. CASE row[e].status = "none"
    <3>1. \A f \in Events :
            row'[f].status = IF f = e THEN "pending" ELSE row[f].status
      BY <1>4, <2>2 DEF Publish, Inv, TypeOK, NoRow
    <3>2. \A f \in Events : phase'[f] = IF f = e THEN "queued" ELSE phase[f]
      BY <3>1 DEF phase, PhaseOf
    <3>3. phase' = [phase EXCEPT ![e] = "queued"]
      BY <3>2 DEF phase
    <3>4. phase[e] = "absent"
      BY <2>2 DEF phase, PhaseOf
    <3> QED
      <4>1. Promise!Submit(e)
        BY <2>1, <3>3, <3>4 DEF Promise!Submit
      <4> QED
        BY <4>1 DEF Promise!Next
  <2>3. CASE row[e].status # "none"
    BY <1>2, <1>4, <2>1, <2>3 DEF Publish
  <2> QED
    BY <2>2, <2>3
<1>5. ASSUME NEW e \in Events, SinkAccepts(e)
      PROVE  Promise!Next
  <2>1. row[e].status = "pending" /\ UNCHANGED row
        /\ copies' = [copies EXCEPT ![e] = copies[e] + 1]
    BY <1>5 DEF SinkAccepts, Inv, PassIsSound
  <2>2. phase[e] = "queued" /\ UNCHANGED phase
    BY <2>1 DEF phase, PhaseOf
  <2> QED
    BY <2>1, <2>2 DEF Promise!Deliver, Promise!Next
<1>6. ASSUME NEW e \in Events, MarkDelivered(e)
      PROVE  Promise!Next
  <2>1. /\ row[e].status = "pending" /\ e \in drain.got /\ UNCHANGED copies
    BY <1>6 DEF MarkDelivered, Inv, PassIsSound, hist
  <2>2. copies[e] > 0
    <3>1. copies[e] \in Nat /\ lost[e] \in Nat /\ copies[e] = lost[e] + 0 + 1
      BY <2>1 DEF Inv, TypeOK, CopiesAreAccountedFor
    <3> QED
      BY <3>1
  <2>3. RowChange(e, "delivered", row[e].attempts)
    BY <1>6, StatusChange DEF MarkDelivered
  <2>4. phase[e] = "queued" /\ phase' = [phase EXCEPT ![e] = "done"]
    BY <2>1, <2>3, PhaseChange DEF phase, PhaseOf
  <2> QED
    BY <2>1, <2>2, <2>4 DEF Promise!Complete, Promise!Next
<1>7. CASE PollStep
  <2>1. PollStart \/ PollPage \/ PollFails \/ Mark \/ MarkFails \/ PollEnds
        => UNCHANGED <<row, copies>>
    BY DEF PollStart, PollPage, PollFails, Mark, MarkFails, PollEnds, hist
  <2>2. \A e \in Events : PublishFails(e) => UNCHANGED <<row, copies>>
    BY DEF PublishFails, hist
  <2> QED
    BY <1>2, <1>4, <1>7, <2>1, <2>2, Members DEF PollStep
<1>8. CASE DrainStep
  <2>1. ASSUME NEW B, NEW old, DrainSelect(B, old)
        PROVE  UNCHANGED <<phase, copies>>
    BY <1>1, <2>1 DEF DrainSelect, Inv, TypeOK, Row, hist
  <2>2. DeliverStart \/ SinkSucceeds \/ SinkFails => UNCHANGED <<row, copies>>
    BY DEF DeliverStart, SinkSucceeds, SinkFails, hist
  <2>3. \A e \in Events :
          ExpireLost(e) \/ RecordLost(e) => UNCHANGED <<row, copies>>
    BY DEF ExpireLost, RecordLost, hist
  <2>4. ASSUME NEW e \in Events, ExpireRow(e) \/ RecordFailure(e)
        PROVE  Promise!Next \/ UNCHANGED <<phase, copies>>
    <3>1. row[e].status = "pending" /\ UNCHANGED copies
      BY <2>4 DEF ExpireRow, RecordFailure, Inv, PassIsSound, hist
    <3>2. row[e].attempts + 1 \in Nat
      BY DEF Inv, TypeOK, Row
    <3>3. \E s \in {"pending", "dead"}, a \in Nat : RowChange(e, s, a)
      <4>1. CASE row' = [row EXCEPT ![e] = [row[e] EXCEPT !.status = "dead"]]
        <5>1. RowChange(e, "dead", row[e].attempts) /\ row[e].attempts \in Nat
          BY <4>1, StatusChange DEF Inv, TypeOK, Row
        <5> QED
          BY <5>1
      <4>2. CASE row' = [row EXCEPT ![e] =
                   [row[e] EXCEPT !.attempts = row[e].attempts + 1, !.due = FALSE]]
        BY <3>1, <3>2, <4>2, RetryChange
      <4> QED
        BY <2>4, <4>1, <4>2 DEF ExpireRow, RecordFailure, MarkDead
    <3> QED
      BY <1>3, <3>1, <3>3
  <2> QED
    BY <1>2, <1>5, <1>6, <1>8, <2>1, <2>2, <2>3, <2>4, Members DEF DrainStep
<1>9. CASE Time
  <2>1. \A e \in Events : Transition(e) \/ LeaveWindow(e) => UNCHANGED <<row, copies>>
    BY DEF Transition, LeaveWindow, hist
  <2>2. ASSUME NEW e \in Events, BackoffEnds(e)
        PROVE  UNCHANGED <<phase, copies>>
    BY <1>1, <2>2 DEF BackoffEnds, Inv, TypeOK, Row, hist
  <2> QED
    BY <1>2, <1>9, <2>1, <2>2 DEF Time
<1>10. CASE Crash
  BY <1>2, <1>10 DEF Crash
<1>11. CASE UNCHANGED vars
  BY <1>2, <1>11 DEF vars, hist
<1> QED
  BY <1>7, <1>8, <1>9, <1>10, <1>11 DEF Next

(* The outbox keeps its promise: it implements PushDelivery.               *)
THEOREM Refinement == Spec => KeepsPromise
BY InitRefines, StepRefines, InvHolds, PTL
   DEF Spec, KeepsPromise, Promise!Spec
=============================================================================
