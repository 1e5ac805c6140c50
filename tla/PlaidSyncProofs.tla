--------------------------- MODULE PlaidSyncProofs ---------------------------
(***************************************************************************)
(* Proofs about PlaidSync: its types, that nothing up to a stored cursor   *)
(* is missing from the table, that a removed row stays removed, that an    *)
(* item leaves the schedule for a reason, and that the table and the       *)
(* cursor together are a LedgerCopy of Plaid's log.                        *)
(*                                                                         *)
(* The table only grows: a row that is there stays, a removed one stays    *)
(* removed, and Plaid's log is only appended to.  So what a sync wrote     *)
(* stays written whatever the others do, and it is enough to follow one    *)
(* sync: all before its local cursor is stored, and of its page all that   *)
(* is not still to do.                                                     *)
(***************************************************************************)
EXTENDS PlaidSync, TLAPS

StoredTo(i, c) == c <= Len(feed[i]) /\ \A k \in 1 .. c : Applied(i, k)

SyncOK(x) ==
  /\ x.at \in {"fetching", "writing", "committing"} => StoredTo(x.item, x.cur)
  /\ x.at = "writing" =>
       /\ x.upto <= Len(feed[x.item])
       /\ \A k \in x.cur + 1 .. x.upto : k \in x.todo \/ Applied(x.item, k)
       /\ \A k \in x.todo : k \in x.cur + 1 .. x.upto

(* A removal comes after the addition. *)
FeedOK ==
  \A i \in Items : \A k \in 1 .. Len(feed[i]) :
    feed[i][k].kind = "removed" =>
      \E j \in 1 .. k - 1 : feed[i][j].kind = "added" /\ feed[i][j].txn = feed[i][k].txn

(* A count, saturated as the history of failures is. *)
Counted(n, i) == n <= fails[i] \/ fails[i] = MaxRetries

EarnedOK(x) ==
  /\ x.at \in {"counting", "givingUp"} => Counted(x.seen + 1, x.item)
  /\ x.at = "failing" /\ x.class = "vendor_auth_required" => x.item \in refused

Inv ==
  /\ TypeOK
  /\ FeedOK
  /\ \A i \in Items : StoredTo(i, cursor[i])
  /\ \A r \in Runs : SyncOK(run[r])
  /\ StatusIsEarned
  /\ \A i \in Items : Counted(retries[i], i)
  /\ \A r \in Runs : EarnedOK(run[r])

-----------------------------------------------------------------------------
(* Types *)

LEMMA IdleType == ASSUME NEW i \in Items PROVE Idle(i) \in RunType
BY PlaidAssumption DEF Idle, RunType, Places, Classes, Position

LEMMA InitType == Init => TypeOK
<1>. SUFFICES ASSUME Init PROVE TypeOK
  OBVIOUS
<1>1. run \in [Runs -> RunType]
  <2>1. {Idle(i) : i \in Items} \subseteq RunType
    BY IdleType
  <2>2. QED
    BY <2>1 DEF Init
<1>2. ASSUME NEW i \in Items PROVE Len(feed[i]) <= MaxFeed
  <2>1. feed[i] = <<>>
    BY DEF Init
  <2>2. Len(feed[i]) = 0
    BY <2>1
  <2>3. QED
    BY <2>2, PlaidAssumption
<1>3. feed \in [Items -> Seq(Updates)]
  BY DEF Init
<1>4. rows \in [Items -> [Txns -> {"none", "live", "removed"}]]
  BY DEF Init
<1>5. /\ status \in [Items -> {"none", "active", "login_required", "error"}]
      /\ cursor \in [Items -> Position]
      /\ retries \in [Items -> Nat]
      /\ limited \in [Items -> BOOLEAN]
      /\ fails \in [Items -> 0 .. MaxRetries]
      /\ refused \subseteq Items
      /\ faults \in 0 .. MaxFaults
  BY PlaidAssumption DEF Init, Position
<1>6. QED
  BY <1>1, <1>2, <1>3, <1>4, <1>5 DEF TypeOK

(* The records a sync becomes are of their type. *)
LEMMA RunTypes ==
  ASSUME TypeOK, NEW r \in Runs
  PROVE  /\ Idle(run[r].item) \in RunType
         /\ \A c \in Classes : Failed(r, c) \in RunType
         /\ Drained(r) \in RunType
         /\ NextPage(r) \in RunType
<1>1. run[r] \in RunType
  BY DEF TypeOK
<1>2. run[r].item \in Items /\ run[r].upto \in Position /\ run[r].pages \in Nat
  BY <1>1 DEF RunType
<1>3. Idle(run[r].item) \in RunType
  BY <1>2, IdleType
<1>4. ASSUME NEW c \in Classes PROVE Failed(r, c) \in RunType
  BY <1>2, <1>3 DEF Failed, RunType, Places, Idle
<1>5. Drained(r) \in RunType
  BY <1>2, <1>3 DEF Drained, RunType, Places, Idle
<1>6. NextPage(r) \in RunType
  BY <1>2, <1>3 DEF NextPage, RunType, Places, Idle
<1>7. QED
  BY <1>3, <1>4, <1>5, <1>6

LEMMA WrittenType ==
  ASSUME NEW u \in Updates, NEW row \in {"none", "live", "removed"}
  PROVE  /\ Written(row, u) \in {"none", "live", "removed"}
         /\ row # "none" => Written(row, u) # "none"
         /\ row = "removed" => Written(row, u) = "removed"
         /\ u.kind # "removed" => Written(row, u) # "none"
         /\ u.kind = "removed" /\ row # "none" => Written(row, u) = "removed"
BY DEF Written, Updates

(* An update that is still to be written is in Plaid's log. *)
LEMMA TodoInLog ==
  ASSUME Inv, NEW r \in Runs, NEW k, NextWrite(r, k)
  PROVE  /\ run[r] \in RunType /\ run[r].item \in Items
         /\ k \in 1 .. Len(feed[run[r].item])
         /\ k \in run[r].cur + 1 .. run[r].upto
         /\ feed[run[r].item][k] \in Updates
         /\ feed[run[r].item][k].txn \in Txns
<1>1. run[r] \in RunType
  BY DEF Inv, TypeOK
<1>2. run[r].item \in Items /\ run[r].cur \in Nat /\ run[r].upto \in Nat
  BY <1>1, PlaidAssumption DEF RunType, Position
<1>3. feed[run[r].item] \in Seq(Updates)
  BY <1>2 DEF Inv, TypeOK
<1>4. SyncOK(run[r]) /\ run[r].at = "writing" /\ k \in run[r].todo
  BY DEF Inv, NextWrite
<1>5. run[r].upto <= Len(feed[run[r].item]) /\ k \in run[r].cur + 1 .. run[r].upto
  BY <1>4 DEF SyncOK
<1>6. k \in 1 .. Len(feed[run[r].item])
  BY <1>2, <1>3, <1>5
<1>7. feed[run[r].item][k] \in Updates
  BY <1>3, <1>6
<1>8. QED
  BY <1>1, <1>2, <1>5, <1>6, <1>7 DEF Updates

(* What a step of a sync makes of its record. *)
LEMMA StepTypes ==
  ASSUME Inv, NEW r \in Runs, Work(r) \/ Trouble(r)
  PROVE  \E x \in RunType : run' = [run EXCEPT ![r] = x]
<1>1. run[r] \in RunType /\ run \in [Runs -> RunType] /\ TypeOK
  BY DEF Inv, TypeOK
<1>2. run[r].item \in Items /\ cursor[run[r].item] \in Position
      /\ retries[run[r].item] \in Nat /\ limited[run[r].item] \in BOOLEAN
  BY <1>1 DEF RunType, TypeOK
<1>3. /\ Idle(run[r].item) \in RunType
      /\ \A c \in Classes : Failed(r, c) \in RunType
      /\ Drained(r) \in RunType
      /\ NextPage(r) \in RunType
  BY <1>1, RunTypes
<1>4. CASE Admit(r)
  <2>. DEFINE x == [run[r] EXCEPT !.at = IF limited[run[r].item] THEN "idle" ELSE "starting"]
  <2>1. x \in RunType
    BY <1>1 DEF RunType, Places
  <2>2. run' = [run EXCEPT ![r] = x]
    BY <1>1, <1>4 DEF Admit
  <2>3. QED
    BY <2>1, <2>2
<1>5. CASE Begin(r)
  <2>. DEFINE x == [run[r] EXCEPT !.at = "fetching", !.cur = cursor[run[r].item]]
  <2>1. x \in RunType
    BY <1>1, <1>2 DEF RunType, Places
  <2>2. run' = [run EXCEPT ![r] = x]
    BY <1>1, <1>5 DEF Begin
  <2>3. QED
    BY <2>1, <2>2
<1>6. CASE \E upto \in Position : Fetch(r, upto)
  <2>1. PICK upto \in Position : Fetch(r, upto)
    BY <1>6
  <2>. DEFINE x == [run[r] EXCEPT
                  !.at = "writing", !.upto = upto, !.todo = (run[r].cur + 1) .. upto,
                  !.more = upto < Len(feed[run[r].item]), !.pages = run[r].pages + 1]
  <2>2. run[r].cur \in Nat /\ upto \in 0 .. MaxFeed /\ MaxFeed \in Nat
    BY <1>1, PlaidAssumption DEF RunType, Position
  <2>3. (run[r].cur + 1) .. upto \in SUBSET Position
    BY <2>2 DEF Position
  <2>4. (upto < Len(feed[run[r].item])) \in BOOLEAN
    OBVIOUS
  <2>5. run[r].pages + 1 \in Nat
    BY <1>1 DEF RunType
  <2>6. x \in RunType
    BY <1>1, <2>3, <2>4, <2>5 DEF RunType, Places
  <2>7. run' = [run EXCEPT ![r] = x]
    BY <2>1 DEF Fetch
  <2>8. QED
    BY <2>6, <2>7
<1>7. CASE \E k \in Position : Write(r, k)
  <2>1. PICK k \in Position : Write(r, k)
    BY <1>7
  <2>. DEFINE x == [run[r] EXCEPT !.todo = run[r].todo \ {k}]
  <2>2. x \in RunType
    BY <1>1 DEF RunType
  <2>3. run' = [run EXCEPT ![r] = x]
    BY <1>1, <2>1 DEF Write
  <2>4. QED
    BY <2>2, <2>3
<1>8. CASE PageDone(r)
  <2>1. "counted" \in Classes
    BY DEF Classes
  <2>2. QED
    BY <1>3, <1>8, <2>1 DEF PageDone
<1>9. CASE Commit(r) \/ HandleAuth(r) \/ RecordGiveUp(r) \/ CommitFails(r) \/ OutcomeLost(r)
  BY <1>3, <1>9 DEF Commit, HandleAuth, RecordGiveUp, CommitFails, OutcomeLost
<1>10. CASE Count(r) \/ CountLost(r)
  BY <1>3, <1>10 DEF Count, CountLost
<1>11. CASE ReadRetries(r)
  <2>. DEFINE x == [run[r] EXCEPT !.at = "counting", !.seen = retries[run[r].item]]
  <2>1. x \in RunType
    BY <1>1, <1>2 DEF RunType, Places
  <2>2. run' = [run EXCEPT ![r] = x]
    BY <1>1, <1>11 DEF ReadRetries
  <2>3. QED
    BY <2>1, <2>2
<1>12. CASE GiveUp(r) \/ GiveUpLost(r)
  <2>. DEFINE x == [run[r] EXCEPT !.at = "givingUp"]
  <2>1. x \in RunType
    BY <1>1 DEF RunType, Places
  <2>2. run' = [run EXCEPT ![r] = x]
    BY <1>1, <1>12 DEF GiveUp, GiveUpLost
  <2>3. QED
    BY <2>1, <2>2
<1>13. CASE \E c \in Classes : NoToken(r, c)
  BY <1>3, <1>13 DEF NoToken
<1>14. CASE \E c \in Classes : FetchFails(r, c)
  BY <1>3, <1>14 DEF FetchFails
<1>15. CASE \E k \in Position : WriteFails(r, k)
  BY <1>3, <1>15 DEF WriteFails, Classes
<1>16. CASE BeginAnew(r)
  <2>. DEFINE x == [run[r] EXCEPT !.at = "fetching", !.cur = 0]
  <2>1. 0 \in Position
    BY PlaidAssumption DEF Position
  <2>2. x \in RunType
    BY <1>1, <2>1 DEF RunType, Places
  <2>3. run' = [run EXCEPT ![r] = x]
    BY <1>1, <1>16 DEF BeginAnew
  <2>4. QED
    BY <2>2, <2>3
<1>17. CASE RetriesUnread(r)
  <2>. DEFINE x == [run[r] EXCEPT !.at = "counting", !.seen = 0]
  <2>1. x \in RunType
    BY <1>1 DEF RunType, Places
  <2>2. run' = [run EXCEPT ![r] = x]
    BY <1>1, <1>17 DEF RetriesUnread
  <2>3. QED
    BY <2>1, <2>2
<1>18. QED
  BY <1>4, <1>5, <1>6, <1>7, <1>8, <1>9, <1>10, <1>11, <1>12, <1>13, <1>14,
     <1>15, <1>16, <1>17 DEF Work, Trouble

(* What a step of a sync makes of the tables. *)
LEMMA StepTables ==
  ASSUME Inv, NEW r \in Runs, Work(r) \/ Trouble(r)
  PROVE  /\ feed' = feed
         /\ status' \in [Items -> {"none", "active", "login_required", "error"}]
         /\ cursor' \in [Items -> Position]
         /\ retries' \in [Items -> Nat]
         /\ limited' \in [Items -> BOOLEAN]
         /\ rows' \in [Items -> [Txns -> {"none", "live", "removed"}]]
         /\ fails' \in [Items -> 0 .. MaxRetries]
         /\ refused' \subseteq Items
         /\ faults' \in 0 .. MaxFaults
<1>1. run[r] \in RunType /\ TypeOK
  BY DEF Inv, TypeOK
<1>2. run[r].item \in Items /\ run[r].cur \in Position /\ run[r].seen \in Nat
  BY <1>1 DEF RunType
<1>3. CASE Admit(r) \/ Begin(r) \/ PageDone(r)
  BY <1>1, <1>3 DEF TypeOK, Admit, Begin, PageDone, db
<1>4. CASE \E upto \in Position : Fetch(r, upto)
  BY <1>1, <1>4 DEF TypeOK, Fetch, db
<1>5. CASE \E k \in Position : Write(r, k)
  <2>1. PICK k \in Position : Write(r, k)
    BY <1>5
  <2>. DEFINE i == run[r].item
              u == feed[i][k]
  <2>2. u \in Updates /\ u.txn \in Txns
    BY <2>1, TodoInLog DEF Write
  <2>3. rows[i][u.txn] \in {"none", "live", "removed"}
    BY <1>1, <1>2, <2>2 DEF TypeOK
  <2>4. Written(rows[i][u.txn], u) \in {"none", "live", "removed"}
    BY <2>2, <2>3, WrittenType
  <2>5. rows' = [rows EXCEPT ![i][u.txn] = Written(rows[i][u.txn], u)]
    BY <2>1 DEF Write
  <2>6. rows' \in [Items -> [Txns -> {"none", "live", "removed"}]]
    BY <1>1, <1>2, <2>2, <2>4, <2>5 DEF TypeOK
  <2>7. QED
    BY <1>1, <2>1, <2>6 DEF TypeOK, Write
<1>6. CASE Commit(r)
  BY <1>1, <1>2, <1>6 DEF TypeOK, Commit
<1>7. CASE HandleAuth(r)
  BY <1>1, <1>2, <1>7 DEF TypeOK, HandleAuth
<1>8. CASE ReadRetries(r)
  BY <1>1, <1>2, <1>8, PlaidAssumption, SMTT(60) DEF TypeOK, ReadRetries, db, AtMost
<1>9. CASE Count(r)
  BY <1>1, <1>2, <1>9 DEF TypeOK, Count
<1>10. CASE GiveUp(r)
  BY <1>1, <1>2, <1>10 DEF TypeOK, GiveUp
<1>11. CASE RecordGiveUp(r)
  BY <1>1, <1>2, <1>11 DEF TypeOK, RecordGiveUp
<1>12. CASE \E c \in Classes : NoToken(r, c)
  BY <1>1, <1>2, <1>12 DEF TypeOK, NoToken, db
<1>13. CASE \E c \in Classes : FetchFails(r, c)
  BY <1>1, <1>2, <1>13 DEF TypeOK, FetchFails
<1>14. CASE \E k \in Position : WriteFails(r, k)
  BY <1>1, <1>14 DEF TypeOK, WriteFails, db
<1>15. CASE BeginAnew(r) \/ CommitFails(r) \/ GiveUpLost(r) \/ OutcomeLost(r)
  BY <1>1, <1>15, PlaidAssumption
     DEF TypeOK, BeginAnew, CommitFails, GiveUpLost, OutcomeLost, Fault, db
<1>16. CASE RetriesUnread(r)
  BY <1>1, <1>2, <1>16, PlaidAssumption, SMTT(60)
     DEF TypeOK, RetriesUnread, Fault, db, AtMost
<1>17. CASE CountLost(r)
  BY <1>1, <1>2, <1>17, PlaidAssumption DEF TypeOK, CountLost, Fault
<1>18. QED
  BY <1>3, <1>4, <1>5, <1>6, <1>7, <1>8, <1>9, <1>10, <1>11, <1>12, <1>13,
     <1>14, <1>15, <1>16, <1>17 DEF Work, Trouble

LEMMA TypeStep == Inv /\ [Next]_vars => TypeOK'
<1>. SUFFICES ASSUME Inv, [Next]_vars PROVE TypeOK'
  OBVIOUS
<1>. TypeOK
  BY DEF Inv
<1>1. ASSUME NEW i \in Items, Link(i) PROVE TypeOK'
  BY <1>1 DEF TypeOK, Link
<1>2. ASSUME NEW i \in Items, ResetPasses(i) PROVE TypeOK'
  BY <1>2 DEF TypeOK, ResetPasses
<1>3. ASSUME NEW i \in Items, NEW u \in Updates, Report(i, u) PROVE TypeOK'
  <2>1. feed[i] \in Seq(Updates) /\ Len(feed[i]) < MaxFeed
    BY <1>3 DEF TypeOK, Report
  <2>2. /\ Append(feed[i], u) \in Seq(Updates)
        /\ Len(Append(feed[i], u)) = Len(feed[i]) + 1
    BY <2>1
  <2>3. feed' = [feed EXCEPT ![i] = Append(feed[i], u)]
    BY <1>3 DEF Report
  <2>4. feed' \in [Items -> Seq(Updates)]
    BY <2>2, <2>3 DEF TypeOK
  <2>5. ASSUME NEW j \in Items PROVE Len(feed'[j]) <= MaxFeed
    <3>1. CASE j = i
      <4>1. feed'[j] = Append(feed[i], u)
        BY <2>3, <3>1 DEF TypeOK
      <4>2. Len(feed[i]) \in Nat
        BY <2>1
      <4>3. QED
        BY <2>1, <2>2, <4>1, <4>2, PlaidAssumption
    <3>2. CASE j # i
      BY <2>3, <3>2 DEF TypeOK
    <3>3. QED
      BY <3>1, <3>2
  <2>6. UNCHANGED <<db, run, fails, refused, faults>>
    BY <1>3 DEF Report
  <2>7. QED
    BY <2>4, <2>5, <2>6 DEF TypeOK, db
<1>4. ASSUME NEW r \in Runs, NEW i \in Items, List(r, i) PROVE TypeOK'
  <2>1. Idle(i) \in RunType
    BY IdleType
  <2>2. [Idle(i) EXCEPT !.at = "listed"] \in RunType
    BY <2>1 DEF RunType, Places
  <2>3. run' = [run EXCEPT ![r] = [Idle(i) EXCEPT !.at = "listed"]]
        /\ UNCHANGED <<feed, db, fails, refused, faults>>
    BY <1>4 DEF List
  <2>4. QED
    BY <2>2, <2>3 DEF TypeOK, db
<1>5. ASSUME NEW r \in Runs, Work(r) \/ Trouble(r) PROVE TypeOK'
  <2>1. PICK x \in RunType : run' = [run EXCEPT ![r] = x]
    BY <1>5, StepTypes
  <2>2. run' \in [Runs -> RunType]
    BY <2>1 DEF TypeOK
  <2>3. QED
    BY <1>5, <2>2, StepTables DEF TypeOK
<1>6. CASE Crash
  <2>1. \A r \in Runs : Idle(run[r].item) \in RunType
    BY RunTypes
  <2>2. run' \in [Runs -> RunType]
    BY <1>6, <2>1 DEF Crash
  <2>3. QED
    BY <1>6, <2>2, PlaidAssumption DEF TypeOK, Crash, Fault, db
<1>7. CASE UNCHANGED vars
  BY <1>7 DEF TypeOK, vars
<1>8. QED
  BY <1>1, <1>2, <1>3, <1>4, <1>5, <1>6, <1>7 DEF Next

-----------------------------------------------------------------------------
(* What is stored *)

Grows ==
  /\ \A i \in Items : /\ Len(feed[i]) <= Len(feed'[i])
                      /\ \A k \in 1 .. Len(feed[i]) : feed'[i][k] = feed[i][k]
  /\ \A i \in Items, t \in Txns :
       /\ rows[i][t] # "none" => rows'[i][t] # "none"
       /\ rows[i][t] = "removed" => rows'[i][t] = "removed"

LEMMA SameGrows ==
  ASSUME Inv, feed' = feed, rows' = rows PROVE Grows
<1>1. ASSUME NEW i \in Items PROVE Len(feed[i]) \in Nat
  BY DEF Inv, TypeOK
<1>2. QED
  BY <1>1 DEF Grows

LEMMA WriteGrows ==
  ASSUME Inv, NEW r \in Runs, NEW k, Write(r, k) PROVE Grows
<1>. DEFINE i == run[r].item
            u == feed[i][k]
<1>1. u \in Updates /\ u.txn \in Txns /\ i \in Items
  BY TodoInLog DEF Write
<1>2. rows[i][u.txn] \in {"none", "live", "removed"}
  BY <1>1 DEF Inv, TypeOK
<1>3. rows' = [rows EXCEPT ![i][u.txn] = Written(rows[i][u.txn], u)] /\ feed' = feed
  BY DEF Write
<1>4. /\ rows[i][u.txn] # "none" => Written(rows[i][u.txn], u) # "none"
      /\ rows[i][u.txn] = "removed" => Written(rows[i][u.txn], u) = "removed"
  BY <1>1, <1>2, WrittenType
<1>5. rows \in [Items -> [Txns -> {"none", "live", "removed"}]]
  BY DEF Inv, TypeOK
<1>6. ASSUME NEW j \in Items, NEW t \in Txns
      PROVE  /\ rows[j][t] # "none" => rows'[j][t] # "none"
             /\ rows[j][t] = "removed" => rows'[j][t] = "removed"
  <2>1. CASE j = i /\ t = u.txn
    <3>1. rows'[j][t] = Written(rows[i][u.txn], u)
      BY <1>1, <1>3, <1>5, <2>1
    <3>2. QED
      BY <1>4, <2>1, <3>1
  <2>2. CASE ~ (j = i /\ t = u.txn)
    <3>1. rows'[j][t] = rows[j][t]
      BY <1>1, <1>3, <1>5, <2>2
    <3>2. QED
      BY <3>1
  <2>3. QED
    BY <2>1, <2>2
<1>7. ASSUME NEW j \in Items PROVE Len(feed[j]) \in Nat
  BY DEF Inv, TypeOK
<1>8. QED
  <2>1. \A j \in Items : /\ Len(feed[j]) <= Len(feed'[j])
                         /\ \A n \in 1 .. Len(feed[j]) : feed'[j][n] = feed[j][n]
    BY <1>3, <1>7
  <2>. HIDE DEF i, u
  <2>2. QED
    BY <1>6, <2>1 DEF Grows

LEMMA ReportGrows ==
  ASSUME Inv, NEW i \in Items, NEW u \in Updates, Report(i, u)
  PROVE  /\ Grows
         /\ feed' = [feed EXCEPT ![i] = Append(feed[i], u)]
         /\ Len(feed'[i]) = Len(feed[i]) + 1
         /\ feed'[i][Len(feed[i]) + 1] = u
<1>1. feed[i] \in Seq(Updates) /\ feed \in [Items -> Seq(Updates)]
  BY DEF Inv, TypeOK
<1>2. feed' = [feed EXCEPT ![i] = Append(feed[i], u)] /\ rows' = rows
  BY DEF Report, db
<1>3. feed'[i] = Append(feed[i], u)
  BY <1>1, <1>2
<1>4. /\ Len(Append(feed[i], u)) = Len(feed[i]) + 1
      /\ \A k \in 1 .. Len(feed[i]) : Append(feed[i], u)[k] = feed[i][k]
      /\ Append(feed[i], u)[Len(feed[i]) + 1] = u
      /\ Len(feed[i]) \in Nat
  BY <1>1
<1>5. ASSUME NEW j \in Items
      PROVE  /\ Len(feed[j]) <= Len(feed'[j])
             /\ \A k \in 1 .. Len(feed[j]) : feed'[j][k] = feed[j][k]
  <2>1. CASE j = i
    BY <1>3, <1>4, <2>1
  <2>2. CASE j # i
    <3>1. feed'[j] = feed[j] /\ Len(feed[j]) \in Nat
      BY <1>1, <1>2, <2>2
    <3>2. QED
      BY <3>1
  <2>3. QED
    BY <2>1, <2>2
<1>6. QED
  BY <1>2, <1>3, <1>4, <1>5 DEF Grows

LEMMA StepGrows == Inv /\ [Next]_vars => Grows
<1>. SUFFICES ASSUME Inv, [Next]_vars PROVE Grows
  OBVIOUS
<1>1. CASE \E i \in Items, u \in Updates : Report(i, u)
  BY <1>1, ReportGrows
<1>2. CASE \E r \in Runs : \E k \in Position : Write(r, k)
  BY <1>2, WriteGrows
<1>3. CASE feed' = feed /\ rows' = rows
  BY <1>3, SameGrows
<1>4. ASSUME NEW r \in Runs, Work(r) \/ Trouble(r),
             ~ \E k \in Position : Write(r, k)
      PROVE  feed' = feed /\ rows' = rows
  BY <1>4 DEF Work, Trouble, Admit, Begin, Fetch, PageDone, Commit, HandleAuth,
     ReadRetries, Count, GiveUp, RecordGiveUp, NoToken, FetchFails, WriteFails,
     BeginAnew, CommitFails, RetriesUnread, CountLost, GiveUpLost, OutcomeLost, db
<1>5. CASE \E i \in Items : Link(i) \/ ResetPasses(i)
  BY <1>3, <1>5 DEF Link, ResetPasses
<1>6. CASE (\E r \in Runs, i \in Items : List(r, i)) \/ Crash \/ UNCHANGED vars
  BY <1>3, <1>6 DEF List, Crash, vars, db
<1>7. QED
  BY <1>1, <1>2, <1>3, <1>4, <1>5, <1>6 DEF Next

LEMMA AppliedStays ==
  ASSUME Inv, Grows, NEW i \in Items, NEW k \in 1 .. Len(feed[i]), Applied(i, k)
  PROVE  Applied(i, k)'
<1>1. feed[i] \in Seq(Updates)
  BY DEF Inv, TypeOK
<1>2. feed[i][k] \in Updates
  BY <1>1
<1>3. feed[i][k].txn \in Txns /\ feed'[i][k] = feed[i][k]
  BY <1>2 DEF Updates, Grows
<1>4. QED
  BY <1>3 DEF Applied, Grows

LEMMA StoredStays ==
  ASSUME Inv, TypeOK', Grows, NEW i \in Items, NEW c \in Nat, StoredTo(i, c)
  PROVE  StoredTo(i, c)'
<1>1. Len(feed[i]) \in Nat /\ Len(feed'[i]) \in Nat
  BY DEF Inv, TypeOK
<1>2. c <= Len(feed[i]) /\ Len(feed[i]) <= Len(feed'[i])
  BY DEF StoredTo, Grows
<1>3. c <= Len(feed'[i])
  BY <1>1, <1>2
<1>4. ASSUME NEW k \in 1 .. c PROVE Applied(i, k)'
  <2>1. k \in 1 .. Len(feed[i]) /\ Applied(i, k)
    BY <1>1, <1>2 DEF StoredTo
  <2>2. QED
    BY <2>1, AppliedStays
<1>5. QED
  BY <1>3, <1>4 DEF StoredTo

LEMMA SyncStays ==
  ASSUME Inv, Grows, NEW x \in RunType, SyncOK(x), TypeOK'
  PROVE  SyncOK(x)'
<1>1. x.item \in Items /\ x.cur \in Nat /\ x.upto \in Nat
  BY PlaidAssumption DEF RunType, Position
<1>2. Len(feed[x.item]) \in Nat /\ Len(feed'[x.item]) \in Nat
  BY <1>1 DEF Inv, TypeOK
<1>3. Len(feed[x.item]) <= Len(feed'[x.item])
  BY <1>1 DEF Grows
<1>4. x.at \in {"fetching", "writing", "committing"} => StoredTo(x.item, x.cur)'
  BY <1>1, StoredStays DEF SyncOK
<1>5. ASSUME x.at = "writing"
      PROVE  /\ x.upto <= Len(feed'[x.item])
             /\ \A k \in x.cur + 1 .. x.upto : k \in x.todo \/ Applied(x.item, k)'
             /\ \A k \in x.todo : k \in x.cur + 1 .. x.upto
  <2>1. /\ x.upto <= Len(feed[x.item])
        /\ \A k \in x.cur + 1 .. x.upto : k \in x.todo \/ Applied(x.item, k)
        /\ \A k \in x.todo : k \in x.cur + 1 .. x.upto
    BY <1>5 DEF SyncOK
  <2>2. ASSUME NEW k \in x.cur + 1 .. x.upto, k \notin x.todo
        PROVE  Applied(x.item, k)'
    <3>1. Applied(x.item, k) /\ k \in 1 .. Len(feed[x.item])
      BY <1>1, <1>2, <2>1, <2>2
    <3>2. QED
      BY <1>1, <3>1, AppliedStays
  <2>3. QED
    BY <1>1, <1>2, <1>3, <2>1, <2>2
<1>6. QED
  BY <1>4, <1>5 DEF SyncOK

(* The log keeps its order: a removal is reported after the addition. *)
LEMMA FeedStep == Inv /\ [Next]_vars => FeedOK'
<1>. SUFFICES ASSUME Inv, [Next]_vars PROVE FeedOK'
  OBVIOUS
<1>0. FeedOK /\ feed \in [Items -> Seq(Updates)]
  BY DEF Inv, TypeOK
<1>1. CASE feed' = feed
  BY <1>0, <1>1 DEF FeedOK
<1>2. ASSUME NEW i \in Items, NEW u \in Updates, Report(i, u) PROVE FeedOK'
  <2>1. /\ Len(feed'[i]) = Len(feed[i]) + 1
        /\ feed'[i][Len(feed[i]) + 1] = u
        /\ feed' = [feed EXCEPT ![i] = Append(feed[i], u)]
        /\ \A k \in 1 .. Len(feed[i]) : feed'[i][k] = feed[i][k]
    BY <1>2, ReportGrows DEF Grows
  <2>2. Len(feed[i]) \in Nat
    BY <1>0
  <2>3. ASSUME NEW j \in Items, NEW k \in 1 .. Len(feed'[j]),
               feed'[j][k].kind = "removed"
        PROVE  \E a \in 1 .. k - 1 : /\ feed'[j][a].kind = "added"
                                     /\ feed'[j][a].txn = feed'[j][k].txn
    <3>1. CASE j # i
      <4>1. feed'[j] = feed[j]
        BY <1>0, <2>1, <3>1
      <4>2. QED
        BY <1>0, <2>3, <4>1 DEF FeedOK
    <3>2. CASE j = i /\ k <= Len(feed[i])
      <4>1. k \in 1 .. Len(feed[i]) /\ feed'[i][k] = feed[i][k]
        BY <2>1, <2>2, <3>2
      <4>2. PICK a \in 1 .. k - 1 : /\ feed[i][a].kind = "added"
                                    /\ feed[i][a].txn = feed[i][k].txn
        BY <1>0, <2>3, <3>2, <4>1 DEF FeedOK
      <4>3. a \in 1 .. Len(feed[i])
        BY <2>2, <4>1, <4>2
      <4>4. feed'[i][a] = feed[i][a]
        BY <2>1, <4>3
      <4>5. QED
        BY <3>2, <4>1, <4>2, <4>4
    <3>3. CASE j = i /\ k = Len(feed[i]) + 1
      <4>1. feed'[i][k] = u /\ u.kind = "removed"
        BY <2>1, <2>3, <3>3
      <4>2. Reported(i, u.txn, {"added"})
        BY <1>2, <4>1 DEF Report, Live
      <4>3. PICK a \in 1 .. Len(feed[i]) : /\ feed[i][a].txn = u.txn
                                           /\ feed[i][a].kind = "added"
        BY <4>2 DEF Reported
      <4>4. feed'[i][a] = feed[i][a] /\ a \in 1 .. k - 1
        BY <2>1, <2>2, <3>3, <4>3
      <4>5. QED
        BY <3>3, <4>1, <4>3, <4>4
    <3>4. QED
      BY <2>1, <2>2, <3>1, <3>2, <3>3
  <2>4. QED
    BY <2>3 DEF FeedOK
<1>3. ASSUME NEW r \in Runs, Work(r) \/ Trouble(r) PROVE feed' = feed
  BY <1>3, StepTables
<1>4. CASE \E i \in Items : Link(i) \/ ResetPasses(i)
  BY <1>1, <1>4 DEF Link, ResetPasses
<1>5. CASE (\E r \in Runs, i \in Items : List(r, i)) \/ Crash \/ UNCHANGED vars
  BY <1>1, <1>5 DEF List, Crash, vars
<1>6. QED
  BY <1>1, <1>2, <1>3, <1>4, <1>5 DEF Next

(* An update that is written is applied: a removal finds the row, because   *)
(* the addition is on an earlier page or earlier in the order of this one.  *)
LEMMA WriteApplies ==
  ASSUME Inv, NEW r \in Runs, NEW k, Write(r, k), NEW i, i = run[r].item
  PROVE  Applied(i, k)'
<1>. DEFINE u == feed[i][k]
<1>1. /\ run[r] \in RunType /\ i \in Items
      /\ k \in 1 .. Len(feed[i]) /\ k \in run[r].cur + 1 .. run[r].upto
      /\ u \in Updates /\ u.txn \in Txns
  BY TodoInLog DEF Write
<1>2. run[r].cur \in Nat /\ run[r].upto \in Nat
  BY <1>1, PlaidAssumption DEF RunType, Position
<1>3. /\ SyncOK(run[r]) /\ run[r].at = "writing"
      /\ \A j \in run[r].todo : ~ Precedes(i, j, k)
  BY DEF Inv, Write, NextWrite
<1>4. rows \in [Items -> [Txns -> {"none", "live", "removed"}]]
  BY DEF Inv, TypeOK
<1>5. feed' = feed /\ rows' = [rows EXCEPT ![i][u.txn] = Written(rows[i][u.txn], u)]
  BY DEF Write
<1>6. rows'[i][u.txn] = Written(rows[i][u.txn], u)
  BY <1>1, <1>4, <1>5
<1>7. rows[i][u.txn] \in {"none", "live", "removed"}
  BY <1>1, <1>4
<1>8. CASE u.kind # "removed"
  <2>1. Written(rows[i][u.txn], u) # "none"
    BY <1>1, <1>7, <1>8, WrittenType
  <2>2. QED
    BY <1>5, <1>6, <1>8, <2>1 DEF Applied
<1>9. CASE u.kind = "removed"
  <2>1. PICK j \in 1 .. k - 1 : feed[i][j].kind = "added" /\ feed[i][j].txn = u.txn
    BY <1>1, <1>9 DEF Inv, FeedOK
  <2>2. j \notin run[r].todo
    <3>1. Rank(feed[i][j]) = 1 /\ Rank(u) = 3
      BY <1>9, <2>1 DEF Rank
    <3>2. Precedes(i, j, k)
      BY <3>1 DEF Precedes
    <3>3. QED
      BY <1>3, <3>2
  <2>3. Applied(i, j)
    <3>1. CASE j <= run[r].cur
      BY <1>2, <1>3, <2>1, <3>1 DEF SyncOK, StoredTo
    <3>2. CASE j > run[r].cur
      <4>1. j \in run[r].cur + 1 .. run[r].upto
        BY <1>1, <1>2, <2>1, <3>2
      <4>2. QED
        BY <1>3, <2>2, <4>1 DEF SyncOK
    <3>3. QED
      BY <1>1, <1>2, <2>1, <3>1, <3>2
  <2>4. rows[i][u.txn] # "none"
    BY <2>1, <2>3 DEF Applied
  <2>5. Written(rows[i][u.txn], u) = "removed"
    BY <1>1, <1>7, <1>9, <2>4, WrittenType
  <2>6. QED
    BY <1>5, <1>6, <1>9, <2>5 DEF Applied
<1>10. QED
  BY <1>8, <1>9

(* A record that is at none of the three places says nothing. *)
LEMMA AwayOK ==
  ASSUME NEW x, x.at \notin {"fetching", "writing", "committing"}
  PROVE  SyncOK(x)
BY DEF SyncOK

(* What is known of a sync after its own step. *)
LEMMA SyncStep ==
  ASSUME Inv, TypeOK', Grows, NEW r \in Runs, Work(r) \/ Trouble(r),
         NEW x, x = run'[r], NEW i, i = run[r].item
  PROVE  SyncOK(x)'
<1>1. run[r] \in RunType /\ run \in [Runs -> RunType] /\ SyncOK(run[r])
  BY DEF Inv, TypeOK
<1>2. /\ i \in Items /\ run[r].cur \in Nat /\ run[r].upto \in Nat
      /\ cursor[i] \in Nat
  <2>1. i \in Items
    BY <1>1 DEF RunType
  <2>2. cursor[i] \in Position
    BY <2>1 DEF Inv, TypeOK
  <2>3. QED
    BY <1>1, <2>1, <2>2, PlaidAssumption DEF RunType, Position
<1>3. /\ feed' = feed /\ Len(feed[i]) \in Nat
      /\ StoredTo(i, cursor[i])
  <2>1. feed' = feed
    BY StepTables
  <2>2. Len(feed[i]) \in Nat
    BY <1>2 DEF Inv, TypeOK
  <2>3. StoredTo(i, cursor[i])
    BY <1>2 DEF Inv
  <2>4. QED
    BY <2>1, <2>2, <2>3
<1>4. \A j, k : rows' = rows => (Applied(j, k)' <=> Applied(j, k))
  BY <1>3 DEF Applied
<1>5. \A j, c : rows' = rows => (StoredTo(j, c)' <=> StoredTo(j, c))
  BY <1>3, <1>4 DEF StoredTo
<1>6. CASE x.at \notin {"fetching", "writing", "committing"}
  BY <1>6 DEF SyncOK
<1>7. CASE Admit(r)
  <2>1. x.at \in {"idle", "starting"}
    BY <1>1, <1>7 DEF Admit, RunType
  <2>2. QED
    BY <1>6, <2>1
<1>8. CASE Begin(r)
  <2>1. x = [run[r] EXCEPT !.at = "fetching", !.cur = cursor[i]] /\ rows' = rows
    BY <1>1, <1>8 DEF Begin, db
  <2>2. x.at = "fetching" /\ x.item = i /\ x.cur = cursor[i]
    BY <1>1, <2>1 DEF RunType
  <2>3. QED
    BY <1>3, <1>4, <2>1, <2>2 DEF SyncOK, StoredTo
<1>9. ASSUME NEW upto \in Position, Fetch(r, upto) PROVE SyncOK(x)'
  <2>1. /\ x = [run[r] EXCEPT
                  !.at = "writing", !.upto = upto, !.todo = (run[r].cur + 1) .. upto,
                  !.more = upto < Len(feed[i]), !.pages = run[r].pages + 1]
        /\ rows' = rows /\ run[r].at = "fetching" /\ upto \in run[r].cur .. Len(feed[i])
    BY <1>1, <1>9 DEF Fetch, db
  <2>2. /\ x.at = "writing" /\ x.item = i /\ x.cur = run[r].cur
        /\ x.upto = upto /\ x.todo = (run[r].cur + 1) .. upto
    BY <1>1, <2>1 DEF RunType
  <2>3. StoredTo(i, run[r].cur)
    BY <1>1, <2>1 DEF SyncOK
  <2>4. /\ upto <= Len(feed[i]) /\ run[r].cur <= Len(feed[i])
        /\ \A k \in 1 .. run[r].cur : Applied(i, k)'
    BY <1>2, <1>3, <1>4, <2>1, <2>3 DEF StoredTo
  <2>5. QED
    BY <1>3, <2>2, <2>4 DEF SyncOK, StoredTo
<1>10. ASSUME NEW k \in Position, Write(r, k) PROVE SyncOK(x)'
  <2>1. x = [run[r] EXCEPT !.todo = run[r].todo \ {k}] /\ run[r].at = "writing"
    BY <1>1, <1>10 DEF Write, NextWrite
  <2>2. /\ x.at = "writing" /\ x.item = i /\ x.cur = run[r].cur
        /\ x.upto = run[r].upto /\ x.todo = run[r].todo \ {k}
    BY <1>1, <2>1 DEF RunType
  <2>3. Applied(i, k)'
    BY <1>10, WriteApplies
  <2>4. /\ run[r].cur <= Len(feed'[i]) /\ \A j \in 1 .. run[r].cur : Applied(i, j)'
        /\ run[r].upto <= Len(feed'[i])
        /\ \A j \in run[r].cur + 1 .. run[r].upto : j \in run[r].todo \/ Applied(i, j)'
        /\ \A j \in run[r].todo : j \in run[r].cur + 1 .. run[r].upto
    <3>1. /\ StoredTo(i, run[r].cur)
          /\ run[r].upto <= Len(feed[i])
          /\ \A j \in run[r].cur + 1 .. run[r].upto : j \in run[r].todo \/ Applied(i, j)
          /\ \A j \in run[r].todo : j \in run[r].cur + 1 .. run[r].upto
      BY <1>1, <2>1 DEF SyncOK
    <3>2. /\ run[r].cur <= Len(feed[i])
          /\ \A j \in 1 .. run[r].cur : Applied(i, j)
      BY <3>1 DEF StoredTo
    <3>3. \A j \in 1 .. Len(feed[i]) : Applied(i, j) => Applied(i, j)'
      BY <1>2, AppliedStays
    <3>4. \A j \in 1 .. run[r].cur : j \in 1 .. Len(feed[i])
      BY <1>2, <1>3, <3>2
    <3>5. \A j \in run[r].cur + 1 .. run[r].upto : j \in 1 .. Len(feed[i])
      BY <1>2, <1>3, <3>1
    <3>6. QED
      BY <1>3, <3>1, <3>2, <3>3, <3>4, <3>5
  <2>5. QED
    BY <2>2, <2>3, <2>4 DEF SyncOK, StoredTo
<1>11. CASE PageDone(r)
  <2>1. rows' = rows /\ run[r].at = "writing" /\ run[r].todo = {}
    BY <1>11 DEF PageDone, db
  <2>2. /\ run[r].cur <= Len(feed[i]) /\ \A k \in 1 .. run[r].cur : Applied(i, k)
        /\ run[r].upto <= Len(feed[i])
        /\ \A k \in run[r].cur + 1 .. run[r].upto : Applied(i, k)
    BY <1>1, <2>1 DEF SyncOK, StoredTo
  <2>3. \A k \in 1 .. run[r].upto : Applied(i, k)
    <3>1. \A k \in 1 .. run[r].upto :
             k \in 1 .. run[r].cur \/ k \in run[r].cur + 1 .. run[r].upto
      BY <1>2
    <3>2. QED
      BY <2>2, <3>1
  <2>4. \A k \in 1 .. run[r].upto : Applied(i, k)'
    BY <1>4, <2>1, <2>3
  <2>5. x \in {Drained(r), Failed(r, "counted"), NextPage(r)}
    BY <1>1, <1>11 DEF PageDone
  <2>6. CASE x = Failed(r, "counted")
    <3>1. x.at = "failing"
      BY <2>6 DEF Failed, Idle
    <3>2. QED
      BY <1>6, <3>1
  <2>7. CASE x = Drained(r)
    <3>1. x.at = "committing" /\ x.item = i /\ x.cur = run[r].upto
      BY <2>7 DEF Drained, Idle
    <3>2. QED
      BY <1>3, <2>2, <2>4, <3>1 DEF SyncOK, StoredTo
  <2>8. CASE x = NextPage(r)
    <3>1. x.at = "fetching" /\ x.item = i /\ x.cur = run[r].upto
      BY <2>8 DEF NextPage, Idle
    <3>2. QED
      BY <1>3, <2>2, <2>4, <3>1 DEF SyncOK, StoredTo
  <2>9. QED
    BY <2>5, <2>6, <2>7, <2>8
<1>12. CASE \/ Commit(r) \/ CommitFails(r) \/ HandleAuth(r) \/ RecordGiveUp(r)
            \/ Count(r) \/ CountLost(r) \/ OutcomeLost(r)
  <2>1. x = Idle(i)
    BY <1>1, <1>12 DEF Commit, CommitFails, HandleAuth, RecordGiveUp, Count, CountLost,
       OutcomeLost
  <2>2. x.at = "idle"
    BY <2>1 DEF Idle
  <2>3. QED
    BY <1>6, <2>2
<1>13. CASE ReadRetries(r) \/ RetriesUnread(r)
  <2>1. x.at = "counting"
    BY <1>1, <1>13 DEF ReadRetries, RetriesUnread, RunType
  <2>2. QED
    BY <1>6, <2>1
<1>14. CASE GiveUp(r) \/ GiveUpLost(r)
  <2>1. x.at = "givingUp"
    BY <1>1, <1>14 DEF GiveUp, GiveUpLost, RunType
  <2>2. QED
    BY <1>6, <2>1
<1>15. ASSUME NEW c \in Classes, NoToken(r, c) \/ FetchFails(r, c) PROVE SyncOK(x)'
  <2>1. x = Failed(r, c)
    BY <1>1, <1>15 DEF NoToken, FetchFails
  <2>2. x.at = "failing"
    BY <2>1 DEF Failed, Idle
  <2>3. QED
    BY <1>6, <2>2
<1>16. ASSUME NEW k \in Position, WriteFails(r, k) PROVE SyncOK(x)'
  <2>1. x = Failed(r, "counted")
    BY <1>1, <1>16 DEF WriteFails
  <2>2. x.at = "failing"
    BY <2>1 DEF Failed, Idle
  <2>3. QED
    BY <1>6, <2>2
<1>17. CASE BeginAnew(r)
  <2>1. x = [run[r] EXCEPT !.at = "fetching", !.cur = 0]
    BY <1>1, <1>17 DEF BeginAnew
  <2>2. x.at = "fetching" /\ x.item = i /\ x.cur = 0
    BY <1>1, <2>1 DEF RunType
  <2>3. 0 <= Len(feed'[i]) /\ \A k \in 1 .. 0 : Applied(i, k)'
    BY <1>3
  <2>4. QED
    BY <2>2, <2>3 DEF SyncOK, StoredTo
<1>18. QED
  BY <1>7, <1>8, <1>9, <1>10, <1>11, <1>12, <1>13, <1>14, <1>15, <1>16, <1>17
     DEF Work, Trouble

(* Every other sync, and what the items' cursors say, is untouched. *)
LEMMA StoreStep ==
  ASSUME Inv, [Next]_vars
  PROVE  /\ \A i \in Items : StoredTo(i, cursor[i])'
         /\ \A r \in Runs : SyncOK(run[r])'
<1>1. TypeOK' /\ Grows
  BY TypeStep, StepGrows
<1>2. run \in [Runs -> RunType] /\ cursor \in [Items -> Position]
  BY DEF Inv, TypeOK
<1>3. ASSUME NEW i \in Items, NEW c, c = cursor[i] PROVE StoredTo(i, c)'
  <2>1. c \in Nat
    BY <1>2, <1>3, PlaidAssumption DEF Position
  <2>2. StoredTo(i, c)
    BY <1>3 DEF Inv
  <2>3. QED
    BY <1>1, <2>1, <2>2, StoredStays
<1>4. ASSUME NEW r \in Runs, NEW x, x = run[r] PROVE SyncOK(x)'
  <2>1. x \in RunType
    BY <1>2, <1>4
  <2>2. SyncOK(x)
    BY <1>4 DEF Inv
  <2>3. QED
    BY <1>1, <2>1, <2>2, SyncStays
<1>5. ASSUME NEW i \in Items, NEW c, c = cursor'[i] PROVE StoredTo(i, c)'
  <2>1. CASE cursor'[i] = cursor[i]
    BY <1>3, <1>5, <2>1
  <2>2. ASSUME NEW r \in Runs, Commit(r), i = run[r].item PROVE StoredTo(i, c)'
    <3>1. c = run[r].cur /\ run[r].at = "committing" /\ rows' = rows /\ feed' = feed
      BY <1>2, <1>5, <2>2 DEF Commit
    <3>2. StoredTo(run[r].item, run[r].cur)
      BY <3>1 DEF Inv, SyncOK
    <3>3. QED
      BY <2>2, <3>1, <3>2 DEF StoredTo, Applied
  <2>3. ASSUME NEW r \in Runs, Commit(r), i # run[r].item PROVE cursor'[i] = cursor[i]
    BY <1>2, <2>3 DEF Commit
  <2>4. ASSUME ~ \E r \in Runs : Commit(r) PROVE cursor' = cursor
    <3>1. ASSUME NEW r \in Runs, Work(r) \/ Trouble(r) PROVE cursor' = cursor
      BY <2>4, <3>1 DEF Work, Trouble, Admit, Begin, Fetch, Write, PageDone, HandleAuth,
         ReadRetries, Count, GiveUp, RecordGiveUp, NoToken, FetchFails, WriteFails,
         BeginAnew, CommitFails, RetriesUnread, CountLost, GiveUpLost, OutcomeLost, db
    <3>2. CASE \E j \in Items : Link(j) \/ ResetPasses(j)
      BY <3>2 DEF Link, ResetPasses
    <3>3. CASE \E j \in Items, u \in Updates : Report(j, u)
      BY <3>3 DEF Report, db
    <3>4. CASE (\E r \in Runs, j \in Items : List(r, j)) \/ Crash \/ UNCHANGED vars
      BY <3>4 DEF List, Crash, vars, db
    <3>5. QED
      BY <3>1, <3>2, <3>3, <3>4 DEF Next
  <2>5. QED
    BY <2>1, <2>2, <2>3, <2>4
<1>6. ASSUME NEW r \in Runs, NEW x, x = run'[r] PROVE SyncOK(x)'
  <2>1. CASE run'[r] = run[r]
    BY <1>4, <1>6, <2>1
  <2>2. CASE x.at \notin {"fetching", "writing", "committing"}
    BY <2>2 DEF SyncOK
  <2>3. ASSUME NEW s \in Runs, Work(s) \/ Trouble(s) PROVE SyncOK(x)'
    <3>1. CASE s = r
      BY <1>1, <1>6, <2>3, <3>1, SyncStep
    <3>2. CASE s # r
      <4>1. run'[r] = run[r]
        BY <1>2, <2>3, <3>2, StepTypes
      <4>2. QED
        BY <2>1, <4>1
    <3>3. QED
      BY <3>1, <3>2
  <2>4. ASSUME NEW s \in Runs, NEW i \in Items, List(s, i) PROVE SyncOK(x)'
    <3>1. CASE s = r
      <4>1. x.at = "listed"
        BY <1>2, <1>6, <2>4, <3>1 DEF List, Idle
      <4>2. QED
        BY <2>2, <4>1
    <3>2. CASE s # r
      BY <1>2, <2>1, <2>4, <3>2 DEF List
    <3>3. QED
      BY <3>1, <3>2
  <2>5. CASE Crash
    <3>1. x.at = "idle"
      BY <1>6, <2>5 DEF Crash, Idle
    <3>2. QED
      BY <2>2, <3>1
  <2>6. CASE \E i \in Items : Link(i) \/ ResetPasses(i)
    BY <2>1, <2>6 DEF Link, ResetPasses
  <2>7. CASE \E i \in Items, u \in Updates : Report(i, u)
    BY <2>1, <2>7 DEF Report
  <2>8. CASE UNCHANGED vars
    BY <2>1, <2>8 DEF vars
  <2>9. QED
    BY <2>3, <2>4, <2>5, <2>6, <2>7, <2>8 DEF Next
<1>7. QED
  BY <1>5, <1>6

-----------------------------------------------------------------------------
(* Why an item leaves the schedule *)

(* The history of failures and refusals only grows. *)
LEMMA HistoryGrows ==
  ASSUME Inv, [Next]_vars
  PROVE  /\ refused \subseteq refused'
         /\ \A n \in Nat, i \in Items : Counted(n, i) => Counted(n, i)'
<1>1. fails \in [Items -> 0 .. MaxRetries] /\ MaxRetries \in Nat
      /\ run \in [Runs -> RunType]
  BY PlaidAssumption DEF Inv, TypeOK
<1>2. ASSUME fails' = fails
      PROVE  \A n \in Nat, i \in Items : Counted(n, i) => Counted(n, i)'
  BY <1>2 DEF Counted
<1>3. ASSUME NEW r \in Runs, ReadRetries(r) \/ RetriesUnread(r)
      PROVE  \A n \in Nat, i \in Items : Counted(n, i) => Counted(n, i)'
  <2>1. fails' = [fails EXCEPT ![run[r].item] = AtMost(fails[run[r].item] + 1)]
    BY <1>3 DEF ReadRetries, RetriesUnread
  <2>2. ASSUME NEW i \in Items PROVE fails'[i] \in {fails[i], AtMost(fails[i] + 1)}
    BY <1>1, <2>1
  <2>3. QED
    BY <1>1, <2>2 DEF Counted, AtMost
<1>4. ASSUME NEW r \in Runs, Work(r) \/ Trouble(r), ~ ReadRetries(r),
             ~ RetriesUnread(r)
      PROVE  fails' = fails
  BY <1>4 DEF Work, Trouble, Admit, Begin, Fetch, Write, PageDone, Commit, HandleAuth,
     Count, GiveUp, RecordGiveUp, NoToken, FetchFails, WriteFails, BeginAnew,
     CommitFails, CountLost, GiveUpLost, OutcomeLost, db
<1>5. ASSUME NEW r \in Runs, Work(r) \/ Trouble(r) PROVE refused \subseteq refused'
  BY <1>5 DEF Work, Trouble, Admit, Begin, Fetch, Write, PageDone, Commit, HandleAuth,
     ReadRetries, Count, GiveUp, RecordGiveUp, NoToken, FetchFails, WriteFails,
     BeginAnew, CommitFails, RetriesUnread, CountLost, GiveUpLost, OutcomeLost, db
<1>6. CASE \E i \in Items : Link(i) \/ ResetPasses(i)
  BY <1>2, <1>6 DEF Link, ResetPasses
<1>7. CASE \E i \in Items, u \in Updates : Report(i, u)
  BY <1>2, <1>7 DEF Report
<1>8. CASE (\E r \in Runs, i \in Items : List(r, i)) \/ Crash \/ UNCHANGED vars
  BY <1>2, <1>8 DEF List, Crash, vars
<1>9. QED
  BY <1>2, <1>3, <1>4, <1>5, <1>6, <1>7, <1>8 DEF Next

(* A sync that says so has counted its failure, or was refused. *)
LEMMA EarnedSync ==
  ASSUME Inv, [Next]_vars, NEW r \in Runs, NEW x, x = run'[r]
  PROVE  EarnedOK(x)'
<1>1. run \in [Runs -> RunType] /\ run[r] \in RunType /\ EarnedOK(run[r])
  BY DEF Inv, TypeOK
<1>2. run[r].item \in Items /\ run[r].seen \in Nat
  BY <1>1 DEF RunType
<1>3. /\ refused \subseteq refused'
      /\ \A n \in Nat, i \in Items : Counted(n, i) => Counted(n, i)'
  BY HistoryGrows
<1>4. CASE run'[r] = run[r]
  <2>1. x = run[r]
    BY <1>4
  <2>2. x.at \in {"counting", "givingUp"} => Counted(x.seen + 1, x.item)'
    <3>1. x.seen + 1 \in Nat /\ x.item \in Items
      BY <1>2, <2>1
    <3>2. x.at \in {"counting", "givingUp"} => Counted(x.seen + 1, x.item)
      BY <1>1, <2>1 DEF EarnedOK
    <3>3. Counted(x.seen + 1, x.item) => Counted(x.seen + 1, x.item)'
      BY <1>3, <3>1
    <3>4. QED
      BY <3>2, <3>3
  <2>3. x.at = "failing" /\ x.class = "vendor_auth_required" => x.item \in refused'
    BY <1>1, <1>3, <2>1 DEF EarnedOK
  <2>4. QED
    BY <2>2, <2>3 DEF EarnedOK
<1>5. CASE x.at \notin {"failing", "counting", "givingUp"}
  BY <1>5 DEF EarnedOK
<1>6. ASSUME NEW s \in Runs, s # r, Work(s) \/ Trouble(s) PROVE run'[r] = run[r]
  BY <1>1, <1>6, StepTypes
<1>7. CASE Admit(r)
  <2>1. x.at \in {"idle", "starting"}
    BY <1>1, <1>7 DEF Admit, RunType
  <2>2. QED
    BY <1>5, <2>1
<1>8. CASE Begin(r) \/ BeginAnew(r) \/ (\E upto \in Position : Fetch(r, upto))
  <2>1. x.at \in {"fetching", "writing"}
    <3>1. CASE Begin(r) \/ BeginAnew(r)
      BY <1>1, <3>1 DEF Begin, BeginAnew, RunType
    <3>2. ASSUME NEW upto \in Position, Fetch(r, upto) PROVE x.at = "writing"
      BY <1>1, <3>2 DEF Fetch, RunType
    <3>3. QED
      BY <1>8, <3>1, <3>2
  <2>2. QED
    BY <1>5, <2>1
<1>9. CASE \E k \in Position : Write(r, k)
  <2>1. x.at = "writing"
    BY <1>1, <1>9 DEF Write, NextWrite, RunType
  <2>2. QED
    BY <1>5, <2>1
<1>10. ASSUME NEW c \in Classes, x = Failed(r, c),
              c = "vendor_auth_required" => run[r].item \in refused'
       PROVE  EarnedOK(x)'
  <2>1. x.at = "failing" /\ x.class = c /\ x.item = run[r].item
    BY <1>10 DEF Failed, Idle
  <2>2. QED
    BY <1>10, <2>1 DEF EarnedOK
<1>11. CASE PageDone(r)
  <2>1. x \in {Drained(r), Failed(r, "counted"), NextPage(r)}
    BY <1>1, <1>11 DEF PageDone
  <2>2. Drained(r).at = "committing" /\ NextPage(r).at = "fetching"
    BY DEF Drained, NextPage, Idle
  <2>3. QED
    BY <1>5, <1>10, <2>1, <2>2 DEF Classes
<1>12. CASE \/ Commit(r) \/ CommitFails(r) \/ HandleAuth(r) \/ RecordGiveUp(r)
            \/ Count(r) \/ CountLost(r) \/ OutcomeLost(r)
  <2>1. x = Idle(run[r].item)
    BY <1>1, <1>12 DEF Commit, CommitFails, HandleAuth, RecordGiveUp, Count, CountLost,
       OutcomeLost
  <2>2. x.at = "idle"
    BY <2>1 DEF Idle
  <2>3. QED
    BY <1>5, <2>2
<1>13. CASE ReadRetries(r) \/ RetriesUnread(r)
  <2>. DEFINE i == run[r].item
  <2>1. x.at = "counting" /\ x.item = run[r].item /\ x.seen \in {0, retries[i]}
    BY <1>1, <1>13 DEF ReadRetries, RetriesUnread, RunType
  <2>2. fails'[i] = AtMost(fails[i] + 1)
    BY <1>2, <1>13 DEF ReadRetries, RetriesUnread, Inv, TypeOK
  <2>3. /\ retries[i] \in Nat /\ fails[i] \in 0 .. MaxRetries /\ MaxRetries \in Nat
        /\ Counted(retries[i], i)
    BY <1>2, PlaidAssumption DEF Inv, TypeOK
  <2>4. x.seen + 1 <= fails'[i] \/ fails'[i] = MaxRetries
    BY <2>1, <2>2, <2>3 DEF AtMost, Counted
  <2>5. QED
    BY <2>1, <2>4 DEF EarnedOK, Counted
<1>14. CASE GiveUp(r) \/ GiveUpLost(r)
  <2>1. /\ x.at = "givingUp" /\ x.item = run[r].item /\ x.seen = run[r].seen
        /\ run[r].at = "counting"
    BY <1>1, <1>14 DEF GiveUp, GiveUpLost, RunType
  <2>2. Counted(run[r].seen + 1, run[r].item)
    BY <1>1, <2>1 DEF EarnedOK
  <2>3. QED
    BY <1>2, <1>3, <2>1, <2>2 DEF EarnedOK
<1>15. ASSUME NEW c \in Classes, NoToken(r, c) \/ FetchFails(r, c) PROVE EarnedOK(x)'
  <2>1. x = Failed(r, c)
    BY <1>1, <1>15 DEF NoToken, FetchFails
  <2>2. c = "vendor_auth_required" => run[r].item \in refused'
    BY <1>15 DEF NoToken, FetchFails
  <2>3. QED
    BY <1>10, <2>1, <2>2
<1>16. ASSUME NEW k \in Position, WriteFails(r, k) PROVE EarnedOK(x)'
  <2>1. x = Failed(r, "counted")
    BY <1>1, <1>16 DEF WriteFails
  <2>2. QED
    BY <1>10, <2>1 DEF Classes
<1>17. ASSUME Work(r) \/ Trouble(r) PROVE EarnedOK(x)'
  BY <1>7, <1>8, <1>9, <1>11, <1>12, <1>13, <1>14, <1>15, <1>16, <1>17
     DEF Work, Trouble
<1>18. ASSUME NEW s \in Runs, NEW i \in Items, List(s, i) PROVE EarnedOK(x)'
  <2>1. CASE s = r
    <3>1. x.at = "listed"
      BY <1>1, <1>18, <2>1 DEF List, Idle
    <3>2. QED
      BY <1>5, <3>1
  <2>2. CASE s # r
    BY <1>1, <1>4, <1>18, <2>2 DEF List
  <2>3. QED
    BY <2>1, <2>2
<1>19. CASE Crash
  <2>1. x.at = "idle"
    BY <1>19 DEF Crash, Idle
  <2>2. QED
    BY <1>5, <2>1
<1>20. CASE \E i \in Items : Link(i) \/ ResetPasses(i)
  BY <1>4, <1>20 DEF Link, ResetPasses
<1>21. CASE (\E i \in Items, u \in Updates : Report(i, u)) \/ UNCHANGED vars
  BY <1>4, <1>21 DEF Report, vars
<1>22. QED
  BY <1>4, <1>6, <1>17, <1>18, <1>19, <1>20, <1>21 DEF Next

LEMMA EarnedStep ==
  ASSUME Inv, [Next]_vars
  PROVE  /\ StatusIsEarned'
         /\ \A i \in Items : Counted(retries[i], i)'
<1>1. /\ TypeOK /\ run \in [Runs -> RunType] /\ MaxRetries \in Nat
      /\ StatusIsEarned /\ \A i \in Items : Counted(retries[i], i)
  BY PlaidAssumption DEF Inv, TypeOK
<1>2. /\ refused \subseteq refused'
      /\ \A n \in Nat, i \in Items : Counted(n, i) => Counted(n, i)'
  BY HistoryGrows
<1>3. TypeOK'
  BY TypeStep
<1>4. \A i \in Items : fails[i] >= MaxRetries => fails'[i] >= MaxRetries
  <2>1. ASSUME NEW i \in Items, fails[i] >= MaxRetries PROVE fails'[i] >= MaxRetries
    <3>1. fails[i] \in 0 .. MaxRetries /\ fails'[i] \in 0 .. MaxRetries
      BY <1>1, <1>3 DEF TypeOK
    <3>2. Counted(MaxRetries, i)
      BY <1>1, <2>1, <3>1 DEF Counted
    <3>3. Counted(MaxRetries, i)'
      BY <1>1, <1>2, <3>2
    <3>4. QED
      BY <1>1, <3>1, <3>3 DEF Counted
  <2>2. QED
    BY <2>1
<1>5. ASSUME NEW i \in Items, status'[i] \in {status[i], "active"}
      PROVE  /\ status'[i] = "error" => fails'[i] >= MaxRetries
             /\ status'[i] = "login_required" => i \in refused'
  BY <1>1, <1>2, <1>4, <1>5 DEF StatusIsEarned
<1>6. ASSUME NEW i \in Items, NEW n, n = retries'[i], retries'[i] = retries[i]
      PROVE  Counted(n, i)'
  BY <1>1, <1>2, <1>6 DEF TypeOK
<1>7. ASSUME NEW r \in Runs, Work(r) \/ Trouble(r), NEW i \in Items
      PROVE  /\ status'[i] = "error" => fails'[i] >= MaxRetries
             /\ status'[i] = "login_required" => i \in refused'
  <2>1. run[r] \in RunType /\ run[r].item \in Items /\ EarnedOK(run[r])
    BY <1>1 DEF Inv, RunType
  <2>2. CASE status' = status
    BY <1>5, <2>2
  <2>3. CASE HandleAuth(r)
    <3>1. CASE i = run[r].item
      <4>1. status'[i] = "login_required" /\ i \in refused
        BY <1>1, <2>1, <2>3, <3>1 DEF HandleAuth, EarnedOK, TypeOK
      <4>2. QED
        BY <1>2, <4>1
    <3>2. CASE i # run[r].item
      <4>1. status'[i] = status[i]
        BY <1>1, <2>3, <3>2 DEF HandleAuth, TypeOK
      <4>2. QED
        BY <1>5, <4>1
    <3>3. QED
      BY <3>1, <3>2
  <2>4. ASSUME NEW c \in Classes, FetchFails(r, c)
        PROVE  /\ status'[i] = "error" => fails'[i] >= MaxRetries
               /\ status'[i] = "login_required" => i \in refused'
    <3>1. CASE status'[i] = status[i]
      BY <1>5, <3>1
    <3>2. CASE status'[i] # status[i]
      <4>1. status'[i] = "login_required" /\ i \in refused'
        BY <1>1, <2>1, <2>4, <3>2 DEF FetchFails, TypeOK
      <4>2. QED
        BY <4>1
    <3>3. QED
      BY <3>1, <3>2
  <2>5. CASE GiveUp(r)
    <3>1. CASE i = run[r].item
      <4>1. status'[i] = "error" /\ fails' = fails
        BY <1>1, <2>1, <2>5, <3>1 DEF GiveUp, TypeOK
      <4>2. Counted(run[r].seen + 1, i)
        BY <2>1, <2>5, <3>1 DEF GiveUp, EarnedOK
      <4>3. run[r].seen + 1 >= MaxRetries /\ run[r].seen \in Nat
        BY <2>1, <2>5 DEF GiveUp, RunType
      <4>4. fails[i] \in 0 .. MaxRetries
        BY <1>1 DEF TypeOK
      <4>5. fails[i] >= MaxRetries
        BY <1>1, <4>2, <4>3, <4>4 DEF Counted
      <4>6. QED
        BY <4>1, <4>5
    <3>2. CASE i # run[r].item
      <4>1. status'[i] = status[i]
        BY <1>1, <2>5, <3>2 DEF GiveUp, TypeOK
      <4>2. QED
        BY <1>5, <4>1
    <3>3. QED
      BY <3>1, <3>2
  <2>6. ASSUME ~ HandleAuth(r), ~ GiveUp(r), ~ \E c \in Classes : FetchFails(r, c)
        PROVE  status' = status
    BY <1>7, <2>6 DEF Work, Trouble, Admit, Begin, Fetch, Write, PageDone, Commit,
       ReadRetries, Count, RecordGiveUp, NoToken, WriteFails, BeginAnew, CommitFails,
       RetriesUnread, CountLost, GiveUpLost, OutcomeLost, db
  <2>7. QED
    BY <2>2, <2>3, <2>4, <2>5, <2>6
<1>8. ASSUME NEW r \in Runs, Work(r) \/ Trouble(r), NEW i \in Items,
             NEW n, n = retries'[i]
      PROVE  Counted(n, i)'
  <2>1. run[r] \in RunType /\ run[r].item \in Items /\ EarnedOK(run[r])
    BY <1>1 DEF Inv, RunType
  <2>2. CASE retries' = retries
    BY <1>6, <1>8, <2>2
  <2>3. CASE Count(r) \/ RecordGiveUp(r)
    <3>1. CASE i = run[r].item
      <4>1. n = run[r].seen + 1
        BY <1>1, <1>8, <2>1, <2>3, <3>1 DEF Count, RecordGiveUp, TypeOK
      <4>2. Counted(run[r].seen + 1, i)
        BY <2>1, <2>3, <3>1 DEF Count, RecordGiveUp, EarnedOK
      <4>3. n \in Nat
        BY <2>1, <4>1 DEF RunType
      <4>4. QED
        BY <1>2, <4>1, <4>2, <4>3
    <3>2. CASE i # run[r].item
      <4>1. retries'[i] = retries[i]
        BY <1>1, <2>3, <3>2 DEF Count, RecordGiveUp, TypeOK
      <4>2. QED
        BY <1>6, <1>8, <4>1
    <3>3. QED
      BY <3>1, <3>2
  <2>4. ASSUME ~ Count(r), ~ RecordGiveUp(r) PROVE retries' = retries
    BY <1>8, <2>4 DEF Work, Trouble, Admit, Begin, Fetch, Write, PageDone, Commit,
       HandleAuth, ReadRetries, GiveUp, NoToken, FetchFails, WriteFails, BeginAnew,
       CommitFails, RetriesUnread, CountLost, GiveUpLost, OutcomeLost, db
  <2>5. QED
    BY <2>2, <2>3, <2>4
<1>9. CASE \E r \in Runs : Work(r) \/ Trouble(r)
  <2>1. StatusIsEarned'
    BY <1>7, <1>9 DEF StatusIsEarned
  <2>2. \A i \in Items : Counted(retries[i], i)'
    BY <1>8, <1>9
  <2>3. QED
    BY <2>1, <2>2
<1>10. ASSUME retries' = retries, \A i \in Items : status'[i] \in {status[i], "active"}
       PROVE  /\ StatusIsEarned'
              /\ \A i \in Items : Counted(retries[i], i)'
  <2>1. StatusIsEarned'
    BY <1>5, <1>10 DEF StatusIsEarned
  <2>2. \A i \in Items : Counted(retries[i], i)'
    BY <1>6, <1>10
  <2>3. QED
    BY <2>1, <2>2
<1>11. ASSUME NEW i \in Items, Link(i)
       PROVE  retries' = retries /\ \A j \in Items : status'[j] \in {status[j], "active"}
  BY <1>1, <1>11 DEF Link, TypeOK
<1>12. CASE \E i \in Items : ResetPasses(i)
  BY <1>10, <1>12 DEF ResetPasses
<1>13. CASE \E i \in Items, u \in Updates : Report(i, u)
  BY <1>10, <1>13 DEF Report, db
<1>14. CASE (\E r \in Runs, i \in Items : List(r, i)) \/ Crash \/ UNCHANGED vars
  BY <1>10, <1>14 DEF List, Crash, vars, db
<1>15. QED
  BY <1>9, <1>10, <1>11, <1>12, <1>13, <1>14 DEF Next

-----------------------------------------------------------------------------
(* The theorems *)

LEMMA InitInv == Init => Inv
<1>. SUFFICES ASSUME Init PROVE Inv
  OBVIOUS
<1>1. TypeOK
  BY InitType
<1>2. \A i \in Items : feed[i] = <<>> /\ Len(feed[i]) = 0
  BY DEF Init
<1>3. FeedOK
  BY <1>2 DEF FeedOK
<1>4. ASSUME NEW i \in Items PROVE StoredTo(i, cursor[i])
  <2>1. cursor[i] = 0 /\ Len(feed[i]) = 0
    BY <1>2 DEF Init
  <2>2. \A k \in 1 .. 0 : Applied(i, k)
    OBVIOUS
  <2>3. QED
    BY <2>1, <2>2 DEF StoredTo
<1>5. ASSUME NEW r \in Runs PROVE run[r].at = "idle"
  BY DEF Init, Idle
<1>6. StatusIsEarned /\ \A i \in Items : Counted(retries[i], i)
  BY DEF Init, StatusIsEarned, Counted
<1>7. QED
  BY <1>1, <1>3, <1>4, <1>5, <1>6 DEF Inv, SyncOK, EarnedOK

LEMMA StepInv == Inv /\ [Next]_vars => Inv'
<1>. SUFFICES ASSUME Inv, [Next]_vars PROVE Inv'
  OBVIOUS
<1>1. TypeOK' /\ FeedOK'
  BY TypeStep, FeedStep
<1>2. /\ \A i \in Items : StoredTo(i, cursor[i])'
      /\ \A r \in Runs : SyncOK(run[r])'
  BY StoreStep
<1>3. /\ StatusIsEarned'
      /\ \A i \in Items : Counted(retries[i], i)'
  BY EarnedStep
<1>4. ASSUME NEW r \in Runs PROVE EarnedOK(run[r])'
  BY EarnedSync
<1>5. QED
  BY <1>1, <1>2, <1>3, <1>4 DEF Inv

(* The inductive invariant holds. *)
THEOREM InvHolds == Spec => []Inv
BY InitInv, StepInv, PTL DEF Spec

(* TypeOK: every variable of the scheduler and the syncs keeps its type.    *)
THEOREM TypeCorrect == Spec => []TypeOK
<1>1. Inv => TypeOK
  BY DEF Inv
<1>2. QED
  BY <1>1, InvHolds, PTL

(* CommittedIsStored: commitCursor never stores a cursor past an update     *)
(* that SyncTransactions did not write.                                     *)
THEOREM NothingSkipped == Spec => []CommittedIsStored
<1>1. Inv => CommittedIsStored
  BY DEF Inv, StoredTo, CommittedIsStored
<1>2. QED
  BY <1>1, InvHolds, PTL

(* RemovedStaysRemoved: upsertTransaction never brings a row back that      *)
(* markTransactionRemoved removed.                                          *)
THEOREM NeverBack == Spec => RemovedStaysRemoved
<1>1. Inv /\ [Next]_vars =>
         [\A i \in Items, t \in Txns :
            rows[i][t] = "removed" => rows'[i][t] = "removed"]_vars
  BY StepGrows DEF Grows
<1>2. QED
  BY <1>1, InvHolds, PTL DEF Spec, RemovedStaysRemoved

(* StatusIsEarned: handleSyncError takes an item off the schedule only      *)
(* after maxRetries failures, or because Plaid or the vault refused it.     *)
THEOREM StatusCorrect == Spec => []StatusIsEarned
<1>1. Inv => StatusIsEarned
  BY DEF Inv
<1>2. QED
  BY <1>1, InvHolds, PTL

-----------------------------------------------------------------------------
(* The refinement of LedgerCopy *)

LEMMA LedgerInit == Init => Ledger!Init
BY DEF Init, Ledger!Init

(* A statement enters a transaction, strikes it, or finds it so already. *)
LEMMA LedgerWrite ==
  ASSUME Inv, NEW r \in Runs, NEW k, Write(r, k)
  PROVE  [Ledger!Next]_(Ledger!vars)
<1>. DEFINE i == run[r].item
<1>. DEFINE u == feed[i][k]
<1>0. /\ i \in Items /\ k \in 1 .. Len(feed[i]) /\ u \in Updates /\ u.txn \in Txns
      /\ rows[i][u.txn] \in {"none", "live", "removed"}
  <2>1. NextWrite(r, k)
    BY DEF Write
  <2>2. QED
    BY <2>1, TodoInLog DEF Inv, TypeOK
<1>1. /\ rows' = [rows EXCEPT ![i][u.txn] = Written(rows[i][u.txn], u)]
      /\ UNCHANGED <<feed, cursor>>
  BY DEF Write
<1>. HIDE DEF i, u
<1>2. CASE u.kind # "removed" /\ rows[i][u.txn] = "none"
  <2>1. Ledger!Known(i, u.txn)
    BY <1>0, <1>2 DEF Ledger!Known, u
  <2>2. Ledger!Enter(i, u.txn)
    BY <1>1, <1>2, <2>1 DEF Ledger!Enter, Ledger!Set, Written
  <2>3. QED
    BY <1>0, <2>2 DEF Ledger!Next
<1>3. CASE u.kind = "removed" /\ rows[i][u.txn] = "live"
  <2>1. Ledger!Withdrawn(i, u.txn)
    BY <1>0, <1>3 DEF Ledger!Withdrawn, u
  <2>2. Ledger!Strike(i, u.txn)
    BY <1>1, <1>3, <2>1 DEF Ledger!Strike, Ledger!Set, Written
  <2>3. QED
    BY <1>0, <2>2 DEF Ledger!Next
<1>4. CASE /\ ~(u.kind # "removed" /\ rows[i][u.txn] = "none")
           /\ ~(u.kind = "removed" /\ rows[i][u.txn] = "live")
  <2>1. Written(rows[i][u.txn], u) = rows[i][u.txn]
    BY <1>4 DEF Written
  <2>2. rows' = rows
    BY <1>1, <2>1 DEF Inv, TypeOK
  <2>3. QED
    BY <1>1, <2>2 DEF Ledger!vars
<1>5. QED
  BY <1>2, <1>3, <1>4

(* The cursor a sync stores marks what is in the table. *)
LEMMA LedgerCommit ==
  ASSUME Inv, NEW r \in Runs, Commit(r)
  PROVE  Ledger!Next
<1>. DEFINE i == run[r].item
<1>. DEFINE p == run[r].cur
<1>1. i \in Items /\ p \in Nat
  BY PlaidAssumption DEF Inv, TypeOK, RunType, Position
<1>2. StoredTo(i, p)
  BY DEF Inv, SyncOK, Commit
<1>3. p \in 0 .. Len(feed[i])
  <2>1. Len(feed[i]) \in Nat
    BY <1>1 DEF Inv, TypeOK
  <2>2. QED
    BY <1>1, <1>2, <2>1 DEF StoredTo
<1>4. \A k \in 1 .. p : Ledger!Copied(i, k)
  <2>1. ASSUME NEW k \in 1 .. p PROVE Ledger!Copied(i, k)
    <3>1. Applied(i, k)
      BY <1>2 DEF StoredTo
    <3>2. rows[i][feed[i][k].txn] \in {"none", "live", "removed"}
      <4>1. feed[i] \in Seq(Updates) /\ k \in 1 .. Len(feed[i])
        BY <1>1, <1>3 DEF Inv, TypeOK
      <4>2. feed[i][k] \in Updates
        BY <4>1
      <4>3. QED
        BY <1>1, <4>2 DEF Inv, TypeOK, Updates
    <3>3. QED
      BY <3>1, <3>2 DEF Applied, Ledger!Copied
  <2>2. QED
    BY <2>1
<1>5. Ledger!Mark(i, p)
  BY <1>4 DEF Commit, Ledger!Mark
<1>6. QED
  BY <1>1, <1>3, <1>5 DEF Ledger!Next

LEMMA LedgerStep ==
  ASSUME Inv, [Next]_vars
  PROVE  [Ledger!Next]_(Ledger!vars)
<1>1. ASSUME NEW i \in Items, NEW u \in Updates, Report(i, u) PROVE Ledger!Next
  <2>1. Ledger!Report(i, u)
    BY <1>1 DEF Report, Ledger!Report, db
  <2>2. u \in Ledger!Updates
    BY DEF Updates, Ledger!Updates
  <2>3. QED
    BY <2>1, <2>2 DEF Ledger!Next
<1>2. ASSUME NEW i \in Items, Link(i) \/ ResetPasses(i) PROVE UNCHANGED <<feed, rows, cursor>>
  BY <1>2 DEF Link, ResetPasses
<1>3. ASSUME NEW r \in Runs, NEW i \in Items, List(r, i) PROVE UNCHANGED <<feed, rows, cursor>>
  BY <1>3 DEF List, db
<1>4. ASSUME NEW r \in Runs, Work(r)
      PROVE  \/ UNCHANGED <<feed, rows, cursor>> \/ Commit(r)
             \/ \E k \in Position : Write(r, k)
  BY <1>4 DEF Work, Admit, Begin, Fetch, PageDone, HandleAuth, ReadRetries, Count, GiveUp,
     RecordGiveUp, db
<1>5. ASSUME NEW r \in Runs, Trouble(r) PROVE UNCHANGED <<feed, rows, cursor>>
  BY <1>5 DEF Trouble, NoToken, FetchFails, WriteFails, BeginAnew, CommitFails,
     RetriesUnread, CountLost, GiveUpLost, OutcomeLost, db
<1>6. CASE Crash \/ UNCHANGED vars
  BY <1>6 DEF Crash, vars, db, Ledger!vars
<1>7. QED
  BY <1>1, <1>2, <1>3, <1>4, <1>5, <1>6, LedgerWrite, LedgerCommit DEF Next, Ledger!vars

(* However syncs overlap, fail or are cut short, the tables are a copy of  *)
(* the ledgers as LedgerCopy promises it.                                  *)
THEOREM CopyRefines == Spec => KeepsCopy
BY LedgerInit, LedgerStep, InvHolds, PTL DEF Spec, KeepsCopy, Ledger!Spec
=============================================================================
