----------------------------- MODULE PlaidSync -----------------------------
(***************************************************************************)
(* plaid-service: the cron scheduler and the cursor loop that copies the   *)
(* bank transactions of every linked item into SQLite                      *)
(* (cmd/plaid-service/scheduler.go, sync.go, db.go).                       *)
(*                                                                         *)
(* Plaid keeps, per item, a log of updates (a transaction was added,       *)
(* modified or removed); a cursor is a position in that log.  A sync reads *)
(* pages from the stored cursor on, writes every update of a page, and     *)
(* only when the log is drained does the scheduler store the new cursor.   *)
(* Two cron entries fire the same tick and nothing keeps a slow tick from  *)
(* overlapping the next one, so several syncs of ONE item may be under     *)
(* way; an element of Runs is such a sync.  What a transaction says (its   *)
(* payload, its account's name) is abstracted: a row is there or not, live *)
(* or removed.  The clock is abstracted to "the rate limit holds".         *)
(***************************************************************************)
EXTENDS Integers, Sequences

CONSTANTS Items,       \* linked bank logins
          Txns,        \* transaction ids
          Linked,      \* those on an account that was there at link time
          Runs,        \* syncs that may be under way at once
          MaxPages,    \* maxSyncPages
          MaxRetries,  \* maxRetries
          PageSize,    \* bound: updates in a page
          MaxFeed,     \* bound: updates Plaid ever reports for an item
          MaxFaults    \* bound: crashes and statements that fail unnoticed

ASSUME PlaidAssumption ==
  /\ Linked \subseteq Txns
  /\ MaxPages \in Nat \ {0}
  /\ MaxRetries \in Nat \ {0}
  /\ PageSize \in Nat \ {0}
  /\ MaxFeed \in Nat
  /\ MaxFaults \in Nat

VARIABLES feed,     \* item -> Plaid's log of updates
          status,   \* item -> plaid_items.status, "none" before it is linked
          cursor,   \* item -> plaid_sync_state.cursor, a position in the log
          retries,  \* item -> plaid_sync_state.retries
          limited,  \* item -> rate_limit_reset_at is in the future
          rows,     \* item, transaction -> "none", "live" or "removed"
          run,      \* the syncs under way
          fails,    \* item -> failures counted, up to MaxRetries (history)
          refused,  \* items for which Plaid or the vault refused (history)
          faults    \* crashes and unnoticed failures so far

db == <<status, cursor, retries, limited, rows>>
vars == <<feed, status, cursor, retries, limited, rows, run, fails, refused, faults>>

-----------------------------------------------------------------------------
(* Plaid's log *)

Updates == [kind : {"added", "modified", "removed"}, txn : Txns]

Position == 0 .. MaxFeed

Reported(i, t, kinds) ==
  \E k \in 1 .. Len(feed[i]) : feed[i][k].txn = t /\ feed[i][k].kind \in kinds

Live(i, t) == Reported(i, t, {"added"}) /\ ~ Reported(i, t, {"removed"})

-----------------------------------------------------------------------------
(* The syncs *)

\* at:    where the sync is
\* cur:   the local cursor;  upto, todo, more: the page being written
\* pages: pages fetched;  class: the error;  seen: the retries it read
Idle(i) == [at |-> "idle", item |-> i, cur |-> 0, upto |-> 0, todo |-> {},
            more |-> FALSE, pages |-> 0, class |-> "none", seen |-> 0]

Places == {"idle", "listed", "starting", "fetching", "writing", "committing",
           "failing", "counting", "givingUp"}

\* "counted" is every class that is only counted: infra_auth_failed,
\* vendor_unavailable, vendor_data_error and cursor_corrupted.
Classes == {"vendor_auth_required", "vendor_rate_limited", "counted"}

\* A crash, or a statement whose error the code drops.
Fault == faults < MaxFaults /\ faults' = faults + 1

AtMost(n) == IF n > MaxRetries THEN MaxRetries ELSE n

\* A sync that is about to do something else has no page.
Failed(r, c) == [Idle(run[r].item) EXCEPT !.at = "failing", !.class = c]

Drained(r) == [Idle(run[r].item) EXCEPT !.at = "committing", !.cur = run[r].upto]

NextPage(r) == [Idle(run[r].item) EXCEPT !.at = "fetching", !.cur = run[r].upto,
                                         !.pages = run[r].pages]

\* Inside a page the code writes the added, then the modified, then the removed.
(* Mutant of Rank: the withdrawals of a page are written first. *)
RemovedFirst(u) ==
  CASE u.kind = "removed" -> 1 [] u.kind = "added" -> 2 [] OTHER -> 3

Rank(u) == CASE u.kind = "added" -> 1 [] u.kind = "modified" -> 2 [] OTHER -> 3

Precedes(i, j, k) ==
  \/ Rank(feed[i][j]) < Rank(feed[i][k])
  \/ Rank(feed[i][j]) = Rank(feed[i][k]) /\ j < k

(* Mutant of Written: INSERT OR REPLACE, which resets is_removed. *)
Replaced(row, u) == IF u.kind = "removed" THEN "removed" ELSE "live"

\* upsertTransaction is INSERT OR IGNORE; markTransactionRemoved is an UPDATE.
Written(row, u) ==
  CASE u.kind # "removed" /\ row = "none" -> "live"
    [] u.kind = "removed" /\ row = "live" -> "removed"
    [] OTHER -> row

-----------------------------------------------------------------------------
Init ==
  /\ feed = [i \in Items |-> <<>>]
  /\ status = [i \in Items |-> "none"]
  /\ cursor = [i \in Items |-> 0]
  /\ retries = [i \in Items |-> 0]
  /\ limited = [i \in Items |-> FALSE]
  /\ rows = [i \in Items |-> [t \in Txns |-> "none"]]
  /\ run \in [Runs -> {Idle(i) : i \in Items}]
  /\ fails = [i \in Items |-> 0]
  /\ refused = {}
  /\ faults = 0

\* runLinkComplete: one database transaction.  For an item that is there
\* already every INSERT OR IGNORE is without effect, whatever its status.
Link(i) ==
  /\ status[i] = "none"
  /\ status' = [status EXCEPT ![i] = "active"]
  /\ UNCHANGED <<feed, cursor, retries, limited, rows, run, fails, refused, faults>>

\* Plaid reports an update: ids are never reused.
Report(i, u) ==
  /\ Len(feed[i]) < MaxFeed
  /\ IF u.kind = "added" THEN ~ Reported(i, u.txn, {"added"}) ELSE Live(i, u.txn)
  /\ feed' = [feed EXCEPT ![i] = Append(@, u)]
  /\ UNCHANGED <<db, run, fails, refused, faults>>

\* The rate limit's reset time passes.
ResetPasses(i) ==
  /\ limited[i]
  /\ limited' = [limited EXCEPT ![i] = FALSE]
  /\ UNCHANGED <<feed, status, cursor, retries, rows, run, fails, refused, faults>>

-----------------------------------------------------------------------------
(* A sync of one item in one tick *)

\* tick: activeItems.
List(r, i) ==
  /\ run[r].at = "idle"
  /\ status[i] = "active"
  /\ run' = [run EXCEPT ![r] = [Idle(i) EXCEPT !.at = "listed"]]
  /\ UNCHANGED <<feed, db, fails, refused, faults>>

\* tick: isDeferred, and then the goroutine or the next item.
Admit(r) ==
  /\ run[r].at = "listed"
  /\ run' = [run EXCEPT ![r].at = IF limited[run[r].item] THEN "idle" ELSE "starting"]
  /\ UNCHANGED <<feed, db, fails, refused, faults>>

\* SyncTransactions: the token was read; so is the stored cursor.
Begin(r) ==
  /\ run[r].at = "starting"
  /\ run' = [run EXCEPT ![r].at = "fetching", ![r].cur = cursor[run[r].item]]
  /\ UNCHANGED <<feed, db, fails, refused, faults>>

\* The Scan of the stored cursor fails: the log is read from its start again.
BeginAnew(r) ==
  /\ run[r].at = "starting"
  /\ Fault
  /\ run' = [run EXCEPT ![r].at = "fetching", ![r].cur = 0]
  /\ UNCHANGED <<feed, db, fails, refused>>

\* SyncTransactions: the vault has no token, or its own credentials failed
\* (infra_auth_failed, which is only counted).
NoToken(r, c) ==
  /\ run[r].at = "starting"
  /\ c \in {"counted", "vendor_auth_required"}
  /\ run' = [run EXCEPT ![r] = Failed(r, c)]
  /\ refused' = IF c = "vendor_auth_required" THEN refused \union {run[r].item}
                                              ELSE refused
  /\ UNCHANGED <<feed, db, fails, faults>>

\* syncPage answers with the updates after the cursor, up to some position.
Fetch(r, upto) ==
  LET i == run[r].item
      c == run[r].cur
  IN /\ run[r].at = "fetching"
     /\ upto \in c .. Len(feed[i])
     /\ upto - c <= PageSize
     /\ upto = c => c = Len(feed[i])
     /\ run' = [run EXCEPT ![r] = [run[r] EXCEPT
                  !.at = "writing", !.upto = upto, !.todo = (c + 1) .. upto,
                  !.more = upto < Len(feed[i]), !.pages = run[r].pages + 1]]
     /\ UNCHANGED <<feed, db, fails, refused, faults>>

\* syncPage fails: mapSyncError and its own writes.
FetchFails(r, c) ==
  LET i == run[r].item
  IN /\ run[r].at = "fetching"
     /\ run' = [run EXCEPT ![r] = Failed(r, c)]
     /\ status' = IF c = "vendor_auth_required"
                  THEN [status EXCEPT ![i] = "login_required"] ELSE status
     /\ limited' = IF c = "vendor_rate_limited"
                   THEN [limited EXCEPT ![i] = TRUE] ELSE limited
     /\ refused' = IF c = "vendor_auth_required" THEN refused \union {i} ELSE refused
     /\ UNCHANGED <<feed, cursor, retries, rows, fails, faults>>

\* The next update of the page, in the order the code writes them.
NextWrite(r, k) ==
  /\ run[r].at = "writing"
  /\ k \in run[r].todo
  /\ \A j \in run[r].todo : ~ Precedes(run[r].item, j, k)

\* One statement.  A row refers to its account in plaid_accounts, which only
\* runLinkComplete fills: one opened later is not there.
Write(r, k) ==
  LET i == run[r].item
      u == feed[i][k]
  IN /\ NextWrite(r, k)
     /\ u.kind = "removed" \/ u.txn \in Linked
     /\ rows' = [rows EXCEPT ![i][u.txn] = Written(rows[i][u.txn], u)]
     /\ run' = [run EXCEPT ![r].todo = @ \ {k}]
     /\ UNCHANGED <<feed, status, cursor, retries, limited, fails, refused, faults>>

\* A statement fails: on the foreign key, or because the database is busy.
WriteFails(r, k) ==
  /\ NextWrite(r, k)
  /\ run' = [run EXCEPT ![r] = Failed(r, "counted")]
  /\ UNCHANGED <<feed, db, fails, refused, faults>>

(* Mutant of PageDone: the cursor moves on before the page is written. *)
PageDoneEarly(r) ==
  /\ run[r].at = "writing"
  /\ run' = [run EXCEPT ![r] =
       IF ~ run[r].more THEN Drained(r)
       ELSE IF run[r].pages = MaxPages THEN Failed(r, "counted")
       ELSE NextPage(r)]
  /\ UNCHANGED <<feed, db, fails, refused, faults>>

\* The page is written: the next page, the end of the drain, or too many pages.
PageDone(r) ==
  /\ run[r].at = "writing"
  /\ run[r].todo = {}
  /\ run' = [run EXCEPT ![r] =
       IF ~ run[r].more THEN Drained(r)
       ELSE IF run[r].pages = MaxPages THEN Failed(r, "counted")
       ELSE NextPage(r)]
  /\ UNCHANGED <<feed, db, fails, refused, faults>>

\* tick: commitCursor, whatever cursor another sync stored meanwhile.
Commit(r) ==
  /\ run[r].at = "committing"
  /\ cursor' = [cursor EXCEPT ![run[r].item] = run[r].cur]
  /\ run' = [run EXCEPT ![r] = Idle(run[r].item)]
  /\ UNCHANGED <<feed, status, retries, limited, rows, fails, refused, faults>>

\* tick drops the error of commitCursor.
CommitFails(r) ==
  /\ run[r].at = "committing"
  /\ Fault
  /\ run' = [run EXCEPT ![r] = Idle(run[r].item)]
  /\ UNCHANGED <<feed, db, fails, refused>>

-----------------------------------------------------------------------------
(* handleSyncError *)

\* Plaid wants the user to log in again: nothing is counted.
HandleAuth(r) ==
  /\ run[r].at = "failing"
  /\ run[r].class = "vendor_auth_required"
  /\ status' = [status EXCEPT ![run[r].item] = "login_required"]
  /\ run' = [run EXCEPT ![r] = Idle(run[r].item)]
  /\ UNCHANGED <<feed, cursor, retries, limited, rows, fails, refused, faults>>

\* SELECT retries.
ReadRetries(r) ==
  /\ run[r].at = "failing"
  /\ run[r].class # "vendor_auth_required"
  /\ run' = [run EXCEPT ![r].at = "counting", ![r].seen = retries[run[r].item]]
  /\ fails' = [fails EXCEPT ![run[r].item] = AtMost(@ + 1)]
  /\ UNCHANGED <<feed, db, refused, faults>>

(* Mutant of Count: the count that was read is stored, not the next one. *)
CountStays(r) ==
  LET i == run[r].item
  IN /\ run[r].at = "counting"
     /\ run[r].seen + 1 < MaxRetries
     /\ retries' = [retries EXCEPT ![i] = run[r].seen]
     /\ limited' = IF run[r].class = "vendor_rate_limited"
                   THEN [limited EXCEPT ![i] = TRUE] ELSE limited
     /\ run' = [run EXCEPT ![r] = Idle(i)]
     /\ UNCHANGED <<feed, status, cursor, rows, fails, refused, faults>>

\* Below the limit: the count is stored; a rate limit defers the item.  (The
\* back-off time stored beside it, next_sync_at, is read by nothing.)
Count(r) ==
  LET i == run[r].item
  IN /\ run[r].at = "counting"
     /\ run[r].seen + 1 < MaxRetries
     /\ retries' = [retries EXCEPT ![i] = run[r].seen + 1]
     /\ limited' = IF run[r].class = "vendor_rate_limited"
                   THEN [limited EXCEPT ![i] = TRUE] ELSE limited
     /\ run' = [run EXCEPT ![r] = Idle(i)]
     /\ UNCHANGED <<feed, status, cursor, rows, fails, refused, faults>>

(* Mutant of GiveUp: the limit compared with the count read, one off. *)
GiveUpEarly(r) ==
  /\ run[r].at = "counting"
  /\ run[r].seen + 1 >= MaxRetries - 1
  /\ status' = [status EXCEPT ![run[r].item] = "error"]
  /\ run' = [run EXCEPT ![r].at = "givingUp"]
  /\ UNCHANGED <<feed, cursor, retries, limited, rows, fails, refused, faults>>

\* At the limit the item leaves the schedule ...
GiveUp(r) ==
  /\ run[r].at = "counting"
  /\ run[r].seen + 1 >= MaxRetries
  /\ status' = [status EXCEPT ![run[r].item] = "error"]
  /\ run' = [run EXCEPT ![r].at = "givingUp"]
  /\ UNCHANGED <<feed, cursor, retries, limited, rows, fails, refused, faults>>

\* ... and a second statement stores the count.
RecordGiveUp(r) ==
  /\ run[r].at = "givingUp"
  /\ retries' = [retries EXCEPT ![run[r].item] = run[r].seen + 1]
  /\ run' = [run EXCEPT ![r] = Idle(run[r].item)]
  /\ UNCHANGED <<feed, status, cursor, limited, rows, fails, refused, faults>>

\* handleSyncError drops the errors of its own statements.  The count is not
\* read, and taken for zero.
RetriesUnread(r) ==
  /\ run[r].at = "failing"
  /\ run[r].class # "vendor_auth_required"
  /\ Fault
  /\ run' = [run EXCEPT ![r].at = "counting", ![r].seen = 0]
  /\ fails' = [fails EXCEPT ![run[r].item] = AtMost(@ + 1)]
  /\ UNCHANGED <<feed, db, refused>>

\* The count is not stored; the rate limit, a statement of its own, is.
CountLost(r) ==
  LET i == run[r].item
  IN /\ run[r].at = "counting"
     /\ run[r].seen + 1 < MaxRetries
     /\ Fault
     /\ limited' = IF run[r].class = "vendor_rate_limited"
                   THEN [limited EXCEPT ![i] = TRUE] ELSE limited
     /\ run' = [run EXCEPT ![r] = Idle(i)]
     /\ UNCHANGED <<feed, status, cursor, retries, rows, fails, refused>>

\* The status "error" is not stored.
GiveUpLost(r) ==
  /\ run[r].at = "counting"
  /\ run[r].seen + 1 >= MaxRetries
  /\ Fault
  /\ run' = [run EXCEPT ![r].at = "givingUp"]
  /\ UNCHANGED <<feed, db, fails, refused>>

\* The status "login_required" or the last count is not stored.
OutcomeLost(r) ==
  /\ \/ run[r].at = "failing" /\ run[r].class = "vendor_auth_required"
     \/ run[r].at = "givingUp"
  /\ Fault
  /\ run' = [run EXCEPT ![r] = Idle(run[r].item)]
  /\ UNCHANGED <<feed, db, fails, refused>>

\* The daemon dies and is started again: every sync under way is gone.
Crash ==
  /\ \E r \in Runs : run[r].at # "idle"
  /\ Fault
  /\ run' = [r \in Runs |-> Idle(run[r].item)]
  /\ UNCHANGED <<feed, db, fails, refused>>

-----------------------------------------------------------------------------
\* The steps of the program once a sync is listed, failures aside.
Work(r) ==
  \/ Admit(r)
  \/ Begin(r)
  \/ \E upto \in Position : Fetch(r, upto)
  \/ \E k \in Position : Write(r, k)
  \/ PageDone(r)
  \/ Commit(r)
  \/ HandleAuth(r)
  \/ ReadRetries(r)
  \/ Count(r)
  \/ GiveUp(r)
  \/ RecordGiveUp(r)

\* What may go wrong in a sync.
Trouble(r) ==
  \/ \E c \in Classes : NoToken(r, c)
  \/ \E c \in Classes : FetchFails(r, c)
  \/ \E k \in Position : WriteFails(r, k)
  \/ BeginAnew(r) \/ CommitFails(r)
  \/ RetriesUnread(r) \/ CountLost(r) \/ GiveUpLost(r) \/ OutcomeLost(r)

Next ==
  \/ \E i \in Items : Link(i) \/ ResetPasses(i)
  \/ \E i \in Items, u \in Updates : Report(i, u)
  \/ \E r \in Runs, i \in Items : List(r, i)
  \/ \E r \in Runs : Work(r) \/ Trouble(r)
  \/ Crash

Spec == Init /\ [][Next]_vars

\* cron keeps firing, goroutines run, calls and statements return (with an
\* answer or with an error), and the rate limit's reset time comes.
FairSpec ==
  /\ Spec
  /\ \A i \in Items : WF_vars(ResetPasses(i))
  /\ \A i \in Items : WF_vars(\E r \in Runs : List(r, i))
  /\ \A r \in Runs : WF_vars(Work(r) \/ Trouble(r))

-----------------------------------------------------------------------------
(* Properties *)

RunType == [at : Places, item : Items, cur : Position, upto : Position,
            todo : SUBSET Position, more : BOOLEAN, pages : Nat,
            class : Classes \union {"none"}, seen : Nat]

(* Every variable has its type. *)
TypeOK ==
  /\ feed \in [Items -> Seq(Updates)]
  /\ \A i \in Items : Len(feed[i]) <= MaxFeed
  /\ status \in [Items -> {"none", "active", "login_required", "error"}]
  /\ cursor \in [Items -> Position]
  /\ retries \in [Items -> Nat]
  /\ limited \in [Items -> BOOLEAN]
  /\ rows \in [Items -> [Txns -> {"none", "live", "removed"}]]
  /\ run \in [Runs -> RunType]
  /\ fails \in [Items -> 0 .. MaxRetries]
  /\ refused \subseteq Items
  /\ faults \in 0 .. MaxFaults

Applied(i, k) ==
  IF feed[i][k].kind = "removed" THEN rows[i][feed[i][k].txn] = "removed"
                                 ELSE rows[i][feed[i][k].txn] # "none"

(* Nothing is skipped: every update up to the stored cursor is in the       *)
(* table, whatever syncs overlapped, failed or were cut short by a crash    *)
(* ("cursor persisted only after a full page drain").                       *)
CommittedIsStored ==
  \A i \in Items :
    /\ cursor[i] <= Len(feed[i])
    /\ \A k \in 1 .. cursor[i] : Applied(i, k)

(* A transaction that was soft-deleted never comes back, although its       *)
(* addition is read again after every failure and by overlapping syncs.     *)
RemovedStaysRemoved ==
  [][\A i \in Items, t \in Txns :
       rows[i][t] = "removed" => rows'[i][t] = "removed"]_vars

(* What a copy of the ledgers promises: see LedgerCopy. *)
Ledger == INSTANCE LedgerCopy WITH log <- feed, copy <- rows, mark <- cursor

(* The tables are a copy of Plaid's logs: a row comes and goes only because *)
(* its update was reported, in this order, and a cursor is stored only when *)
(* all before it is in the table.                                           *)
KeepsCopy == Ledger!Spec

(* An item leaves the schedule for a reason: "error" after MaxRetries       *)
(* failures, "login_required" only when the token or Plaid said so, never   *)
(* because the vault's own credentials failed.                              *)
StatusIsEarned ==
  \A i \in Items :
    /\ status[i] = "error" => fails[i] >= MaxRetries
    /\ status[i] = "login_required" => i \in refused

(* Every item ends up with all that Plaid reported, or out of the schedule. *)
EveryItemSettles ==
  <>[](\A i \in Items : status[i] = "active" => cursor[i] = Len(feed[i]))
=============================================================================
