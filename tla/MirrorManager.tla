--------------------------- MODULE MirrorManager ---------------------------
(***************************************************************************)
(* bmux: the manager of the headless terminals                             *)
(* (cmd/bmux/internal/mirror/manager.go).  One Node subprocess keeps a     *)
(* virtual terminal per pane; the manager writes requests to its stdin,    *)
(* matches the answers on its stdout with the callers that wait, starts a  *)
(* new subprocess when it dies and destroys the panes nobody wrote to.     *)
(*                                                                         *)
(* A generation is one subprocess with its pipes, its reader and its       *)
(* watcher.  Only snapshots wait for an answer, so only theirs are kept;   *)
(* what a terminal shows is abstracted to whether the subprocess has it.   *)
(* The pipes never fill up.  The answer loop of the subprocess             *)
(* (js/xterm-mirror.js) is modelled as far as panes come and go.           *)
(***************************************************************************)
EXTENDS Integers, Sequences

CONSTANTS Calls,      \* calls of the gateway; each happens once
          Panes,      \* tmux panes
          None,       \* no call, no pane
          MaxCrashes  \* bound: deaths of the subprocess

ASSUME MirrorAssumption ==
  /\ MaxCrashes \in Nat
  /\ None \notin Calls \cup Panes
  /\ "stopped" \notin Calls  \* see reader

Gens == 1 .. MaxCrashes + 1

\* Who sends requests: the callers, a pane's idle timer, a watcher.
Timer(p) == <<"timer", p>>
Watcher(g) == <<"watcher", g>>
Actors == Calls \cup {Timer(p) : p \in Panes} \cup {Watcher(g) : g \in Gens}

VARIABLES call,      \* actor -> its call
          panes,     \* m.panes
          armed,     \* panes whose idle timer runs
          closed,    \* m.closed
          stdin,     \* m.stdin: the generation it belongs to
          closer,    \* what Close still has to kill: a generation, or 0
          pending,   \* m.pending
          answers,   \* call -> messages sent to its channel
          watch,     \* generation -> where its watcher is
          rewrite,   \* generation -> panes its watcher has yet to write to
          reader,    \* generation -> the call it is about to answer, if any
          child,     \* the subprocess
          crashes,   \* deaths so far
          destroyed  \* panes somebody ever destroyed (history)

vars == <<call, panes, armed, closed, stdin, closer, pending, answers, watch,
          rewrite, reader, child, crashes, destroyed>>

manager == <<panes, armed, closed, stdin, closer>>
replies == <<pending, answers, reader>>
watchers == <<watch, rewrite>>

-----------------------------------------------------------------------------
NoCall == [op |-> "none", pane |-> None, at |-> "over", gen |-> 0]

Ops == {"write", "snapshot", "resize", "destroy"}

Begun(op, p) == [op |-> op, pane |-> p, at |-> "begun", gen |-> 0]

\* A subprocess that has just been started.
Fresh(g) == [gen |-> g, alive |-> TRUE, terminals |-> {}, in |-> <<>>, out |-> <<>>]

\* A call, a watcher moves on.
Moves(a, from, to) == call[a].at = from /\ call' = [call EXCEPT ![a].at = to]

Goes(g, from, to) == watch[g] = from /\ watch' = [watch EXCEPT ![g] = to]

Dead == [child EXCEPT !.alive = FALSE, !.in = <<>>]

Init ==
  /\ call = [a \in Actors |-> NoCall]
  /\ panes = {}
  /\ armed = {}
  /\ closed = FALSE
  /\ stdin = 1
  /\ closer = 0
  /\ pending = {}
  /\ answers = [c \in Calls |-> 0]
  /\ watch = [g \in Gens |-> IF g = 1 THEN "waiting" ELSE "none"]
  /\ rewrite = [g \in Gens |-> {}]
  /\ reader = [g \in Gens |-> None]
  /\ child = Fresh(1)
  /\ crashes = 0
  /\ destroyed = {}

-----------------------------------------------------------------------------
(* Calls *)

Begin(c, op, p) ==
  /\ call[c] = NoCall
  /\ call' = [call EXCEPT ![c] = Begun(op, p)]
  /\ UNCHANGED <<manager, replies, watchers, child, crashes, destroyed>>

\* Write, under the lock: the pane is there from now on, its timer restarts.
EnterWrite(a) ==
  /\ call[a].op = "write"
  /\ Moves(a, "begun", IF closed THEN "over" ELSE "entered")
  /\ panes' = IF closed THEN panes ELSE panes \cup {call[a].pane}
  /\ armed' = IF closed THEN armed ELSE armed \cup {call[a].pane}
  /\ UNCHANGED <<closed, stdin, closer, replies, watchers, child, crashes, destroyed>>

\* Destroy, under the lock.
EnterDestroy(a) ==
  /\ call[a].op = "destroy"
  /\ Moves(a, "begun", IF call[a].pane \in panes THEN "entered" ELSE "over")
  /\ panes' = panes \ {call[a].pane}
  /\ armed' = armed \ {call[a].pane}
  /\ destroyed' = destroyed \cup {call[a].pane}
  /\ UNCHANGED <<closed, stdin, closer, replies, watchers, child, crashes>>

EnterResize(a) ==
  /\ call[a].op = "resize" /\ Moves(a, "begun", "entered")
  /\ UNCHANGED <<manager, replies, watchers, child, crashes, destroyed>>

\* sendAndWait: the channel is registered before the request is sent.
EnterSnapshot(c) ==
  /\ call[c].op = "snapshot" /\ Moves(c, "begun", "entered")
  /\ pending' = pending \cup {c}
  /\ UNCHANGED <<manager, answers, reader, watchers, child, crashes, destroyed>>

\* sendRequest: the pipe is taken under the lock and written to without it.
TakePipe(a) ==
  /\ call[a].at = "entered"
  /\ call' = [call EXCEPT ![a].at = "sending", ![a].gen = stdin]
  /\ UNCHANGED <<manager, replies, watchers, child, crashes, destroyed>>

PipeIsOpen(a) == child.alive /\ child.gen = call[a].gen

Send(a) ==
  /\ PipeIsOpen(a)
  /\ Moves(a, "sending", IF call[a].op = "snapshot" THEN "waiting" ELSE "over")
  /\ child' = [child EXCEPT !.in =
       Append(@, [op |-> call[a].op, pane |-> call[a].pane, id |-> a])]
  /\ UNCHANGED <<manager, replies, watchers, crashes, destroyed>>

SendFails(a) ==
  /\ Moves(a, "sending", "over")
  /\ ~ PipeIsOpen(a)
  /\ pending' = pending \ {a}
  /\ UNCHANGED <<manager, answers, reader, watchers, child, crashes, destroyed>>

\* sendAndWait: the answer, or the rejection, arrives.
Receive(c) ==
  /\ Moves(c, "waiting", "over")
  /\ answers[c] > 0
  /\ UNCHANGED <<manager, replies, watchers, child, crashes, destroyed>>

(* Mutant of TimeOut: the timeout ends with the manager. *)
TimeOutUntilClosed(c) ==
  /\ Moves(c, "waiting", "over")
  /\ ~ closed
  /\ pending' = pending \ {c}
  /\ UNCHANGED <<manager, answers, reader, watchers, child, crashes, destroyed>>

\* sendAndWait: snapshotTimeout passes first.
TimeOut(c) ==
  /\ Moves(c, "waiting", "over")
  /\ pending' = pending \ {c}
  /\ UNCHANGED <<manager, answers, reader, watchers, child, crashes, destroyed>>

\* The idle timer of a pane fires: Destroy, in a goroutine of its own.
\* Bound: one such goroutine per pane.
TimerFires(p) ==
  /\ p \in armed
  /\ call[Timer(p)].at = "over"
  /\ armed' = armed \ {p}
  /\ call' = [call EXCEPT ![Timer(p)] = Begun("destroy", p)]
  /\ UNCHANGED <<panes, closed, stdin, closer, replies, watchers, child, crashes, destroyed>>

\* Close, under the lock ...
Close ==
  /\ ~ closed /\ closed' = TRUE
  /\ closer' = stdin
  /\ armed' = {}
  /\ UNCHANGED <<call, panes, stdin, replies, watchers, child, crashes, destroyed>>

\* ... and after it: the pipe it saw is closed and its subprocess killed.
CloseKills ==
  /\ closer # 0 /\ closer' = 0
  /\ child' = IF child.gen = closer THEN Dead ELSE child
  /\ UNCHANGED <<call, panes, armed, closed, stdin, replies, watchers, crashes, destroyed>>

-----------------------------------------------------------------------------
(* The subprocess *)

Crash ==
  /\ child.alive
  /\ crashes < MaxCrashes
  /\ crashes' = crashes + 1
  /\ child' = Dead
  /\ UNCHANGED <<call, manager, replies, watchers, destroyed>>

Terminals(q) ==
  CASE q.op = "write" -> child.terminals \cup {q.pane}
    [] q.op = "destroy" -> child.terminals \ {q.pane}
    [] OTHER -> child.terminals

Handle ==
  /\ child.alive
  /\ child.in # <<>>
  /\ LET q == Head(child.in)
     IN child' = [child EXCEPT
          !.in = Tail(@),
          !.terminals = Terminals(q),
          !.out = IF q.op = "snapshot" THEN Append(@, q.id) ELSE @]
  /\ UNCHANGED <<call, manager, replies, watchers, crashes, destroyed>>

-----------------------------------------------------------------------------
(* readResponses *)

(* Mutant of TakeChannel: the channel stays registered until it is served. *)
TakeChannelOnly(g) ==
  /\ reader[g] = None
  /\ child.gen = g /\ stdin >= g
  /\ child.out # <<>>
  /\ LET c == Head(child.out)
     IN reader' = [reader EXCEPT ![g] = IF c \in pending THEN c ELSE None]
  /\ child' = [child EXCEPT !.out = Tail(@)]
  /\ UNCHANGED <<call, manager, pending, answers, watchers, crashes, destroyed>>

\* The channel is taken under the lock ...
TakeChannel(g) ==
  /\ reader[g] = None
  /\ child.gen = g /\ stdin >= g
  /\ child.out # <<>>
  /\ LET c == Head(child.out)
     IN /\ reader' = [reader EXCEPT ![g] = IF c \in pending THEN c ELSE None]
        /\ pending' = pending \ {c}
  /\ child' = [child EXCEPT !.out = Tail(@)]
  /\ UNCHANGED <<call, manager, answers, watchers, crashes, destroyed>>

\* ... and served without it.
Answer(g) ==
  /\ reader[g] \in Calls
  /\ answers' = [answers EXCEPT ![reader[g]] = @ + 1]
  /\ reader' = [reader EXCEPT ![g] = None]
  /\ UNCHANGED <<call, manager, pending, watchers, child, crashes, destroyed>>

\* A line longer than the scanner's buffer ends the reader; the subprocess and
\* its watcher notice nothing.
ReaderStops(g) ==
  /\ reader[g] = None
  /\ child.gen = g /\ stdin >= g
  /\ child.out # <<>>
  /\ reader' = [reader EXCEPT ![g] = "stopped"]
  /\ child' = [child EXCEPT !.out = Tail(@)]
  /\ UNCHANGED <<call, manager, pending, answers, watchers, crashes, destroyed>>

-----------------------------------------------------------------------------
(* watchSubprocess *)

\* cmd.Wait returns, which closes the subprocess's stdout.
Reaped(g) == child.gen = g /\ ~ child.alive

WatchEnds(g) ==
  /\ Reaped(g) /\ closed
  /\ Goes(g, "waiting", "over")
  /\ child' = [child EXCEPT !.out = <<>>]
  /\ UNCHANGED <<call, manager, replies, rewrite, crashes, destroyed>>

WatchCrash(g) ==
  /\ Reaped(g) /\ ~ closed
  /\ Goes(g, "waiting", "rejecting")
  /\ child' = [child EXCEPT !.out = <<>>]
  /\ UNCHANGED <<call, manager, replies, rewrite, crashes, destroyed>>

(* Mutant of Reject: the pending requests are forgotten. *)
RejectForgets(g) ==
  /\ Goes(g, "rejecting", "restarting")
  /\ pending' = {}
  /\ UNCHANGED <<call, manager, answers, reader, rewrite, child, crashes, destroyed>>

\* Every pending request is rejected, under the lock of the pending ones.
Reject(g) ==
  /\ Goes(g, "rejecting", "restarting")
  /\ answers' = [c \in Calls |-> IF c \in pending THEN answers[c] + 1 ELSE answers[c]]
  /\ pending' = {}
  /\ UNCHANGED <<call, manager, reader, rewrite, child, crashes, destroyed>>

\* start fails: nobody tries again.
StartFails(g) ==
  /\ Goes(g, "restarting", "gaveUp")
  /\ UNCHANGED <<call, manager, replies, rewrite, child, crashes, destroyed>>

\* start: the process is started, whether or not the manager was closed ...
Start(g) ==
  /\ Goes(g, "restarting", "adopting")
  /\ child' = Fresh(g + 1)
  /\ UNCHANGED <<call, manager, replies, rewrite, crashes, destroyed>>

\* ... and adopted, with a reader and a watcher of its own.
Adopt(g) ==
  /\ watch[g] = "adopting"
  /\ stdin' = g + 1
  /\ watch' = [watch EXCEPT ![g] = "copying", ![g + 1] = "waiting"]
  /\ UNCHANGED <<call, panes, armed, closed, closer, replies, rewrite, child, crashes, destroyed>>

(* Mutant of Copy: only the panes the new subprocess knows are written to. *)
CopyKnown(g) ==
  /\ Goes(g, "copying", "rewriting")
  /\ rewrite' = [rewrite EXCEPT ![g] = panes \cap child.terminals]
  /\ UNCHANGED <<call, manager, replies, child, crashes, destroyed>>

\* The panes to initialise again are copied under the lock ...
Copy(g) ==
  /\ Goes(g, "copying", "rewriting")
  /\ rewrite' = [rewrite EXCEPT ![g] = panes]
  /\ UNCHANGED <<call, manager, replies, child, crashes, destroyed>>

\* ... and written to, one by one, without it.
Rewrite(g, p) ==
  /\ watch[g] = "rewriting"
  /\ p \in rewrite[g]
  /\ call[Watcher(g)].at = "over"
  /\ call' = [call EXCEPT ![Watcher(g)] = Begun("write", p)]
  /\ rewrite' = [rewrite EXCEPT ![g] = @ \ {p}]
  /\ UNCHANGED <<manager, replies, watch, child, crashes, destroyed>>

-----------------------------------------------------------------------------
\* The steps of a call once it has begun.
Step(a) ==
  \/ EnterWrite(a) \/ EnterDestroy(a) \/ EnterResize(a)
  \/ TakePipe(a) \/ Send(a) \/ SendFails(a)

Wait(c) == EnterSnapshot(c) \/ Receive(c) \/ TimeOut(c)

Read(g) == TakeChannel(g) \/ ReaderStops(g) \/ Answer(g)

Watch(g) ==
  \/ WatchEnds(g) \/ WatchCrash(g) \/ Reject(g) \/ StartFails(g) \/ Start(g)
  \/ Adopt(g) \/ Copy(g) \/ \E p \in Panes : Rewrite(g, p)

Next ==
  \/ \E c \in Calls, op \in Ops, p \in Panes : Begin(c, op, p)
  \/ \E a \in Actors : Step(a)
  \/ \E c \in Calls : Wait(c)
  \/ \E p \in Panes : TimerFires(p)
  \/ Close \/ CloseKills \/ Crash \/ Handle
  \/ \E g \in Gens : Read(g) \/ Watch(g)

Spec == Init /\ [][Next]_vars

\* Goroutines run, locks and pipes are served, the 500 ms of a snapshot pass,
\* and the subprocess reads its requests.
FairSpec ==
  /\ Spec
  /\ \A a \in Actors : WF_vars(Step(a))
  /\ \A c \in Calls : WF_vars(Wait(c))
  /\ WF_vars(CloseKills)
  /\ WF_vars(Handle)
  /\ \A g \in Gens : WF_vars(Read(g)) /\ WF_vars(Watch(g))

-----------------------------------------------------------------------------
(* Properties *)

(* Every variable has its type. *)
TypeOK ==
  /\ call \in [Actors -> [op : Ops \cup {"none"}, pane : Panes \cup {None},
                at : {"over", "begun", "entered", "sending", "waiting"},
                gen : Gens \cup {0}]]
  /\ panes \subseteq Panes
  /\ armed \subseteq panes
  /\ closed \in BOOLEAN
  /\ stdin \in Gens
  /\ closer \in Gens \cup {0}
  /\ pending \subseteq Calls
  /\ answers \in [Calls -> Nat]
  /\ watch \in [Gens -> {"none", "waiting", "over", "rejecting", "restarting",
                         "gaveUp", "adopting", "copying", "rewriting"}]
  /\ rewrite \in [Gens -> SUBSET Panes]
  /\ reader \in [Gens -> Calls \cup {None, "stopped"}]
  /\ child.gen \in Gens
  /\ child.alive \in BOOLEAN
  /\ child.terminals \subseteq Panes
  /\ crashes \in 0 .. MaxCrashes
  /\ destroyed \subseteq Panes

(* A request is settled once: its channel holds one message, and neither   *)
(* the reader nor the watcher, who sends under the lock, ever blocks on it *)
(* or sends to a caller that has gone (who is then off the books).         *)
SettledOnce ==
  \A c \in Calls :
    /\ answers[c] <= 1
    /\ c \in pending => /\ answers[c] = 0
                        /\ \A g \in Gens : reader[g] # c
                        /\ call[c].at \in {"entered", "sending", "waiting"}

(* Until its timeout, somebody still has the channel of a waiting caller:  *)
(* no answer and no crash is lost between the reader and the watcher.      *)
WaitersAreKnown ==
  \A c \in Calls :
    call[c].at = "waiting" =>
      c \in pending \/ answers[c] = 1 \/ \E g \in Gens : reader[g] = c

(* Every call returns, whatever dies meanwhile. *)
EveryCallReturns == <>[](\A a \in Actors : call[a].at = "over")

Stopped == closed \/ \E g \in Gens : watch[g] = "gaveUp"

(* After a crash the new subprocess ends up with every pane that is active  *)
(* and that nobody ever destroyed, those written to during the restart      *)
(* included.                                                                *)
RestartRestoresPanes ==
  <>[](Stopped \/ panes \ destroyed \subseteq child.terminals)
=============================================================================
