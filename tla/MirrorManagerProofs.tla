------------------------ MODULE MirrorManagerProofs ------------------------
(***************************************************************************)
(* Proofs about MirrorManager: its types, that a request is settled once,  *)
(* and that a caller that waits is never forgotten.                        *)
(*                                                                         *)
(* The channel of a snapshot is in one of four hands: not yet made, in     *)
(* m.pending, with a reader that is about to answer, or settled. CallInv   *)
(* says that these exclude each other, and that an open snapshot is in     *)
(* one of the last three. CrashesCover says that a generation follows a    *)
(* death, which keeps the generations within their bound.                  *)
(***************************************************************************)
EXTENDS MirrorManager, TLAPS

CallType == [op : Ops \cup {"none"}, pane : Panes \cup {None},
             at : {"over", "begun", "entered", "sending", "waiting"},
             gen : Gens \cup {0}]

(* A request in the subprocess's stdin: only snapshots are ever answered.  *)
Request == {q \in [op : Ops, pane : Panes, id : Actors] :
              q.op = "snapshot" => q.id \in Calls}

ChildType == [gen : Gens, alive : BOOLEAN, terminals : SUBSET Panes,
              in : Seq(Request), out : Seq(Calls)]

(* Only the gateway takes snapshots, only they wait, and only who is idle  *)
(* names no pane.                                                          *)
ActorsOK ==
  \A a \in Actors :
    /\ call[a].op = "snapshot" => a \in Calls
    /\ call[a].at = "waiting" => call[a].op = "snapshot"
    /\ call[a].op = "none" => call[a].at = "over"
    /\ call[a].op # "none" => call[a].pane \in Panes

Unused(c) == \/ call[c].op = "none"
             \/ call[c].op = "snapshot" /\ call[c].at = "begun"

Open(c) == /\ call[c].op = "snapshot"
           /\ call[c].at \in {"entered", "sending", "waiting"}

CallOK(c) ==
  /\ Unused(c) => answers[c] = 0 /\ c \notin pending /\ \A g \in Gens : reader[g] # c
  /\ c \in pending => Open(c) /\ answers[c] = 0 /\ \A g \in Gens : reader[g] # c
  /\ \A g \in Gens : reader[g] = c =>
       answers[c] = 0 /\ \A h \in Gens : reader[h] = c => h = g
  /\ Open(c) => c \in pending \/ answers[c] = 1 \/ \E g \in Gens : reader[g] = c
  /\ answers[c] <= 1

CallInv == \A c \in Calls : CallOK(c)

(* A subprocess dies of a crash until Close kills it.                      *)
CrashesCover ==
  /\ closer # 0 => closed
  /\ child.gen <= crashes + 1
  /\ ~ closed /\ ~ child.alive => child.gen <= crashes
  /\ \A g \in Gens :
       watch[g] \in {"rejecting", "restarting", "adopting"} => g <= crashes

TypeInv == TypeOK /\ child \in ChildType /\ ActorsOK /\ CrashesCover

Inv == TypeInv /\ CallInv

-----------------------------------------------------------------------------
(* Types.                                                                  *)

LEMMA GensNat ==
  /\ Gens \subseteq Nat /\ 0 \notin Gens /\ 1 \in Gens
  /\ \A g \in Gens, n \in 0 .. MaxCrashes : g <= n => g + 1 \in Gens
BY MirrorAssumption DEF Gens

LEMMA InitType == Init => TypeInv
<1>. SUFFICES ASSUME Init PROVE TypeInv
  OBVIOUS
<1>1. NoCall \in CallType
  BY DEF NoCall, CallType
<1>2. <<>> \in Seq(Request) /\ <<>> \in Seq(Calls)
  OBVIOUS
<1>3. child \in ChildType
  BY <1>2, GensNat DEF Init, Fresh, ChildType
<1>4. TypeOK
  <2>1. call \in [Actors -> CallType]
    BY <1>1 DEF Init
  <2>2. child.gen \in Gens /\ child.alive \in BOOLEAN /\ child.terminals \subseteq Panes
    BY <1>3 DEF ChildType
  <2>3. crashes \in 0 .. MaxCrashes
    BY MirrorAssumption DEF Init
  <2>4. QED
    BY <2>1, <2>2, <2>3, GensNat DEF Init, TypeOK, CallType
<1>5. ActorsOK
  BY DEF Init, ActorsOK, NoCall
<1>6. CrashesCover
  BY GensNat DEF Init, CrashesCover, Fresh
<1>7. QED
  BY <1>3, <1>4, <1>5, <1>6 DEF TypeInv

(* A call moves on; nothing else of it changes.                            *)
LEMMA MovesType ==
  ASSUME call \in [Actors -> CallType], NEW a \in Actors, NEW from,
         NEW to \in {"over", "begun", "entered", "sending", "waiting"},
         Moves(a, from, to)
  PROVE  /\ call' \in [Actors -> CallType]
         /\ call'[a].at = to /\ call'[a].op = call[a].op
         /\ call'[a].pane = call[a].pane
         /\ \A b \in Actors \ {a} : call'[b] = call[b]
<1>1. call' = [call EXCEPT ![a].at = to] /\ call[a] \in CallType
  BY DEF Moves
<1>2. call'[a] = [call[a] EXCEPT !.at = to]
  BY <1>1
<1>3. call'[a] \in CallType /\ call'[a].at = to /\ call'[a].op = call[a].op
      /\ call'[a].pane = call[a].pane
  BY <1>1, <1>2 DEF CallType
<1>4. \A b \in Actors \ {a} : call'[b] = call[b]
  BY <1>1
<1>5. QED
  BY <1>1, <1>3, <1>4

(* An actor begins a call.                                                 *)
LEMMA BegunType ==
  ASSUME call \in [Actors -> CallType], NEW a \in Actors, NEW op \in Ops,
         NEW p \in Panes, call' = [call EXCEPT ![a] = Begun(op, p)]
  PROVE  /\ call' \in [Actors -> CallType]
         /\ call'[a].at = "begun" /\ call'[a].op = op /\ call'[a].pane = p
         /\ \A b \in Actors \ {a} : call'[b] = call[b]
<1>1. Begun(op, p) \in CallType
  BY DEF Begun, CallType
<1>2. QED
  BY <1>1 DEF Begun

LEMMA NoneIsNoOp == "none" \notin Ops
BY DEF Ops

LEMMA BeginType ==
  ASSUME TypeInv, NEW c \in Calls, NEW op \in Ops, NEW p \in Panes, Begin(c, op, p)
  PROVE  TypeInv'
<1>1. c \in Actors /\ call \in [Actors -> CallType]
  BY DEF Actors, TypeInv, TypeOK, CallType
<1>2. /\ call' \in [Actors -> CallType]
      /\ call'[c].at = "begun" /\ call'[c].op = op /\ call'[c].pane = p
      /\ \A b \in Actors \ {c} : call'[b] = call[b]
  BY <1>1, BegunType DEF Begin
<1>3. ActorsOK'
  BY <1>2, NoneIsNoOp DEF TypeInv, ActorsOK
<1>4. QED
  BY <1>2, <1>3 DEF TypeInv, TypeOK, CallType, CrashesCover, Begin, manager, replies,
     watchers

LEMMA EnterType ==
  ASSUME TypeInv, NEW a \in Actors, EnterWrite(a) \/ EnterDestroy(a) \/ EnterResize(a)
  PROVE  TypeInv'
<1>1. call \in [Actors -> CallType]
  BY DEF TypeInv, TypeOK, CallType
<1>2. PICK to \in {"over", "entered"} : Moves(a, "begun", to)
  BY DEF EnterWrite, EnterDestroy, EnterResize
<1>3. /\ call' \in [Actors -> CallType]
      /\ call'[a].at = to /\ call'[a].op = call[a].op
      /\ call'[a].pane = call[a].pane
      /\ \A b \in Actors \ {a} : call'[b] = call[b]
  BY <1>1, <1>2, MovesType
<1>4. call[a].op # "none" /\ call[a].pane \in Panes
  BY <1>2 DEF TypeInv, ActorsOK, EnterWrite, EnterDestroy, EnterResize
<1>5. ActorsOK'
  BY <1>3, <1>4 DEF TypeInv, ActorsOK
<1>6. panes' \subseteq Panes /\ armed' \subseteq panes' /\ destroyed' \subseteq Panes
  BY <1>4 DEF TypeInv, TypeOK, EnterWrite, EnterDestroy, EnterResize, manager
<1>7. UNCHANGED <<closed, stdin, closer, replies, watchers, child, crashes>>
  BY DEF EnterWrite, EnterDestroy, EnterResize, manager
<1>8. QED
  BY <1>3, <1>5, <1>6, <1>7 DEF TypeInv, TypeOK, CallType, CrashesCover, replies,
     watchers

LEMMA SnapshotType ==
  ASSUME TypeInv, NEW c \in Calls, EnterSnapshot(c) \/ Receive(c) \/ TimeOut(c)
  PROVE  TypeInv'
<1>1. call \in [Actors -> CallType] /\ c \in Actors
  BY DEF TypeInv, TypeOK, CallType, Actors
<1>2. PICK from \in {"begun", "waiting"}, to \in {"over", "entered"} : Moves(c, from, to)
  BY DEF EnterSnapshot, Receive, TimeOut
<1>3. /\ call' \in [Actors -> CallType]
      /\ call'[c].at = to /\ call'[c].op = call[c].op
      /\ call'[c].pane = call[c].pane
      /\ \A b \in Actors \ {c} : call'[b] = call[b]
  BY <1>1, <1>2, MovesType
<1>4. call[c].op # "none"
  BY <1>1, <1>2 DEF TypeInv, ActorsOK, Moves
<1>5. ActorsOK'
  BY <1>3, <1>4 DEF TypeInv, ActorsOK
<1>6. pending' \subseteq Calls
  BY DEF TypeInv, TypeOK, EnterSnapshot, Receive, TimeOut, replies
<1>7. UNCHANGED <<manager, answers, reader, watchers, child, crashes, destroyed>>
  BY DEF EnterSnapshot, Receive, TimeOut, replies
<1>8. QED
  BY <1>3, <1>5, <1>6, <1>7 DEF TypeInv, TypeOK, CallType, CrashesCover, manager,
     watchers

LEMMA PipeType ==
  ASSUME TypeInv, NEW a \in Actors, TakePipe(a)
  PROVE  TypeInv'
<1>1. call \in [Actors -> CallType] /\ call[a] \in CallType
  BY DEF TypeInv, TypeOK, CallType
<1>. DEFINE sending == [call[a] EXCEPT !.at = "sending", !.gen = stdin]
<1>2. call' = [call EXCEPT ![a] = sending]
  BY DEF TakePipe
<1>3. /\ sending \in CallType /\ sending.at = "sending"
      /\ sending.op = call[a].op /\ sending.pane = call[a].pane
  BY <1>1 DEF TypeInv, TypeOK, CallType
<1>. HIDE DEF sending
<1>4. /\ call' \in [Actors -> CallType] /\ call'[a] = sending
      /\ \A b \in Actors \ {a} : call'[b] = call[b]
  BY <1>1, <1>2, <1>3
<1>5. call[a].op # "none"
  BY DEF TypeInv, ActorsOK, TakePipe
<1>6. ActorsOK'
  BY <1>3, <1>4, <1>5 DEF TypeInv, ActorsOK
<1>7. QED
  BY <1>4, <1>6 DEF TypeInv, TypeOK, CallType, CrashesCover, TakePipe, manager,
     replies, watchers

LEMMA SendType ==
  ASSUME TypeInv, NEW a \in Actors, Send(a)
  PROVE  TypeInv'
<1>1. call \in [Actors -> CallType] /\ call[a] \in CallType
  BY DEF TypeInv, TypeOK, CallType
<1>2. PICK to \in {"waiting", "over"} :
        /\ Moves(a, "sending", to)
        /\ to = "waiting" => call[a].op = "snapshot"
  BY DEF Send
<1>3. /\ call' \in [Actors -> CallType]
      /\ call'[a].at = to /\ call'[a].op = call[a].op
      /\ call'[a].pane = call[a].pane
      /\ \A b \in Actors \ {a} : call'[b] = call[b]
  BY <1>1, <1>2, MovesType
<1>4. call[a].op # "none" /\ call[a].pane \in Panes
      /\ (call[a].op = "snapshot" => a \in Calls)
  BY <1>2 DEF TypeInv, ActorsOK, Moves
<1>5. ActorsOK'
  BY <1>2, <1>3, <1>4 DEF TypeInv, ActorsOK
<1>. DEFINE q == [op |-> call[a].op, pane |-> call[a].pane, id |-> a]
<1>6. q \in Request
  BY <1>1, <1>4 DEF Request, CallType
<1>7. child' = [child EXCEPT !.in = Append(child.in, q)]
  BY DEF Send
<1>8. /\ child' \in ChildType /\ child'.gen = child.gen /\ child'.alive = child.alive
      /\ child'.terminals = child.terminals
  <2>. HIDE DEF q
  <2>1. child \in ChildType
    BY DEF TypeInv
  <2>2. Append(child.in, q) \in Seq(Request)
    <3>1. child.in \in Seq(Request)
      BY <2>1 DEF ChildType
    <3>. HIDE DEF Request
    <3>2. QED
      BY <1>6, <3>1
  <2>3. QED
    BY <1>7, <2>1, <2>2 DEF ChildType
<1>9. QED
  BY <1>3, <1>5, <1>8 DEF TypeInv, TypeOK, CallType, CrashesCover, Send, manager,
     replies, watchers

LEMMA SendFailsType ==
  ASSUME TypeInv, NEW a \in Actors, SendFails(a)
  PROVE  TypeInv'
<1>1. call \in [Actors -> CallType]
  BY DEF TypeInv, TypeOK, CallType
<1>2. /\ call' \in [Actors -> CallType]
      /\ call'[a].at = "over" /\ call'[a].op = call[a].op
      /\ call'[a].pane = call[a].pane
      /\ \A b \in Actors \ {a} : call'[b] = call[b]
  BY <1>1, MovesType DEF SendFails
<1>3. ActorsOK'
  BY <1>2 DEF TypeInv, ActorsOK
<1>4. pending' \subseteq Calls
  BY DEF TypeInv, TypeOK, SendFails
<1>5. QED
  BY <1>2, <1>3, <1>4 DEF TypeInv, TypeOK, CallType, CrashesCover, SendFails, manager,
     watchers

LEMMA TimerType ==
  ASSUME TypeInv, NEW p \in Panes, TimerFires(p)
  PROVE  TypeInv'
<1>1. call \in [Actors -> CallType] /\ Timer(p) \in Actors /\ "destroy" \in Ops
  BY DEF TypeInv, TypeOK, CallType, Actors, Ops
<1>2. /\ call' \in [Actors -> CallType]
      /\ call'[Timer(p)].at = "begun" /\ call'[Timer(p)].op = "destroy"
      /\ call'[Timer(p)].pane = p
      /\ \A b \in Actors \ {Timer(p)} : call'[b] = call[b]
  BY <1>1, BegunType DEF TimerFires
<1>3. ActorsOK'
  BY <1>2 DEF TypeInv, ActorsOK
<1>4. QED
  BY <1>2, <1>3 DEF TypeInv, TypeOK, CallType, CrashesCover, TimerFires, replies,
     watchers

LEMMA RewriteType ==
  ASSUME TypeInv, NEW g \in Gens, NEW p \in Panes, Rewrite(g, p)
  PROVE  TypeInv'
<1>1. call \in [Actors -> CallType] /\ Watcher(g) \in Actors /\ "write" \in Ops
  BY DEF TypeInv, TypeOK, CallType, Actors, Ops
<1>2. /\ call' \in [Actors -> CallType]
      /\ call'[Watcher(g)].at = "begun" /\ call'[Watcher(g)].op = "write"
      /\ call'[Watcher(g)].pane = p
      /\ \A b \in Actors \ {Watcher(g)} : call'[b] = call[b]
  BY <1>1, BegunType DEF Rewrite
<1>3. ActorsOK'
  BY <1>2 DEF TypeInv, ActorsOK
<1>4. rewrite' \in [Gens -> SUBSET Panes]
  BY DEF TypeInv, TypeOK, Rewrite
<1>5. QED
  BY <1>2, <1>3, <1>4 DEF TypeInv, TypeOK, CallType, CrashesCover, Rewrite, manager,
     replies

(* Close, and what it leaves to kill.                                      *)
LEMMA DeadType ==
  ASSUME child \in ChildType
  PROVE  Dead \in ChildType /\ Dead.gen = child.gen /\ Dead.alive = FALSE
<1>1. <<>> \in Seq(Request)
  OBVIOUS
<1>2. QED
  BY <1>1 DEF Dead, ChildType

LEMMA EndType ==
  ASSUME TypeInv, Close \/ CloseKills \/ Crash
  PROVE  TypeInv'
<1>0. child \in ChildType /\ child.gen \in Nat /\ crashes \in Nat
  <2>1. child \in ChildType /\ child.gen \in Gens /\ crashes \in 0 .. MaxCrashes
    BY DEF TypeInv, TypeOK
  <2>2. child.gen \in Nat
    BY <2>1, GensNat
  <2>3. crashes \in Nat
    BY <2>1, MirrorAssumption
  <2>4. QED
    BY <2>1, <2>2, <2>3
<1>1. CASE Close
  BY <1>1 DEF TypeInv, TypeOK, ActorsOK, CrashesCover, Close, replies, watchers
<1>2. CASE CloseKills
  <2>1. /\ child' \in ChildType /\ child'.gen = child.gen /\ closed' = closed /\ closed
        /\ closer' = 0 /\ crashes' = crashes
    BY <1>0, <1>2, DeadType DEF CloseKills, TypeInv, CrashesCover
  <2>2. CrashesCover'
    BY <1>2, <2>1 DEF TypeInv, CrashesCover, CloseKills, watchers
  <2>3. /\ child'.gen \in Gens /\ child'.alive \in BOOLEAN /\ child'.terminals \subseteq Panes
    BY <2>1 DEF ChildType
  <2>4. QED
    BY <1>2, <2>1, <2>2, <2>3 DEF TypeInv, TypeOK, ActorsOK, CloseKills, replies, watchers
<1>3. CASE Crash
  <2>1. /\ child' \in ChildType /\ child'.gen = child.gen /\ closed' = closed
        /\ closer' = closer /\ crashes' = crashes + 1
    BY <1>0, <1>3, DeadType DEF Crash, manager
  <2>2. crashes' \in 0 .. MaxCrashes
    BY <1>0, <1>3, MirrorAssumption DEF Crash
  <2>3. CrashesCover'
    <3>1. \A g \in Gens : g \in Nat
      BY GensNat
    <3>2. QED
      BY <1>0, <1>3, <2>1, <3>1 DEF TypeInv, CrashesCover, Crash, watchers
  <2>4. /\ child'.gen \in Gens /\ child'.alive \in BOOLEAN /\ child'.terminals \subseteq Panes
    BY <2>1 DEF ChildType
  <2>5. QED
    BY <1>3, <2>1, <2>2, <2>3, <2>4 DEF TypeInv, TypeOK, ActorsOK, Crash, manager,
       replies, watchers
<1>4. QED
  BY <1>1, <1>2, <1>3

LEMMA HandleType ==
  ASSUME TypeInv, Handle
  PROVE  TypeInv'
<1>. DEFINE q == Head(child.in)
<1>1. /\ child \in ChildType /\ child.in \in Seq(Request) /\ child.out \in Seq(Calls)
      /\ child.in # <<>>
  BY DEF TypeInv, ChildType, Handle
<1>2. q \in Request /\ Tail(child.in) \in Seq(Request)
  <2>. HIDE DEF Request
  <2>1. QED
    BY <1>1
<1>3. Terminals(q) \subseteq Panes
  BY <1>1, <1>2 DEF Request, Terminals, ChildType
<1>. DEFINE out == IF q.op = "snapshot" THEN Append(child.out, q.id) ELSE child.out
<1>4. out \in Seq(Calls)
  BY <1>1, <1>2 DEF Request
<1>5. child' = [child EXCEPT !.in = Tail(child.in), !.terminals = Terminals(q),
                             !.out = out]
  BY DEF Handle
<1>. HIDE DEF out, q
<1>6. /\ child' \in ChildType /\ child'.gen = child.gen /\ child'.alive = child.alive
      /\ child'.terminals \subseteq Panes
  BY <1>1, <1>2, <1>3, <1>4, <1>5 DEF ChildType
<1>7. QED
  BY <1>6 DEF TypeInv, TypeOK, ActorsOK, CrashesCover, Handle, manager, replies,
     watchers

LEMMA ReadType ==
  ASSUME TypeInv, NEW g \in Gens, Read(g)
  PROVE  TypeInv'
<1>1. /\ child \in ChildType /\ child.out \in Seq(Calls)
  BY DEF TypeInv, ChildType
<1>2. CASE TakeChannel(g) \/ ReaderStops(g)
  <2>1. child' = [child EXCEPT !.out = Tail(child.out)] /\ child.out # <<>>
    BY <1>2 DEF TakeChannel, ReaderStops
  <2>2. /\ child' \in ChildType /\ child'.gen = child.gen /\ child'.alive = child.alive
        /\ child'.terminals = child.terminals
    <3>1. Tail(child.out) \in Seq(Calls)
      BY <1>1, <2>1
    <3>2. QED
      BY <1>1, <2>1, <3>1 DEF ChildType
  <2>3. Head(child.out) \in Calls
    BY <1>1, <2>1
  <2>4. /\ reader' \in [Gens -> Calls \cup {None, "stopped"}] /\ pending' \subseteq Calls
        /\ answers' \in [Calls -> Nat]
    BY <1>2, <2>3 DEF TypeInv, TypeOK, TakeChannel, ReaderStops
  <2>5. UNCHANGED <<call, manager, watchers, crashes, destroyed>>
    BY <1>2 DEF TakeChannel, ReaderStops
  <2>6. QED
    BY <2>2, <2>4, <2>5 DEF TypeInv, TypeOK, ActorsOK, CrashesCover, manager, watchers
<1>3. CASE Answer(g)
  BY <1>3 DEF TypeInv, TypeOK, ActorsOK, CrashesCover, Answer, manager, watchers
<1>4. QED
  BY <1>2, <1>3 DEF Read

LEMMA WatchType ==
  ASSUME TypeInv, NEW g \in Gens, Watch(g)
  PROVE  TypeInv'
<1>0. /\ child \in ChildType /\ child.gen \in Nat /\ crashes \in 0 .. MaxCrashes
      /\ g \in Nat /\ watch \in [Gens -> {"none", "waiting", "over", "rejecting", "restarting",
                         "gaveUp", "adopting", "copying", "rewriting"}]
  BY GensNat DEF TypeInv, TypeOK
<1>1. CASE WatchEnds(g) \/ WatchCrash(g)
  <2>1. child' = [child EXCEPT !.out = <<>>] /\ <<>> \in Seq(Calls)
    BY <1>1 DEF WatchEnds, WatchCrash
  <2>2. /\ child' \in ChildType /\ child'.gen = child.gen /\ child'.alive = child.alive
        /\ child'.terminals = child.terminals
    BY <1>0, <2>1 DEF ChildType
  <2>3. \A h \in Gens : /\ watch'[h] \in {"none", "waiting", "over", "rejecting", "restarting",
                         "gaveUp", "adopting", "copying", "rewriting"}
                        /\ watch'[h] \in {"rejecting", "restarting", "adopting"} => h <= crashes
    BY <1>0, <1>1 DEF TypeInv, CrashesCover, WatchEnds, WatchCrash, Goes, Reaped
  <2>4. watch' \in [Gens -> {"none", "waiting", "over", "rejecting", "restarting",
                         "gaveUp", "adopting", "copying", "rewriting"}]
    BY <1>0, <1>1 DEF WatchEnds, WatchCrash, Goes
  <2>5. UNCHANGED <<call, manager, replies, rewrite, crashes, destroyed>>
    BY <1>1 DEF WatchEnds, WatchCrash
  <2>6. QED
    BY <2>2, <2>3, <2>4, <2>5 DEF TypeInv, TypeOK, ActorsOK, CrashesCover, manager, replies
<1>2. CASE Reject(g)
  BY <1>2 DEF TypeInv, TypeOK, ActorsOK, CrashesCover, Reject, Goes, manager
<1>3. CASE StartFails(g)
  BY <1>3 DEF TypeInv, TypeOK, ActorsOK, CrashesCover, StartFails, Goes, manager, replies
<1>4. CASE Start(g)
  <2>1. g <= crashes /\ g + 1 \in Gens
    BY <1>0, <1>4, GensNat DEF TypeInv, CrashesCover, Start, Goes
  <2>2. child' = Fresh(g + 1) /\ <<>> \in Seq(Request) /\ <<>> \in Seq(Calls)
    BY <1>4 DEF Start
  <2>3. /\ child' \in ChildType /\ child'.gen = g + 1 /\ child'.alive = TRUE
        /\ child'.terminals \subseteq Panes
    BY <2>1, <2>2 DEF ChildType, Fresh
  <2>4. /\ watch' \in [Gens -> {"none", "waiting", "over", "rejecting", "restarting",
                         "gaveUp", "adopting", "copying", "rewriting"}]
        /\ \A h \in Gens : watch'[h] \in {"rejecting", "restarting", "adopting"} => h <= crashes
    BY <1>0, <1>4 DEF TypeInv, CrashesCover, Start, Goes
  <2>5. UNCHANGED <<call, manager, replies, rewrite, crashes, destroyed>>
    BY <1>4 DEF Start
  <2>6. CrashesCover'
    <3>1. closer' = closer /\ closed' = closed /\ crashes' = crashes
      BY <2>5 DEF manager
    <3>2. g + 1 <= crashes + 1
      BY <1>0, <2>1
    <3>3. QED
      BY <2>3, <2>4, <3>1, <3>2 DEF TypeInv, CrashesCover
  <2>7. child'.gen \in Gens /\ child'.alive \in BOOLEAN
    BY <2>1, <2>3
  <2>8. QED
    BY <2>3, <2>4, <2>5, <2>6, <2>7 DEF TypeInv, TypeOK, ActorsOK, manager, replies
<1>5. CASE Adopt(g)
  <2>1. g + 1 \in Gens
    BY <1>0, <1>5, GensNat DEF TypeInv, CrashesCover, Adopt
  <2>2. /\ watch' \in [Gens -> {"none", "waiting", "over", "rejecting", "restarting",
                         "gaveUp", "adopting", "copying", "rewriting"}]
        /\ \A h \in Gens : watch'[h] \in {"rejecting", "restarting", "adopting"} => h <= crashes
    BY <1>0, <1>5, <2>1 DEF TypeInv, CrashesCover, Adopt
  <2>3. QED
    BY <1>5, <2>1, <2>2 DEF TypeInv, TypeOK, ActorsOK, CrashesCover, Adopt, replies
<1>6. CASE Copy(g)
  BY <1>6 DEF TypeInv, TypeOK, ActorsOK, CrashesCover, Copy, Goes, manager, replies
<1>7. ASSUME NEW p \in Panes, Rewrite(g, p) PROVE TypeInv'
  BY <1>7, RewriteType
<1>8. QED
  BY <1>1, <1>2, <1>3, <1>4, <1>5, <1>6, <1>7 DEF Watch

LEMMA StepType ==
  ASSUME TypeInv, [Next]_vars
  PROVE  TypeInv'
<1>1. CASE UNCHANGED vars
  BY <1>1 DEF TypeInv, TypeOK, ActorsOK, CrashesCover, vars
<1>2. ASSUME NEW a \in Actors, Step(a) PROVE TypeInv'
  BY <1>2, EnterType, PipeType, SendType, SendFailsType DEF Step
<1>3. ASSUME NEW c \in Calls, Wait(c) PROVE TypeInv'
  BY <1>3, SnapshotType DEF Wait
<1>4. QED
  BY <1>1, <1>2, <1>3, BeginType, TimerType, EndType, HandleType, ReadType, WatchType
     DEF Next

-----------------------------------------------------------------------------
(* Requests and their channels.                                            *)

LEMMA InitCalls == Init => CallInv
<1>. SUFFICES ASSUME Init, NEW c \in Calls PROVE CallOK(c)
  BY DEF CallInv
<1>1. c \in Actors /\ c # None
  BY MirrorAssumption DEF Actors
<1>2. QED
  BY <1>1 DEF Init, CallOK, Unused, Open, NoCall

(* A step that touches no channel, and no open snapshot but to keep it so. *)
LEMMA OnlyCalls ==
  ASSUME CallInv, UNCHANGED replies,
         \A c \in Calls : /\ Unused(c)' => Unused(c)
                          /\ Open(c) <=> Open(c)'
  PROVE  CallInv'
<1>1. ASSUME NEW c \in Calls PROVE CallOK(c)'
  <2>1. CallOK(c) /\ (Unused(c)' => Unused(c)) /\ (Open(c) <=> Open(c)')
    BY DEF CallInv
  <2>2. pending' = pending /\ answers' = answers /\ reader' = reader
    BY DEF replies
  <2>. HIDE DEF Unused, Open
  <2>3. QED
    BY <2>1, <2>2 DEF CallOK
<1>2. QED
  BY <1>1 DEF CallInv

LEMMA CallsAreActors == Calls \subseteq Actors
BY DEF Actors

LEMMA BeginCalls ==
  ASSUME Inv, NEW c \in Calls, NEW op \in Ops, NEW p \in Panes, Begin(c, op, p)
  PROVE  CallInv'
<1>1. call \in [Actors -> CallType] /\ c \in Actors
  BY CallsAreActors DEF Inv, TypeInv, TypeOK, CallType
<1>2. /\ call'[c].at = "begun" /\ call'[c].op = op
      /\ \A b \in Actors \ {c} : call'[b] = call[b]
  BY <1>1, BegunType DEF Begin
<1>3. call[c].op = "none"
  BY DEF Begin, NoCall
<1>4. \A d \in Calls : (Unused(d)' => Unused(d)) /\ (Open(d) <=> Open(d)')
  BY <1>2, <1>3, CallsAreActors DEF Unused, Open
<1>5. QED
  BY <1>4, OnlyCalls DEF Inv, Begin

LEMMA StepCalls ==
  ASSUME Inv, NEW a \in Actors,
         EnterWrite(a) \/ EnterDestroy(a) \/ EnterResize(a) \/ TakePipe(a) \/ Send(a)
  PROVE  CallInv'
<1>0. call \in [Actors -> CallType] /\ CallInv
  BY DEF Inv, TypeInv, TypeOK, CallType
<1>1. CASE EnterWrite(a) \/ EnterDestroy(a) \/ EnterResize(a)
  <2>1. PICK to \in {"over", "entered"} : Moves(a, "begun", to)
    BY <1>1 DEF EnterWrite, EnterDestroy, EnterResize
  <2>2. /\ call'[a].at = to /\ call'[a].op = call[a].op
        /\ \A b \in Actors \ {a} : call'[b] = call[b]
    BY <1>0, <2>1, MovesType
  <2>3. call[a].op \notin {"none", "snapshot"} /\ UNCHANGED replies
    BY <1>1 DEF EnterWrite, EnterDestroy, EnterResize
  <2>4. \A d \in Calls : (Unused(d)' => Unused(d)) /\ (Open(d) <=> Open(d)')
    BY <2>2, <2>3, CallsAreActors DEF Unused, Open
  <2>5. QED
    BY <1>0, <2>3, <2>4, OnlyCalls
<1>2. CASE TakePipe(a)
  <2>1. /\ call'[a].at = "sending" /\ call'[a].op = call[a].op
        /\ \A b \in Actors \ {a} : call'[b] = call[b]
        /\ call[a].at = "entered" /\ UNCHANGED replies
    <3>1. call[a] \in CallType
      BY <1>0
    <3>. DEFINE sending == [call[a] EXCEPT !.at = "sending", !.gen = stdin]
    <3>2. call' = [call EXCEPT ![a] = sending] /\ call[a].at = "entered" /\ UNCHANGED replies
      BY <1>2 DEF TakePipe
    <3>3. sending.at = "sending" /\ sending.op = call[a].op
      BY <3>1 DEF CallType
    <3>. HIDE DEF sending
    <3>4. call'[a] = sending /\ \A b \in Actors \ {a} : call'[b] = call[b]
      BY <1>0, <3>2
    <3>5. QED
      BY <3>2, <3>3, <3>4
  <2>2. \A d \in Calls : (Unused(d)' => Unused(d)) /\ (Open(d) <=> Open(d)')
    BY <2>1, CallsAreActors DEF Unused, Open
  <2>3. QED
    BY <1>0, <2>1, <2>2, OnlyCalls
<1>3. CASE Send(a)
  <2>1. PICK to \in {"waiting", "over"} :
          /\ Moves(a, "sending", to)
          /\ to = "waiting" <=> call[a].op = "snapshot"
    BY <1>3 DEF Send
  <2>2. /\ call'[a].at = to /\ call'[a].op = call[a].op
        /\ \A b \in Actors \ {a} : call'[b] = call[b]
        /\ call[a].at = "sending" /\ UNCHANGED replies
    BY <1>0, <1>3, <2>1, MovesType DEF Send, Moves
  <2>3. \A d \in Calls : (Unused(d)' => Unused(d)) /\ (Open(d) <=> Open(d)')
    BY <2>1, <2>2, CallsAreActors DEF Unused, Open
  <2>4. QED
    BY <1>0, <2>2, <2>3, OnlyCalls
<1>4. QED
  BY <1>1, <1>2, <1>3

LEMMA OtherCalls ==
  ASSUME Inv, \/ \E p \in Panes : TimerFires(p)
              \/ \E g \in Gens, p \in Panes : Rewrite(g, p)
  PROVE  CallInv'
<1>1. PICK a \in Actors, op \in {"write", "destroy"}, p \in Panes :
        /\ call' = [call EXCEPT ![a] = Begun(op, p)]
        /\ call[a].at = "over"
        /\ UNCHANGED replies
  <2>1. ASSUME NEW p \in Panes, TimerFires(p)
        PROVE  /\ Timer(p) \in Actors /\ call[Timer(p)].at = "over"
               /\ call' = [call EXCEPT ![Timer(p)] = Begun("destroy", p)]
               /\ UNCHANGED replies
    BY <2>1 DEF TimerFires, Actors
  <2>2. ASSUME NEW g \in Gens, NEW p \in Panes, Rewrite(g, p)
        PROVE  /\ Watcher(g) \in Actors /\ call[Watcher(g)].at = "over"
               /\ call' = [call EXCEPT ![Watcher(g)] = Begun("write", p)]
               /\ UNCHANGED replies
    BY <2>2 DEF Rewrite, Actors
  <2>3. QED
    BY <2>1, <2>2
<1>2. call \in [Actors -> CallType] /\ op \in Ops
  BY DEF Inv, TypeInv, TypeOK, CallType, Ops
<1>3. /\ call'[a].at = "begun" /\ call'[a].op = op
      /\ \A b \in Actors \ {a} : call'[b] = call[b]
  BY <1>1, <1>2, BegunType
<1>4. \A d \in Calls : (Unused(d)' => Unused(d)) /\ (Open(d) <=> Open(d)')
  BY <1>1, <1>3, CallsAreActors DEF Unused, Open
<1>5. QED
  BY <1>1, <1>4, OnlyCalls DEF Inv

(* Steps of one snapshot that do touch the table of pending requests.      *)
LEMMA SnapshotCalls ==
  ASSUME Inv, NEW c \in Actors,
         \/ c \in Calls /\ (EnterSnapshot(c) \/ Receive(c) \/ TimeOut(c))
         \/ SendFails(c)
  PROVE  CallInv'
<1>1. PICK from \in {"begun", "waiting", "sending"}, to \in {"over", "entered"} :
        /\ Moves(c, from, to)
        /\ from = "begun" <=> to = "entered"
        /\ to = "entered" => call[c].op = "snapshot" /\ pending' = pending \cup {c}
        /\ to = "over" => pending' = pending \ {c}
        /\ answers' = answers /\ reader' = reader
  <2>1. CASE c \in Calls /\ EnterSnapshot(c)
    BY <2>1 DEF EnterSnapshot
  <2>2. CASE c \in Calls /\ Receive(c)
    <3>1. c \notin pending
      BY <2>2 DEF Inv, CallInv, CallOK, Receive
    <3>2. pending' = pending \ {c}
      BY <2>2, <3>1 DEF Receive, replies
    <3>3. QED
      BY <2>2, <3>2 DEF Receive, replies
  <2>3. CASE c \in Calls /\ TimeOut(c)
    BY <2>3 DEF TimeOut
  <2>4. CASE SendFails(c)
    BY <2>4 DEF SendFails
  <2>5. QED
    BY <2>1, <2>2, <2>3, <2>4
<1>2. call \in [Actors -> CallType] /\ call[c].at = from
  BY <1>1 DEF Inv, TypeInv, TypeOK, CallType, Moves
<1>3. /\ call'[c].at = to /\ call'[c].op = call[c].op
      /\ \A b \in Actors \ {c} : call'[b] = call[b]
  BY <1>1, <1>2, MovesType
<1>4. ASSUME NEW d \in Calls PROVE CallOK(d)'
  <2>1. CallOK(d) /\ d \in Actors
    BY CallsAreActors DEF Inv, CallInv
  <2>2. CASE d # c
    <3>1. call'[d] = call[d] /\ (d \in pending' <=> d \in pending)
      BY <1>1, <1>3, <2>1, <2>2
    <3>2. (Unused(d)' <=> Unused(d)) /\ (Open(d)' <=> Open(d))
      BY <3>1 DEF Unused, Open
    <3>. HIDE DEF Unused, Open
    <3>3. QED
      BY <1>1, <2>1, <3>1, <3>2 DEF CallOK
  <2>3. CASE d = c /\ to = "entered"
    <3>1. Unused(d) /\ ~ Unused(d)' /\ Open(d)' /\ d \in pending'
      BY <1>1, <1>2, <1>3, <2>3 DEF Unused, Open
    <3>. HIDE DEF Unused, Open
    <3>2. QED
      BY <1>1, <2>1, <3>1 DEF CallOK
  <2>4. CASE d = c /\ to = "over"
    <3>1. call[c].op # "none"
      BY <1>1, <1>2, <2>4 DEF Inv, TypeInv, ActorsOK
    <3>2. ~ Unused(d)' /\ ~ Open(d)' /\ d \notin pending'
      BY <1>1, <1>3, <2>4, <3>1 DEF Unused, Open
    <3>. HIDE DEF Unused, Open
    <3>3. QED
      BY <1>1, <2>1, <3>2 DEF CallOK
  <2>5. QED
    BY <1>1, <2>2, <2>3, <2>4
<1>5. QED
  BY <1>4 DEF CallInv

(* The reader takes a channel, or serves the one it took.                  *)
LEMMA ReadCalls ==
  ASSUME Inv, NEW g \in Gens, Read(g)
  PROVE  CallInv'
<1>0. /\ reader \in [Gens -> Calls \cup {None, "stopped"}] /\ answers \in [Calls -> Nat]
      /\ child.out \in Seq(Calls) /\ None \notin Calls /\ "stopped" \notin Calls
  BY MirrorAssumption DEF Inv, TypeInv, TypeOK, ChildType
<1>1. call' = call
  BY DEF Read, TakeChannel, ReaderStops, Answer
<1>2. ASSUME NEW d \in Calls
      PROVE  CallOK(d) /\ (Unused(d)' <=> Unused(d)) /\ (Open(d)' <=> Open(d))
  BY <1>1 DEF Inv, CallInv, Unused, Open
<1>. HIDE DEF Unused, Open
<1>3. CASE TakeChannel(g)
  <2>. DEFINE c == Head(child.out)
  <2>1. c \in Calls
    BY <1>0, <1>3 DEF TakeChannel
  <2>2. /\ reader[g] = None /\ answers' = answers
        /\ reader' = [reader EXCEPT ![g] = IF c \in pending THEN c ELSE None]
        /\ pending' = pending \ {c}
    BY <1>3 DEF TakeChannel
  <2>. HIDE DEF c
  <2>3. ASSUME NEW d \in Calls PROVE CallOK(d)'
    <3>1. CASE d = c /\ c \in pending
      <4>1. /\ reader'[g] = d /\ d \notin pending' /\ answers'[d] = 0
            /\ \A h \in Gens : reader'[h] = d => h = g
            /\ ~ Unused(d)
        BY <1>0, <1>2, <2>2, <3>1 DEF CallOK
      <4>2. QED
        BY <1>2, <4>1 DEF CallOK
    <3>2. CASE ~ (d = c /\ c \in pending)
      <4>1. /\ d \in pending' <=> d \in pending
            /\ \A h \in Gens : reader'[h] = d <=> reader[h] = d
        BY <1>0, <2>2, <3>2
      <4>2. QED
        BY <1>2, <2>2, <4>1 DEF CallOK
    <3>3. QED
      BY <3>1, <3>2
  <2>4. QED
    BY <2>3 DEF CallInv
<1>4. CASE ReaderStops(g)
  <2>1. /\ pending' = pending /\ answers' = answers /\ reader[g] = None
        /\ reader' = [reader EXCEPT ![g] = "stopped"]
    BY <1>4 DEF ReaderStops
  <2>2. ASSUME NEW d \in Calls PROVE CallOK(d)'
    <3>1. \A h \in Gens : reader'[h] = d <=> reader[h] = d
      BY <1>0, <2>1
    <3>2. QED
      BY <1>2, <2>1, <3>1 DEF CallOK
  <2>3. QED
    BY <2>2 DEF CallInv
<1>5. CASE Answer(g)
  <2>. DEFINE c == reader[g]
  <2>1. /\ c \in Calls /\ pending' = pending
        /\ answers' = [answers EXCEPT ![c] = answers[c] + 1]
        /\ reader' = [reader EXCEPT ![g] = None]
    BY <1>5 DEF Answer
  <2>2. ASSUME NEW d \in Calls PROVE CallOK(d)'
    <3>1. CASE d = c
      <4>1. answers[d] = 0 /\ (\A h \in Gens : reader[h] = d => h = g) /\ d \notin pending
            /\ ~ Unused(d)
        BY <1>2, <3>1 DEF CallOK
      <4>2. answers'[d] = 1 /\ \A h \in Gens : reader'[h] # d
        BY <1>0, <2>1, <3>1, <4>1
      <4>3. QED
        BY <1>2, <2>1, <4>1, <4>2 DEF CallOK
    <3>2. CASE d # c
      <4>1. /\ answers'[d] = answers[d]
            /\ \A h \in Gens : reader'[h] = d <=> reader[h] = d
        BY <1>0, <2>1, <3>2
      <4>2. QED
        BY <1>2, <2>1, <4>1 DEF CallOK
    <3>3. QED
      BY <3>1, <3>2
  <2>3. QED
    BY <2>2 DEF CallInv
<1>6. QED
  BY <1>3, <1>4, <1>5 DEF Read

(* The watcher rejects whatever is pending.                                *)
LEMMA RejectCalls ==
  ASSUME Inv, NEW g \in Gens, Reject(g)
  PROVE  CallInv'
<1>1. /\ call' = call /\ reader' = reader /\ pending' = {}
      /\ \A d \in Calls : answers'[d] = IF d \in pending THEN answers[d] + 1 ELSE answers[d]
  BY DEF Reject
<1>2. ASSUME NEW d \in Calls PROVE CallOK(d)'
  <2>1. CallOK(d) /\ (Unused(d)' <=> Unused(d)) /\ (Open(d)' <=> Open(d))
    BY <1>1 DEF Inv, CallInv, Unused, Open
  <2>. HIDE DEF Unused, Open
  <2>2. CASE d \in pending
    <3>1. answers'[d] = 1 /\ ~ Unused(d) /\ \A h \in Gens : reader[h] # d
      BY <1>1, <2>1, <2>2 DEF CallOK
    <3>2. QED
      BY <1>1, <2>1, <3>1 DEF CallOK
  <2>3. CASE d \notin pending
    <3>1. answers'[d] = answers[d]
      BY <1>1, <2>3
    <3>2. QED
      BY <1>1, <2>1, <2>3, <3>1 DEF CallOK
  <2>4. QED
    BY <2>2, <2>3
<1>3. QED
  BY <1>2 DEF CallInv

LEMMA StepCallInv ==
  ASSUME Inv, [Next]_vars
  PROVE  CallInv'
<1>1. ASSUME UNCHANGED <<call, replies>> PROVE CallInv'
  <2>1. \A c \in Calls : (Unused(c)' => Unused(c)) /\ (Open(c) <=> Open(c)')
    BY <1>1 DEF Unused, Open
  <2>2. QED
    BY <1>1, <2>1, OnlyCalls DEF Inv
<1>2. ASSUME NEW a \in Actors, Step(a) PROVE CallInv'
  BY <1>2, StepCalls, SnapshotCalls DEF Step
<1>3. ASSUME NEW c \in Calls, Wait(c) PROVE CallInv'
  BY <1>3, SnapshotCalls, CallsAreActors DEF Wait
<1>4. CASE Close \/ CloseKills \/ Crash \/ Handle
  BY <1>1, <1>4 DEF Close, CloseKills, Crash, Handle
<1>5. ASSUME NEW g \in Gens, Watch(g) PROVE CallInv'
  <2>1. CASE WatchEnds(g) \/ WatchCrash(g) \/ StartFails(g) \/ Start(g) \/ Adopt(g) \/ Copy(g)
    BY <1>1, <2>1 DEF WatchEnds, WatchCrash, StartFails, Start, Adopt, Copy
  <2>2. CASE Reject(g)
    BY <2>2, RejectCalls
  <2>3. ASSUME NEW p \in Panes, Rewrite(g, p) PROVE CallInv'
    BY <2>3, OtherCalls
  <2>4. QED
    BY <1>5, <2>1, <2>2, <2>3 DEF Watch
<1>6. CASE UNCHANGED vars
  BY <1>1, <1>6 DEF vars, replies
<1>7. QED
  BY <1>2, <1>3, <1>4, <1>5, <1>6, BeginCalls, OtherCalls, ReadCalls DEF Next

-----------------------------------------------------------------------------
(* The invariant holds in every behaviour of the manager.                  *)
THEOREM InvHolds == Spec => []Inv
<1>1. Init => Inv
  BY InitType, InitCalls DEF Inv
<1>2. Inv /\ [Next]_vars => Inv'
  BY StepType, StepCallInv DEF Inv
<1>3. QED
  BY <1>1, <1>2, PTL DEF Spec

(* The manager's tables are typed: a generation stays within the deaths    *)
(* that watchSubprocess has seen, and only panes of the map have timers.   *)
THEOREM TypeCorrect == Spec => []TypeOK
<1>1. Inv => TypeOK
  BY DEF Inv, TypeInv
<1>2. QED
  BY <1>1, InvHolds, PTL

(* sendAndWait gets at most one message, from readResponses or from        *)
(* watchSubprocess, for any number of calls and deaths.                    *)
THEOREM OnceOnly == Spec => []SettledOnce
<1>1. Inv => SettledOnce
  <2>. SUFFICES ASSUME Inv, NEW c \in Calls
                PROVE  /\ answers[c] <= 1
                       /\ c \in pending => /\ answers[c] = 0
                                           /\ \A g \in Gens : reader[g] # c
                                           /\ call[c].at \in {"entered", "sending", "waiting"}
    BY DEF SettledOnce
  <2>1. QED
    BY DEF Inv, CallInv, CallOK, Open
<1>2. QED
  BY <1>1, InvHolds, PTL

(* Whoever waits in sendAndWait is in m.pending, about to be answered, or  *)
(* has its message.                                                        *)
THEOREM NoneForgotten == Spec => []WaitersAreKnown
<1>1. Inv => WaitersAreKnown
  <2>. SUFFICES ASSUME Inv, NEW c \in Calls, call[c].at = "waiting"
                PROVE  c \in pending \/ answers[c] = 1 \/ \E g \in Gens : reader[g] = c
    BY DEF WaitersAreKnown
  <2>1. call[c].op = "snapshot"
    BY CallsAreActors DEF Inv, TypeInv, ActorsOK
  <2>2. Open(c) /\ CallOK(c)
    BY <2>1 DEF Inv, CallInv, Open
  <2>3. QED
    BY <2>2 DEF CallOK
<1>2. QED
  BY <1>1, InvHolds, PTL
=============================================================================
