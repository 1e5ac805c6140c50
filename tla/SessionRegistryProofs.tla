------------------------ MODULE SessionRegistryProofs ------------------------
(***************************************************************************)
(* Proofs about SessionRegistry: its types, and that the map of the        *)
(* registry and the reports on the way together tell which sessions live.  *)
(*                                                                         *)
(* The invariant says the same of the set of living sessions itself: the   *)
(* reports on the way agree with it, whatever the registry is doing. That  *)
(* is what makes it safe to take a list that is newer than those reports.  *)
(***************************************************************************)
EXTENDS SessionRegistry, TLAPS

(* Told, of any sequence of reports.                                       *)
ToldBy(q, s, map, alive) ==
    \/ \E i \in 1 .. Len(q) :
         /\ q[i].name = s
         /\ \A j \in i + 1 .. Len(q) : q[j].name # s
         /\ q[i].kind = "created" <=> s \in alive
    \/ /\ \A i \in 1 .. Len(q) : q[i].name # s
       /\ s \in map <=> s \in alive

Follows ==
    \A s \in Names : /\ Told(s, live)
                     /\ at = "listed" => Told(s, listed)
                     /\ at = "running" => Told(s, sessions)

Inv ==
    /\ TypeOK
    /\ stack = "off" => at = "off" /\ stream = <<>> /\ eventCh = <<>>
    /\ eventClosed \/ at = "stale" => streamClosed
    /\ streamClosed \/ lost \/ Follows

-----------------------------------------------------------------------------
(* Sequences of reports.                                                   *)

LEMMA ToldIsToldBy ==
  \A s, map : Told(s, map) <=> ToldBy(OnTheWay, s, map, live)
BY DEF Told, ToldBy

LEMMA OnTheWayType ==
  ASSUME TypeOK
  PROVE  /\ OnTheWay \in Seq(Event)
         /\ Len(OnTheWay) = Len(eventCh) + Len(stream)
         /\ \A i \in 1 .. Len(eventCh) : OnTheWay[i] = eventCh[i]
         /\ \A i \in 1 .. Len(stream) :
              OnTheWay[Len(eventCh) + i] = stream[i]
BY DEF TypeOK, OnTheWay

(* A report about another session changes nothing for s.                   *)
LEMMA AppendOther ==
  ASSUME NEW q \in Seq(Event), NEW e \in Event, NEW s, NEW map, NEW alive,
         ToldBy(q, s, map, alive), e.name # s
  PROVE  ToldBy(Append(q, e), s, map, alive)
<1>1. /\ Len(Append(q, e)) = Len(q) + 1
      /\ \A i \in 1 .. Len(q) : Append(q, e)[i] = q[i]
      /\ Append(q, e)[Len(q) + 1] = e
  OBVIOUS
<1>2. Len(q) \in Nat
  OBVIOUS
<1>. HIDE DEF Event
<1>3. CASE \E i \in 1 .. Len(q) :
             /\ q[i].name = s
             /\ \A j \in i + 1 .. Len(q) : q[j].name # s
             /\ q[i].kind = "created" <=> s \in alive
  BY <1>1, <1>2, <1>3 DEF ToldBy
<1>4. CASE /\ \A i \in 1 .. Len(q) : q[i].name # s
           /\ s \in map <=> s \in alive
  BY <1>1, <1>2, <1>4 DEF ToldBy
<1>5. QED
  BY <1>3, <1>4 DEF ToldBy

(* A report about s has the last word.                                     *)
LEMMA AppendOwn ==
  ASSUME NEW q \in Seq(Event), NEW e \in Event, NEW s, NEW map, NEW alive,
         e.name = s, e.kind = "created" <=> s \in alive
  PROVE  ToldBy(Append(q, e), s, map, alive)
<1>1. /\ Len(Append(q, e)) = Len(q) + 1
      /\ Append(q, e)[Len(q) + 1] = e
      /\ Len(q) \in Nat
  OBVIOUS
<1>2. QED
  BY <1>1 DEF ToldBy

(* What is about another session may be left out anywhere.                 *)
LEMMA RemoveOther ==
  ASSUME NEW q \in Seq(Event), NEW r \in Seq(Event), NEW s, NEW map, NEW alive,
         NEW k \in 1 .. Len(q), Len(q) = Len(r) + 1,
         \A i \in 1 .. k - 1 : r[i] = q[i],
         \A i \in k .. Len(r) : r[i] = q[i + 1],
         q[k].name # s, ToldBy(q, s, map, alive)
  PROVE  ToldBy(r, s, map, alive)
<1>1. Len(q) \in Nat /\ Len(r) \in Nat
  OBVIOUS
<1>2. CASE \E i \in 1 .. Len(q) :
             /\ q[i].name = s
             /\ \A j \in i + 1 .. Len(q) : q[j].name # s
             /\ q[i].kind = "created" <=> s \in alive
  <2>1. PICK i \in 1 .. Len(q) :
             /\ q[i].name = s
             /\ \A j \in i + 1 .. Len(q) : q[j].name # s
             /\ q[i].kind = "created" <=> s \in alive
    BY <1>2
  <2>2. i # k
    BY <2>1
  <2>3. CASE i < k
    <3>1. i \in 1 .. Len(r) /\ r[i] = q[i]
      BY <1>1, <2>3
    <3>2. ASSUME NEW j \in i + 1 .. Len(r) PROVE r[j].name # s
      BY <1>1, <2>1, <2>3
    <3>3. QED
      BY <2>1, <3>1, <3>2 DEF ToldBy
  <2>4. CASE i > k
    <3>1. i - 1 \in 1 .. Len(r) /\ r[i - 1] = q[i]
      BY <1>1, <2>4
    <3>2. ASSUME NEW j \in (i - 1) + 1 .. Len(r) PROVE r[j].name # s
      <4>1. j \in k .. Len(r) /\ j + 1 \in i + 1 .. Len(q)
        BY <1>1, <2>4
      <4>2. QED
        BY <2>1, <4>1
    <3>3. QED
      BY <2>1, <3>1, <3>2 DEF ToldBy
  <2>5. QED
    BY <2>2, <2>3, <2>4
<1>3. CASE /\ \A i \in 1 .. Len(q) : q[i].name # s
           /\ s \in map <=> s \in alive
  <2>1. ASSUME NEW i \in 1 .. Len(r) PROVE r[i].name # s
    BY <1>1, <1>3
  <2>2. QED
    BY <1>3, <2>1 DEF ToldBy
<1>4. QED
  BY <1>2, <1>3 DEF ToldBy

(* The oldest report is taken out and followed.                            *)
LEMMA FollowHead ==
  ASSUME NEW q \in Seq(Event), NEW r \in Seq(Event), NEW s, NEW map, NEW new, NEW alive,
         Len(q) = Len(r) + 1, \A i \in 1 .. Len(r) : r[i] = q[i + 1],
         ToldBy(q, s, map, alive), q[1].name = s,
         s \in new <=> q[1].kind = "created"
  PROVE  ToldBy(r, s, new, alive)
<1>1. Len(q) \in Nat /\ Len(r) \in Nat
  OBVIOUS
<1>2. PICK i \in 1 .. Len(q) :
             /\ q[i].name = s
             /\ \A j \in i + 1 .. Len(q) : q[j].name # s
             /\ q[i].kind = "created" <=> s \in alive
  BY <1>1 DEF ToldBy
<1>3. CASE i = 1
  <2>1. ASSUME NEW j \in 1 .. Len(r) PROVE r[j].name # s
    BY <1>1, <1>2, <1>3
  <2>2. QED
    BY <1>2, <1>3, <2>1 DEF ToldBy
<1>4. CASE i > 1
  <2>1. i - 1 \in 1 .. Len(r) /\ r[i - 1] = q[i]
    BY <1>1, <1>4
  <2>2. ASSUME NEW j \in (i - 1) + 1 .. Len(r) PROVE r[j].name # s
    <3>1. j + 1 \in i + 1 .. Len(q)
      BY <1>1, <1>4
    <3>2. QED
      BY <1>2, <3>1
  <2>3. QED
    BY <1>2, <2>1, <2>2 DEF ToldBy
<1>5. QED
  BY <1>3, <1>4
(* Only whether s is in the two sets matters.                              *)
LEMMA ToldSame ==
  ASSUME NEW q \in Seq(Event), NEW s, NEW map, NEW alive, NEW map2, NEW alive2,
         s \in map <=> s \in map2, s \in alive <=> s \in alive2,
         ToldBy(q, s, map, alive)
  PROVE  ToldBy(q, s, map2, alive2)
BY DEF ToldBy

-----------------------------------------------------------------------------
(* Every step keeps the types.                                             *)

LEMMA NoNameNotNames == NoName \notin Names
BY RegistryAssumption

LEMMA InitInv == Init => Inv
<1>. SUFFICES ASSUME Init PROVE Inv
  OBVIOUS
<1>1. TypeOK
  <2>1. <<>> \in Seq(Event) /\ Len(<<>>) = 0
    OBVIOUS
  <2>2. Len(stream) <= StreamCap /\ Len(eventCh) <= EventCap
        /\ changes \in 0 .. MaxChanges
    BY <2>1, RegistryAssumption DEF Init
  <2>3. QED
    BY <2>1, <2>2, Zenon DEF Init, TypeOK
<1>2. Follows
  BY DEF Init, Follows, Told, OnTheWay
<1>3. QED
  BY <1>1, <1>2 DEF Init, Inv

LEMMA ChangeType ==
  ASSUME TypeOK, NEW kind, NEW name, [kind |-> kind, name |-> name] \in Event,
         live' \in SUBSET Names, Change(kind, name)
  PROVE  TypeOK'
<1>. DEFINE ev == [kind |-> kind, name |-> name]
<1>1. Append(stream, ev) \in Seq(Event)
      /\ Len(Append(stream, ev)) = Len(stream) + 1
  BY DEF TypeOK
<1>2. stream' \in Seq(Event) /\ Len(stream') <= StreamCap
  BY <1>1, RegistryAssumption DEF TypeOK, Change, Report
<1>3. changes' \in 0 .. MaxChanges /\ lost' \in BOOLEAN
  <2>1. changes' \in 0 .. MaxChanges
    BY RegistryAssumption DEF TypeOK, Change
  <2>2. lost' \in BOOLEAN
    BY Zenon DEF TypeOK, Change, Report
  <2>3. QED
    BY <2>1, <2>2
<1>4. QED
  BY <1>2, <1>3 DEF TypeOK, Change, eventVars, registryVars

LEMMA StepType ==
  ASSUME TypeOK, [Next]_vars
  PROVE  TypeOK'
<1>. USE RegistryAssumption
<1>1. ASSUME NEW s \in Names, Created(s) \/ Closed(s) PROVE TypeOK'
  <2>1. /\ [kind |-> "created", name |-> s] \in Event
        /\ [kind |-> "closed", name |-> s] \in Event
    BY DEF Event
  <2>2. live' \in SUBSET Names
    BY <1>1 DEF TypeOK, Created, Closed
  <2>3. CASE Created(s)
    BY <2>1, <2>2, <2>3, ChangeType DEF Created
  <2>4. CASE Closed(s)
    BY <2>1, <2>2, <2>4, ChangeType DEF Closed
  <2>5. QED
    BY <1>1, <2>3, <2>4
<1>0. ASSUME NEW s \in Names, Unnamed(s) PROVE TypeOK'
  <2>1. stream' \in Seq(Event) /\ Len(stream') <= StreamCap
    <3>1. [kind |-> "other", name |-> NoName] \in Event
      BY DEF Event
    <3>2. QED
      BY <1>0, <3>1 DEF TypeOK, Unnamed
  <2>2. live' \in SUBSET Names /\ changes' \in 0 .. MaxChanges
    BY <1>0 DEF TypeOK, Unnamed
  <2>3. QED
    BY <1>0, <2>1, <2>2 DEF TypeOK, Unnamed, eventVars, registryVars
<1>2. CASE Other
  <2>1. [kind |-> "other", name |-> NoName] \in Event
    BY DEF Event
  <2>2. live' \in SUBSET Names
    BY <1>2 DEF TypeOK, Other
  <2>3. QED
    BY <1>2, <2>1, <2>2, ChangeType DEF Other
<1>3. CASE Disconnect \/ BridgeStart \/ GatewayStarts \/ Stop
  BY <1>3 DEF TypeOK, Disconnect, BridgeStart, GatewayStarts, Stop, tmuxVars,
              streamVars, eventVars, registryVars
<1>4. CASE Pump
  <2>1. Head(stream) \in Event /\ Tail(stream) \in Seq(Event)
        /\ Len(Tail(stream)) <= StreamCap
    BY <1>4 DEF TypeOK, Pump
  <2>2. Append(eventCh, Head(stream)) \in Seq(Event)
        /\ Len(Append(eventCh, Head(stream))) = Len(eventCh) + 1
    BY <2>1 DEF TypeOK
  <2>3. eventCh' \in Seq(Event) /\ Len(eventCh') <= EventCap
    BY <1>4, <2>2, SMTT(60) DEF TypeOK, Pump
  <2>4. QED
    BY <1>4, <2>1, <2>3 DEF TypeOK, Pump, tmuxVars, registryVars
<1>5. CASE PumpEnds
  BY <1>5 DEF TypeOK, PumpEnds, tmuxVars, streamVars, registryVars
<1>6. CASE Apply
  <2>1. Head(eventCh) \in Event /\ Tail(eventCh) \in Seq(Event)
        /\ Len(Tail(eventCh)) <= EventCap
    BY <1>6 DEF TypeOK, Apply
  <2>2. sessions' \in SUBSET Names
    <3>1. CASE Head(eventCh).kind = "created"
      BY <1>6, <2>1, <3>1 DEF TypeOK, Apply, Applied, Event
    <3>2. CASE Head(eventCh).kind # "created"
      BY <1>6, <3>2 DEF TypeOK, Apply, Applied
    <3>3. QED
      BY <3>1, <3>2
  <2>3. QED
    BY <1>6, <2>1, <2>2 DEF TypeOK, Apply, tmuxVars, streamVars
<1>7. CASE SeeStop \/ SeeClosed \/ RelistFails
  BY <1>7 DEF TypeOK, SeeStop, SeeClosed, RelistFails, tmuxVars, streamVars,
              eventVars
<1>8. CASE ListSessions \/ Populate \/ PopulateFails \/ Stopped
  BY <1>8 DEF TypeOK, ListSessions, Populate, PopulateFails, Stopped, tmuxVars,
              streamVars, eventVars, registryVars
<1>9. CASE UNCHANGED vars
  BY <1>9 DEF TypeOK, vars, tmuxVars, streamVars, eventVars, registryVars
<1>10. QED
  BY <1>0, <1>1, <1>2, <1>3, <1>4, <1>5, <1>6, <1>7, <1>8, <1>9
     DEF Next, PumpStep, RunStep, StackStep

-----------------------------------------------------------------------------
(* Every step keeps the reports on the way in agreement.                   *)

(* A change of tmux that is reported.                                      *)
LEMMA ChangeTold ==
  ASSUME TypeOK, NEW kind, NEW name, [kind |-> kind, name |-> name] \in Event,
         Change(kind, name), Attached, ~lost',
         NEW t \in Names, NEW map, NEW new,
         t # name => (t \in new <=> t \in map) /\ (t \in live' <=> t \in live),
         t = name => (kind = "created" <=> t \in live'),
         kind = "other" => name = NoName,
         ToldBy(OnTheWay, t, map, live)
  PROVE  ToldBy(OnTheWay', t, new, live')
<1>. DEFINE ev == [kind |-> kind, name |-> name]
<1>1. OnTheWay \in Seq(Event)
  BY OnTheWayType
<1>2. eventCh' = eventCh
  BY DEF Change, eventVars
<1>3. CASE Len(stream) < StreamCap
  <2>1. stream' = Append(stream, ev)
    BY <1>3 DEF Change, Report
  <2>2. OnTheWay' = Append(OnTheWay, ev)
    <3>. HIDE DEF ev
    <3>1. ev \in Event
      BY DEF ev
    <3>2. eventCh \in Seq(Event) /\ stream \in Seq(Event)
      BY DEF TypeOK
    <3>3. eventCh \o Append(stream, ev) = Append(eventCh \o stream, ev)
      BY <3>1, <3>2
    <3>4. QED
      BY <1>2, <2>1, <3>3 DEF OnTheWay
  <2>3. CASE t = name
    BY <1>1, <2>2, <2>3, AppendOwn
  <2>4. CASE t # name
    <3>1. ToldBy(OnTheWay, t, new, live')
      BY <1>1, <2>4, ToldSame
    <3>2. QED
      BY <1>1, <2>2, <2>4, <3>1, AppendOther
  <2>5. QED
    BY <2>3, <2>4
<1>4. CASE ~(Len(stream) < StreamCap)
  <2>1. stream' = stream /\ kind = "other"
    BY <1>4 DEF Change, Report
  <2>2. t # name
    BY <2>1, RegistryAssumption
  <2>3. OnTheWay' = OnTheWay
    BY <1>2, <2>1 DEF OnTheWay
  <2>4. QED
    BY <1>1, <2>2, <2>3, ToldSame
<1>5. QED
  BY <1>3, <1>4

LEMMA ChangeInv ==
  ASSUME Inv, TypeOK', NEW kind, NEW name,
         [kind |-> kind, name |-> name] \in Event, Change(kind, name),
         \A t \in Names : /\ t # name => (t \in live' <=> t \in live)
                          /\ t = name => (kind = "created" <=> t \in live'),
         kind = "other" => name = NoName
  PROVE  Inv'
<1>1. /\ streamClosed' = streamClosed /\ eventClosed' = eventClosed
      /\ at' = at /\ stack' = stack /\ eventCh' = eventCh
      /\ listed' = listed /\ sessions' = sessions
  BY DEF Change, eventVars, registryVars
<1>2. ASSUME stack = "off" PROVE stream' = <<>> /\ eventCh' = <<>>
  BY <1>1, <1>2 DEF Inv, Change, Attached
<1>3. streamClosed' \/ lost' \/ Follows'
  <2>1. SUFFICES ASSUME ~streamClosed, ~lost' PROVE Follows'
    BY <1>1
  <2>2. CASE stack = "off"
    <3>1. OnTheWay' = <<>>
      BY <1>2, <2>2 DEF OnTheWay
    <3>2. at' = "off"
      BY <1>1, <2>2 DEF Inv
    <3>3. \A t \in Names : Told(t, live)'
      BY <3>1 DEF Told
    <3>4. QED
      BY <3>2, <3>3 DEF Follows
  <2>3. CASE stack # "off"
    <3>1. Attached /\ TypeOK /\ ~lost
      BY <2>1, <2>3 DEF Attached, Inv, Change, Report
    <3>2. Follows
      BY <2>1, <3>1 DEF Inv
    <3>3. ASSUME NEW t \in Names
          PROVE  /\ Told(t, live)'
                 /\ at' = "listed" => Told(t, listed)'
                 /\ at' = "running" => Told(t, sessions)'
      <4>0. /\ t # name => (t \in live' <=> t \in live)
            /\ t = name => (kind = "created" <=> t \in live')
            /\ kind = "other" => name = NoName
        OBVIOUS
      <4>. HIDE DEF Follows, Event
      <4>1. Told(t, live)'
        <5>0. t # name => (t \in live' <=> t \in live) /\ (t \in live' <=> t \in live)
          BY <4>0
        <5>1. ToldBy(OnTheWay, t, live, live)
          BY <3>2, ToldIsToldBy DEF Follows
        <5>2. ToldBy(OnTheWay', t, live', live')
          BY <2>1, <3>1, <4>0, <5>0, <5>1, ChangeTold
        <5>3. QED
          BY <5>2 DEF ToldBy, Told
      <4>2. ASSUME at = "listed" PROVE Told(t, listed)'
        <5>0. t # name => (t \in listed <=> t \in listed) /\ (t \in live' <=> t \in live)
          BY <4>0
        <5>1. ToldBy(OnTheWay, t, listed, live)
          BY <3>2, <4>2, ToldIsToldBy DEF Follows
        <5>2. ToldBy(OnTheWay', t, listed, live')
          BY <2>1, <3>1, <4>0, <5>0, <5>1, ChangeTold
        <5>3. QED
          BY <1>1, <5>2 DEF ToldBy, Told
      <4>3. ASSUME at = "running" PROVE Told(t, sessions)'
        <5>0. t # name => (t \in sessions <=> t \in sessions) /\ (t \in live' <=> t \in live)
          BY <4>0
        <5>1. ToldBy(OnTheWay, t, sessions, live)
          BY <3>2, <4>3, ToldIsToldBy DEF Follows
        <5>2. ToldBy(OnTheWay', t, sessions, live')
          BY <2>1, <3>1, <4>0, <5>0, <5>1, ChangeTold
        <5>3. QED
          BY <1>1, <5>2 DEF ToldBy, Told
      <4>4. QED
        BY <1>1, <4>1, <4>2, <4>3
    <3>4. QED
      BY <3>3 DEF Follows
  <2>4. QED
    BY <2>2, <2>3
<1>4. QED
  BY <1>1, <1>2, <1>3 DEF Inv

LEMMA ToldLive ==
  ASSUME NEW q, NEW s, NEW map, NEW alive, ToldBy(q, s, map, alive)
  PROVE  ToldBy(q, s, alive, alive)
BY DEF ToldBy

LEMMA PumpTold ==
  ASSUME TypeOK, TypeOK', Pump, ~lost', NEW s \in Names, NEW map,
         ToldBy(OnTheWay, s, map, live)
  PROVE  ToldBy(OnTheWay', s, map, live)
<1>. DEFINE ev == Head(stream)
<1>1. /\ OnTheWay \in Seq(Event) /\ OnTheWay' \in Seq(Event)
      /\ eventCh \in Seq(Event) /\ stream \in Seq(Event) /\ stream # <<>>
      /\ ev \in Event /\ stream' = Tail(stream)
  BY DEF TypeOK, OnTheWay, Pump
<1>2. CASE ev.kind # "other" /\ Len(eventCh) < EventCap
  <2>1. eventCh' = Append(eventCh, ev)
    BY <1>2 DEF Pump
  <2>2. OnTheWay' = OnTheWay
    <3>1. OnTheWay' = Append(eventCh, Head(stream)) \o Tail(stream)
      BY <1>1, <2>1 DEF OnTheWay
    <3>. HIDE DEF Event
    <3>2. Append(eventCh, Head(stream)) \o Tail(stream) = eventCh \o stream
      BY <1>1
    <3>3. QED
      BY <3>1, <3>2 DEF OnTheWay
  <2>3. QED
    BY <2>2
<1>3. CASE ev.kind = "other"
  <2>1. eventCh' = eventCh
    BY <1>3 DEF Pump
  <2>2. ev.name # s
    BY <1>1, <1>3, RegistryAssumption DEF Event
  <2>. DEFINE k == Len(eventCh) + 1
  <2>3. /\ Len(OnTheWay) = Len(eventCh) + Len(stream)
        /\ \A i \in 1 .. Len(eventCh) : OnTheWay[i] = eventCh[i]
        /\ \A i \in 1 .. Len(stream) : OnTheWay[Len(eventCh) + i] = stream[i]
    BY OnTheWayType
  <2>4. OnTheWay' = eventCh \o Tail(stream)
    BY <1>1, <2>1 DEF OnTheWay
  <2>. HIDE DEF Event
  <2>5. /\ Len(eventCh) \in Nat /\ Len(stream) \in Nat \ {0}
        /\ Len(Tail(stream)) = Len(stream) - 1
        /\ \A i \in 1 .. Len(Tail(stream)) : Tail(stream)[i] = stream[i + 1]
        /\ stream[1] = ev
    BY <1>1
  <2>6. /\ Len(OnTheWay') = Len(eventCh) + Len(stream) - 1
        /\ \A i \in 1 .. Len(eventCh) : OnTheWay'[i] = eventCh[i]
        /\ \A i \in 1 .. Len(stream) - 1 :
             OnTheWay'[Len(eventCh) + i] = stream[i + 1]
    BY <1>1, <2>4, <2>5
  <2>7. /\ k \in 1 .. Len(OnTheWay)
        /\ Len(OnTheWay) = Len(OnTheWay') + 1
        /\ \A i \in 1 .. k - 1 : OnTheWay'[i] = OnTheWay[i]
        /\ OnTheWay[k] = ev
    BY <2>3, <2>5, <2>6
  <2>8. ASSUME NEW i \in k .. Len(OnTheWay') PROVE OnTheWay'[i] = OnTheWay[i + 1]
    <3>1. i - Len(eventCh) \in 1 .. Len(stream) - 1
      BY <2>5, <2>6
    <3>2. OnTheWay'[i] = stream[i - Len(eventCh) + 1]
      BY <2>5, <2>6, <3>1, SMTT(60)
    <3>3. OnTheWay[i + 1] = stream[i - Len(eventCh) + 1]
      <4>. DEFINE j == i - Len(eventCh) + 1
      <4>1. j \in 1 .. Len(stream) /\ Len(eventCh) + j = i + 1
        BY <2>5, <3>1
      <4>. HIDE DEF j
      <4>2. OnTheWay[Len(eventCh) + j] = stream[j]
        BY <2>3, <4>1
      <4>3. QED
        BY <4>1, <4>2 DEF j
    <3>4. QED
      BY <3>2, <3>3
  <2>. HIDE DEF k, ev
  <2>9. QED
    BY <1>1, <2>2, <2>7, <2>8, RemoveOther
<1>4. QED
  BY <1>2, <1>3 DEF Pump

LEMMA ApplyTold ==
  ASSUME TypeOK, TypeOK', Apply, NEW s \in Names,
         ToldBy(OnTheWay, s, sessions, live)
  PROVE  ToldBy(OnTheWay', s, sessions', live)
<1>. DEFINE ev == Head(eventCh)
<1>1. /\ OnTheWay \in Seq(Event) /\ OnTheWay' \in Seq(Event)
      /\ eventCh \in Seq(Event) /\ stream \in Seq(Event) /\ eventCh # <<>>
      /\ ev \in Event /\ eventCh' = Tail(eventCh) /\ stream' = stream
      /\ sessions' = Applied(ev)
  BY DEF TypeOK, OnTheWay, Apply, streamVars
<1>2. OnTheWay' = Tail(eventCh) \o stream /\ OnTheWay = eventCh \o stream
  BY <1>1 DEF OnTheWay
<1>3. /\ Len(OnTheWay) = Len(OnTheWay') + 1
      /\ \A i \in 1 .. Len(OnTheWay') : OnTheWay'[i] = OnTheWay[i + 1]
      /\ OnTheWay[1] = ev
      /\ Len(OnTheWay') \in Nat
  <2>. HIDE DEF Event
  <2>1. QED
    BY <1>1, <1>2
<1>4. CASE ev.name = s
  <2>1. s \in sessions' <=> ev.kind = "created"
    BY <1>1, <1>4 DEF Applied
  <2>. HIDE DEF Event, ev
  <2>2. QED
    BY <1>1, <1>3, <1>4, <2>1, FollowHead
<1>5. CASE ev.name # s
  <2>1. s \in sessions' <=> s \in sessions
    BY <1>1, <1>5 DEF Applied
  <2>2. ToldBy(OnTheWay', s, sessions, live)
    <3>. HIDE DEF Event, ev
    <3>1. /\ 1 \in 1 .. Len(OnTheWay)
          /\ \A i \in 1 .. 1 - 1 : OnTheWay'[i] = OnTheWay[i]
      BY <1>3
    <3>2. QED
      BY <1>1, <1>3, <1>5, <3>1, RemoveOther
  <2>3. QED
    BY <1>1, <2>1, <2>2, ToldSame
<1>6. QED
  BY <1>4, <1>5

-----------------------------------------------------------------------------
(* The invariant.                                                          *)

LEMMA FollowsIsTold ==
  Follows <=> \A s \in Names : /\ ToldBy(OnTheWay, s, live, live)
                               /\ at = "listed" => ToldBy(OnTheWay, s, listed, live)
                               /\ at = "running" => ToldBy(OnTheWay, s, sessions, live)
BY ToldIsToldBy DEF Follows

LEMMA StepInv ==
  ASSUME Inv, [Next]_vars
  PROVE  Inv'
<1>1. TypeOK /\ TypeOK'
  BY StepType DEF Inv
<1>2. ASSUME NEW s \in Names, Created(s) \/ Closed(s) PROVE Inv'
  <2>1. /\ [kind |-> "created", name |-> s] \in Event
        /\ [kind |-> "closed", name |-> s] \in Event
    BY DEF Event
  <2>2. CASE Created(s)
    BY <1>1, <2>1, <2>2, ChangeInv DEF Created
  <2>3. CASE Closed(s)
    BY <1>1, <2>1, <2>3, ChangeInv DEF Closed
  <2>4. QED
    BY <1>2, <2>2, <2>3
<1>0. ASSUME NEW s \in Names, Unnamed(s) PROVE Inv'
  <2>1. stack # "off"
    BY <1>0 DEF Unnamed, Attached
  <2>2. QED
    BY <1>0, <1>1, <2>1 DEF Inv, Unnamed, eventVars, registryVars
<1>3. CASE Other
  <2>1. [kind |-> "other", name |-> NoName] \in Event
    BY DEF Event
  <2>2. \A t \in Names : t # NoName
    BY RegistryAssumption
  <2>3. QED
    BY <1>1, <1>3, <2>1, <2>2, ChangeInv DEF Other
<1>4. CASE Disconnect \/ PopulateFails \/ Stopped
  BY <1>1, <1>4 DEF Inv, Disconnect, PopulateFails, Stopped, Attached, tmuxVars,
     eventVars, registryVars
<1>5. CASE Pump
  <2>1. /\ stack' = stack /\ at' = at /\ streamClosed' = streamClosed
        /\ eventClosed' = eventClosed /\ live' = live /\ listed' = listed
        /\ sessions' = sessions
    BY <1>5 DEF Pump, tmuxVars, registryVars
  <2>2. stack # "off"
    BY <1>5 DEF Inv, Pump
  <2>3. ASSUME ~streamClosed, ~lost' PROVE Follows'
    <3>1. ~lost
      BY <1>5, <2>3 DEF Pump
    <3>2. Follows
      BY <2>3, <3>1 DEF Inv
    <3>3. ASSUME NEW s \in Names
          PROVE  /\ ToldBy(OnTheWay', s, live, live)
                 /\ at = "listed" => ToldBy(OnTheWay', s, listed, live)
                 /\ at = "running" => ToldBy(OnTheWay', s, sessions, live)
      BY <1>1, <1>5, <2>3, <3>2, FollowsIsTold, PumpTold
    <3>4. QED
      BY <2>1, <3>3 DEF Follows, Told, ToldBy
  <2>4. QED
    BY <1>1, <2>1, <2>2, <2>3 DEF Inv
<1>6. CASE PumpEnds
  BY <1>1, <1>6 DEF Inv, PumpEnds, Follows, Told, OnTheWay, tmuxVars, streamVars,
     registryVars
<1>7. CASE Apply
  <2>1. /\ stack' = stack /\ at' = at /\ streamClosed' = streamClosed
        /\ eventClosed' = eventClosed /\ live' = live /\ lost' = lost
        /\ at = "running"
    BY <1>7 DEF Apply, tmuxVars, streamVars
  <2>2. stack # "off"
    BY <2>1 DEF Inv
  <2>3. ASSUME ~streamClosed, ~lost PROVE Follows'
    <3>1. Follows
      BY <2>3 DEF Inv
    <3>2. ASSUME NEW s \in Names
          PROVE  /\ ToldBy(OnTheWay', s, sessions', live)
                 /\ ToldBy(OnTheWay', s, live, live)
      BY <1>1, <1>7, <2>1, <3>1, FollowsIsTold, ApplyTold, ToldLive
    <3>3. QED
      BY <2>1, <3>2 DEF Follows, Told, ToldBy
  <2>4. QED
    BY <1>1, <2>1, <2>2, <2>3 DEF Inv
<1>8. CASE SeeStop \/ SeeClosed \/ RelistFails
  <2>1. /\ live' = live /\ sessions' = sessions /\ listed' = listed
        /\ OnTheWay' = OnTheWay /\ streamClosed' = streamClosed
        /\ lost' = lost /\ stack' = stack /\ eventClosed' = eventClosed
        /\ stream' = stream /\ eventCh' = eventCh /\ stack # "off"
    BY <1>8 DEF Inv, SeeStop, SeeClosed, RelistFails, OnTheWay, tmuxVars,
       streamVars, eventVars
  <2>2. at' = "stale" => streamClosed
    BY <1>8 DEF Inv, SeeStop, SeeClosed, RelistFails
  <2>3. ASSUME ~streamClosed, Follows PROVE Follows'
    <3>1. at = "running" /\ at' \in {"ended", "running"}
      BY <1>8, <2>3 DEF Inv, SeeStop, SeeClosed, RelistFails
    <3>2. QED
      BY <2>1, <2>3, <3>1 DEF Follows, Told
  <2>4. QED
    BY <1>1, <2>1, <2>2, <2>3 DEF Inv
<1>9. CASE ListSessions
  <2>1. listed' = live /\ at' = "listed" /\ live' = live /\ OnTheWay' = OnTheWay
    BY <1>9 DEF ListSessions, OnTheWay, tmuxVars, streamVars, eventVars
  <2>2. Follows => Follows'
    BY <2>1 DEF Follows, Told
  <2>3. QED
    BY <1>1, <1>9, <2>2 DEF Inv, ListSessions, tmuxVars, streamVars, eventVars
<1>10. CASE Populate
  <2>1. sessions' = listed /\ at' = "running" /\ at = "listed" /\ live' = live
        /\ OnTheWay' = OnTheWay
    BY <1>10 DEF Populate, OnTheWay, tmuxVars, streamVars, eventVars
  <2>2. Follows => Follows'
    BY <2>1 DEF Follows, Told
  <2>3. QED
    BY <1>1, <1>10, <2>2 DEF Inv, Populate, tmuxVars, streamVars, eventVars
<1>11. CASE BridgeStart \/ GatewayStarts \/ Stop
  <2>1. live' = live /\ sessions' = sessions /\ listed' = listed
        /\ OnTheWay' = OnTheWay /\ (at' = at \/ at' = "listing")
    BY <1>11 DEF BridgeStart, GatewayStarts, Stop, OnTheWay, tmuxVars, streamVars,
       eventVars, registryVars
  <2>2. Follows => Follows'
    BY <2>1 DEF Follows, Told
  <2>3. QED
    BY <1>1, <1>11, <2>2 DEF Inv, BridgeStart, GatewayStarts, Stop, tmuxVars,
       streamVars, eventVars, registryVars
<1>12. CASE UNCHANGED vars
  BY <1>1, <1>12, SMTT(60) DEF Inv, Follows, Told, OnTheWay, vars, tmuxVars, streamVars,
     eventVars, registryVars
<1>13. QED
  BY <1>0, <1>2, <1>3, <1>4, <1>5, <1>6, <1>7, <1>8, <1>9, <1>10, <1>11, <1>12
     DEF Next, PumpStep, RunStep, StackStep

(* The invariant holds in every behaviour of the chain and its stack.      *)
THEOREM InvHolds == Spec => []Inv
BY InitInv, StepInv, PTL DEF Spec

(* Channels keep within their room, whatever their capacity.               *)
THEOREM TypeCorrect == Spec => []TypeOK
<1>1. Inv => TypeOK
  BY DEF Inv
<1>2. QED
  BY <1>1, InvHolds, PTL

(* While the connection is up and the registry was told of every change,   *)
(* the map of the registry and the reports on the way say which sessions   *)
(* tmux has, for any number of sessions, changes and places in the         *)
(* channels.                                                               *)
THEOREM FollowsCorrect == Spec => []RegistryFollowsTmux
<1>1. Inv => RegistryFollowsTmux
  BY DEF Inv, Follows, RegistryFollowsTmux
<1>2. QED
  BY <1>1, InvHolds, PTL
=============================================================================
