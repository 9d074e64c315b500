----------------------- MODULE LiveMemberAgree_proofs -----------------------
(* The rows, the record and the peer agree once nobody is at work: the       *)
(* inductive invariant of LiveMember's agreements, and their theorems.       *)
EXTENDS LiveMember_proofs

-----------------------------------------------------------------------------
(* Agreement: once the handlers of a concern are done, the rows, the record  *)
(* and the peer say the same.  Until then the one handler that is about the  *)
(* concern knows what is still to be done.                                   *)

Everything == {"trip", "sos", "path"}

TripWork == TripPcs \cup {"safe_trip", "con_group", "con_trips"}
SosWork == SosPcs \cup SafePcs \cup {"con_group", "con_trips"}
PathWork ==
  {"loc_path", "sos_flag", "sos_path", "safe_flag", "safe_path", "sw_snapshot",
   "con_group", "con_trips"}

LEMMA ConcernSets ==
  \A pc : /\ "trip" \in Concerns(pc) <=> pc \in TripWork
          /\ "sos" \in Concerns(pc) <=> pc \in SosWork
          /\ "path" \in Concerns(pc) <=> pc \in PathWork
          /\ Concerns(pc) \subseteq Everything
BY DEF Concerns, TripWork, TripPcs, SosWork, PathWork, Everything

\* Handlers that are about the same have clashed.
Exclusive ==
  \A s, t \in Slots :
    s # t => Concerns(call[s].pc) \cap Concerns(call[t].pc) \subseteq clash

\* A step of slot s, into the state d.
Turn(s, d) ==
  /\ call' = [call EXCEPT ![s] = d] /\ clash \subseteq clash'
  /\ \A t \in Slots \ {s} : Concerns(d.pc) \cap Concerns(call[t].pc) \subseteq clash'

\* buildGroupSession reads the rows and then makes the session of them.
Rebuilding(c) == c.pc \in {"con_group", "con_trips"}
HasRead(c) == c.pc = "con_trips" \/ (c.pc = "con_group" /\ c.ran)

Visiting(s) == s \in Sweeps /\ call[s].pc \notin {"idle", "sw_end"}

SessionInv ==
  /\ Exclusive
  \* The object a handler works on holds the user, and is the session's.
  /\ \A s \in Slots : call[s].obj # None =>
       /\ heap[call[s].obj].in
       /\ cur = None \/ call[s].obj = cur \/ Everything \subseteq clash
  \* A session is rebuilt by one handler, while there is none.
  /\ \A s \in Slots : Rebuilding(call[s]) => cur = None \/ Everything \subseteq clash
  /\ cur = None => ~view.on
  \* A pass that has looked at the user goes on with a record that holds it,
  \* and has nothing to do for a record that is no longer the session's.
  /\ \A s \in Slots : Visiting(s) =>
       /\ call[s].pc # "sw_visit" => heap[call[s].grp].in
       /\ \/ cur = None \/ call[s].grp = cur \/ "path" \in clash
          \/ ~heap[call[s].grp].in \/ heap[call[s].grp].offline

-----------------------------------------------------------------------------
(* What each handler has done for its concern: c is its state, `on` says     *)
(* that there is a session, m the user's record in it, r the row.            *)

SosFits(c, on, m, r) ==
  /\ HasRead(c) => c.row.sos = r.sos
  /\ on /\ c.pc \in SosPcs => m.sos /\ ((c.pc = "sos_flag" /\ ~c.ran) \/ r.sos)
  /\ on /\ c.pc \in SafePcs => ~m.sos /\ ((c.pc = "safe_flag" /\ ~c.ran) \/ ~r.sos)

SosMatch(m, r, v) == r.sos = m.sos /\ (v.on => v.sos = m.sos)

SosInv ==
  "sos" \notin clash =>
    /\ \A s \in Slots : SosFits(call[s], cur # None, heap[cur], row)
    /\ Live /\ (\A s \in Slots : call[s].pc \notin SosWork) => SosMatch(heap[cur], row, view)
    /\ cur # None /\ ~heap[cur].in /\ view.on => ~view.sos

Prefix(p, q) == Len(p) <= Len(q) /\ \A i \in 1..Len(p) : p[i] = q[i]

PathFits(c, on, m, r) ==
  /\ HasRead(c) => c.row.path = r.path
  /\ on /\ c.pc \in {"loc_path", "sos_path", "safe_path", "sw_snapshot"} =>
       Prefix(c.path, m.path) /\ (c.ran => r.path = c.path)

PathInv ==
  "path" \notin clash =>
    /\ \A s \in Slots : PathFits(call[s], cur # None, heap[cur], row)
    /\ Live /\ (\A s \in Slots : call[s].pc \notin PathWork) => Prefix(row.path, heap[cur].path)
    /\ cur # None => \A s \in Slots : call[s].pc = "sw_snapshot" => call[s].grp = cur

Active(ts) == {t \in Trips : ts[t].st = "ACTIVE"}

\* The record, or the call, names the ACTIVE row if there is one.
Names(m, ts) == Active(ts) = {m.trip} \ {None} /\ (m.trip # None => ts[m.trip].eta = m.eta)

TripFits(c, on, m, ts) ==
  /\ c.pc \in {"trip_close", "end_close"} \/ (on /\ c.pc = "safe_trip") =>
       Active(ts) = IF c.ran THEN {} ELSE {c.trip}
  /\ c.pc = "trip_create" =>
       IF c.ran THEN Active(ts) = {c.trip} /\ ts[c.trip].eta = c.eta ELSE Active(ts) = {}
  /\ c.pc = "ext_eta" =>
       /\ Active(ts) = {c.trip} /\ (c.ran => ts[c.trip].eta = c.eta)
       /\ on => m.trip = c.trip /\ m.eta = c.eta
  /\ c.pc = "con_trips" /\ c.ran => Names(c, ts)

TripMatch(m, ts, v) == Names(m, ts) /\ (v.on => v.eta = m.eta)

ArrivalInv ==
  "trip" \notin clash =>
    /\ \A t, u \in Active(trips) : t = u
    /\ \A s \in Slots : TripFits(call[s], cur # None, heap[cur], trips)
    /\ Live /\ (\A s \in Slots : call[s].pc \notin TripWork) => TripMatch(heap[cur], trips, view)
    /\ cur # None /\ ~heap[cur].in /\ view.on => view.eta = None

AgreeInv == SessionInv /\ SosInv /\ PathInv /\ ArrivalInv

LEMMA PrefixIsSubSeq ==
  ASSUME NEW p \in Paths, NEW q \in Paths, Prefix(p, q)
  PROVE  Len(p) <= Len(q) /\ p = SubSeq(q, 1, Len(p))
BY DEF Prefix, Paths

LEMMA PrefixGrows ==
  ASSUME NEW p \in Paths, NEW q \in Paths, Prefix(p, q), NEW l \in Locs
  PROVE  Prefix(p, Append(q, l))
BY DEF Prefix, Paths

LEMMA PrefixOfSelf == \A p \in Paths : Prefix(p, p) /\ Prefix(<<>>, p)
BY DEF Prefix, Paths

LEMMA AgreeImplies == TypeOK /\ AgreeInv => SosAgreement /\ PathAgreement /\ TripAgreement
<1> SUFFICES ASSUME TypeOK, AgreeInv PROVE SosAgreement /\ PathAgreement /\ TripAgreement
  OBVIOUS
<1>1. ASSUME NEW X, X \notin InFlight(Slots), NEW s \in Slots PROVE X \notin Concerns(call[s].pc)
  BY <1>1 DEF InFlight
<1>2. SosAgreement
  BY <1>1, ConcernSets DEF AgreeInv, SosInv, SosMatch, SosAgreement, Settled
<1>3. PathAgreement
  <2> SUFFICES ASSUME Settled("path")
               PROVE  /\ Len(row.path) <= Len(heap[cur].path)
                      /\ row.path = SubSeq(heap[cur].path, 1, Len(row.path))
    BY DEF PathAgreement
  <2>1. Prefix(row.path, heap[cur].path)
    BY <1>1, ConcernSets DEF AgreeInv, PathInv, Settled
  <2>2. row.path \in Paths /\ heap[cur].path \in Paths
    BY StateTyped DEF Settled, Live, TypeOK, RowType, MemberType
  <2>3. QED
    BY <2>1, <2>2, PrefixIsSubSeq
<1>4. TripAgreement
  BY <1>1, ConcernSets
  DEF AgreeInv, ArrivalInv, TripMatch, Names, Active, TripAgreement, ActiveTrips, Settled
<1>5. QED
  BY <1>2, <1>3, <1>4

-----------------------------------------------------------------------------
(* Turns of one slot *)

LEMMA AwaitTurn ==
  ASSUME NEW s \in Slots, NEW c, Await(s, c)
  PROVE  Turn(s, c)
BY DEF Await, Turn, InFlight

LEMMA IdleConcerns == Concerns("idle") = {} /\ NoCall.pc = "idle"
BY DEF Concerns, NoCall, SosPcs, SafePcs

LEMMA ReturnTurn ==
  ASSUME NEW s \in Slots, Return(s)
  PROVE  Turn(s, NoCall)
BY IdleConcerns DEF Return, Turn

\* Whoever goes on with the same concerns meets the same others.
LEMMA SameTurn ==
  ASSUME SessionInv, NEW s \in Slots, NEW d, call' = [call EXCEPT ![s] = d],
         clash \subseteq clash', Concerns(d.pc) \subseteq Concerns(call[s].pc)
  PROVE  Turn(s, d)
BY DEF Turn, SessionInv, Exclusive

LEMMA TurnSlots ==
  ASSUME TypeOK, NEW s \in Slots, NEW d, Turn(s, d)
  PROVE  call'[s] = d /\ \A t \in Slots \ {s} : call'[t] = call[t]
BY DEF TypeOK, Turn

\* The others are about something else than the handler that takes its turn.
LEMMA Alone ==
  ASSUME TypeOK, SessionInv, NEW s \in Slots, NEW d, Turn(s, d), NEW X, X \notin clash',
         X \in Concerns(call[s].pc) \cup Concerns(d.pc), NEW t \in Slots \ {s}
  PROVE  X \notin Concerns(call[t].pc)
BY DEF SessionInv, Exclusive, Turn

\* No record loses the user; the records of other sessions stay as they are.
RecordsStay ==
  \A o \in Objs :
    /\ heap[o].in => heap'[o].in
    /\ o # cur => heap'[o].in = heap[o].in /\ (heap[o].offline => heap'[o].offline)

SlotOK(s, d) ==
  /\ d.obj # None => d.obj = call[s].obj \/ (d.obj = cur /\ heap'[cur].in)
  /\ Rebuilding(d) => Rebuilding(call[s]) \/ cur = None
  /\ s \in Sweeps /\ d.pc \notin {"idle", "sw_end"} =>
       /\ d.pc # "sw_visit" => heap'[d.grp].in
       /\ d.grp = cur \/ (Visiting(s) /\ d.grp = call[s].grp)

LEMMA SessionKept ==
  ASSUME TypeOK, SessionInv, NEW s \in Slots, NEW d, Turn(s, d), cur' = cur, RecordsStay,
         SlotOK(s, d), view'.on => cur # None
  PROVE  SessionInv'
<1>1. call'[s] = d /\ \A t \in Slots \ {s} : call'[t] = call[t]
  BY TurnSlots
<1>2. \A t \in Slots : call[t].obj # None => call[t].obj \in Objs
  BY StateTyped DEF CallType, Maybe
<1>3. \A t \in Slots : Visiting(t) => call[t].grp \in Objs
  BY StateTyped DEF CallOK, Visiting
<1>4. Exclusive'
  <2> SUFFICES ASSUME NEW p \in Slots, NEW t \in Slots, p # t
               PROVE  Concerns(call'[p].pc) \cap Concerns(call'[t].pc) \subseteq clash'
    BY DEF Exclusive
  <2>1. CASE p # s /\ t # s
    BY <1>1, <2>1 DEF SessionInv, Exclusive, Turn
  <2>2. CASE p = s \/ t = s
    BY <1>1, <2>2 DEF Turn
  <2>3. QED
    BY <2>1, <2>2
<1>5. ASSUME NEW t \in Slots, call'[t].obj # None
      PROVE  /\ heap'[call'[t].obj].in
             /\ cur' = None \/ call'[t].obj = cur' \/ Everything \subseteq clash'
  BY <1>1, <1>2, <1>5 DEF SessionInv, Turn, RecordsStay, SlotOK
<1>6. ASSUME NEW t \in Slots, Rebuilding(call'[t])
      PROVE  cur' = None \/ Everything \subseteq clash'
  BY <1>1, <1>6 DEF SessionInv, Turn, SlotOK
<1>7. ASSUME NEW t \in Slots, Visiting(t)'
      PROVE  /\ call'[t].pc # "sw_visit" => heap'[call'[t].grp].in
             /\ \/ cur' = None \/ call'[t].grp = cur' \/ "path" \in clash'
                \/ ~heap'[call'[t].grp].in \/ heap'[call'[t].grp].offline
  <2>1. CASE t # s
    BY <1>1, <1>3, <1>7, <2>1 DEF SessionInv, Turn, RecordsStay, Visiting
  <2>2. CASE t = s
    BY <1>1, <1>3, <1>7, <2>2 DEF SessionInv, Turn, RecordsStay, SlotOK, Visiting
  <2>3. QED
    BY <2>1, <2>2
<1>8. QED
  BY <1>4, <1>5, <1>6, <1>7 DEF SessionInv, Rebuilding, Visiting

-----------------------------------------------------------------------------
(* Steps that leave what is agreed upon as it is.  The state of the handler   *)
(* must fit it, and a handler that is done with a concern must have settled   *)
(* it.                                                                       *)

SosSame ==
  /\ row'.sos = row.sos
  /\ cur # None => heap'[cur].in = heap[cur].in /\ heap'[cur].sos = heap[cur].sos

SosShown ==
  "sos" \notin clash' /\ view'.on =>
    \/ view.on /\ view'.sos = view.sos
    \/ cur # None /\ view'.sos = (heap[cur].in /\ heap[cur].sos)

SosFit(d) == "sos" \notin clash' => SosFits(d, cur # None, heap[cur], row)

SosDone(s, d) ==
  "sos" \notin clash' /\ Live /\ call[s].pc \in SosWork /\ d.pc \notin SosWork =>
    SosMatch(heap[cur], row, view')

LEMMA SosKept ==
  ASSUME TypeOK, SosInv, NEW s \in Slots, NEW d, Turn(s, d), cur' = cur,
         SosSame, SosShown, SosFit(d), SosDone(s, d)
  PROVE  SosInv'
<1> SUFFICES ASSUME "sos" \notin clash' PROVE SosInv'
  BY DEF SosInv
<1>1. "sos" \notin clash /\ call'[s] = d /\ \A t \in Slots \ {s} : call'[t] = call[t]
  BY TurnSlots DEF Turn
<1>2. ASSUME NEW t \in Slots PROVE SosFits(call'[t], cur # None, heap'[cur], row')
  <2>1. SosFits(call'[t], cur # None, heap[cur], row)
    BY <1>1 DEF SosInv, SosFit
  <2>2. QED
    BY <2>1 DEF SosFits, SosSame
<1>3. ASSUME Live', \A t \in Slots : call'[t].pc \notin SosWork
      PROVE  SosMatch(heap'[cur], row', view')
  <2>1. Live
    BY <1>3 DEF Live, SosSame
  <2>2. CASE call[s].pc \in SosWork
    BY <1>1, <1>3, <2>1, <2>2 DEF SosDone, SosMatch, SosSame, Live
  <2>3. CASE call[s].pc \notin SosWork
    <3>1. SosMatch(heap[cur], row, view)
      BY <1>1, <1>3, <2>1, <2>3 DEF SosInv
    <3>2. QED
      BY <2>1, <3>1, StateTyped DEF SosMatch, SosSame, SosShown, Live, MemberType
  <2>4. QED
    BY <2>2, <2>3
<1>4. cur' # None /\ ~heap'[cur].in /\ view'.on => ~view'.sos
  BY <1>1 DEF SosInv, SosSame, SosShown
<1>5. QED
  BY <1>2, <1>3, <1>4 DEF SosInv

PathSame ==
  /\ row'.path = row.path
  /\ cur # None => heap'[cur].in = heap[cur].in /\ Prefix(heap[cur].path, heap'[cur].path)

PathFit(d) ==
  "path" \notin clash' =>
    /\ PathFits(d, cur # None, heap'[cur], row)
    /\ cur # None /\ d.pc = "sw_snapshot" => d.grp = cur

PathDone(s, d) ==
  "path" \notin clash' /\ Live /\ call[s].pc \in PathWork /\ d.pc \notin PathWork =>
    Prefix(row.path, heap[cur].path)

LEMMA PrefixTrans ==
  ASSUME NEW p \in Paths, NEW q \in Paths, NEW r \in Paths, Prefix(p, q), Prefix(q, r)
  PROVE  Prefix(p, r)
BY DEF Prefix, Paths

LEMMA PathKept ==
  ASSUME TypeOK, TypeOK', PathInv, NEW s \in Slots, NEW d, Turn(s, d), cur' = cur,
         PathSame, PathFit(d), PathDone(s, d)
  PROVE  PathInv'
<1> SUFFICES ASSUME "path" \notin clash' PROVE PathInv'
  BY DEF PathInv
<1>1. "path" \notin clash /\ call'[s] = d /\ \A t \in Slots \ {s} : call'[t] = call[t]
  BY TurnSlots DEF Turn
<1>2. row.path \in Paths /\ \A t \in Slots : call[t].path \in Paths
  BY StateTyped DEF TypeOK, RowType, CallType
<1>3. cur # None => heap[cur].path \in Paths /\ heap'[cur].path \in Paths
  <2>1. cur # None => heap[cur] \in MemberType /\ heap'[cur] \in MemberType
    BY StateTyped DEF TypeOK
  <2>2. QED
    BY <2>1 DEF MemberType
<1>4. ASSUME NEW t \in Slots PROVE PathFits(call'[t], cur # None, heap'[cur], row')
  <2>1. CASE t = s
    BY <1>1, <2>1 DEF PathFit, PathFits, PathSame
  <2>2. CASE t # s
    <3>1. PathFits(call[t], cur # None, heap[cur], row)
      BY <1>1 DEF PathInv
    <3>2. call[t].path \in Paths
      BY <1>2
    <3>3. cur # None /\ Prefix(call[t].path, heap[cur].path) =>
            Prefix(call[t].path, heap'[cur].path)
      BY <1>3, <3>2, PrefixTrans DEF PathSame
    <3>4. QED
      BY <1>1, <2>2, <3>1, <3>3 DEF PathFits, PathSame
  <2>3. QED
    BY <2>1, <2>2
<1>5. ASSUME Live', \A t \in Slots : call'[t].pc \notin PathWork
      PROVE  Prefix(row'.path, heap'[cur].path)
  <2>1. Live
    BY <1>5 DEF Live, PathSame
  <2>2. Prefix(row.path, heap[cur].path)
    BY <1>1, <1>5, <2>1 DEF PathInv, PathDone
  <2>3. QED
    BY <1>2, <1>3, <2>1, <2>2, PrefixTrans DEF PathSame, Live
<1>6. cur' # None => \A t \in Slots : call'[t].pc = "sw_snapshot" => call'[t].grp = cur'
  BY <1>1 DEF PathInv, PathFit
<1>7. QED
  BY <1>4, <1>5, <1>6 DEF PathInv

TripSame ==
  /\ trips' = trips
  /\ cur # None => /\ heap'[cur].in = heap[cur].in
                   /\ heap'[cur].trip = heap[cur].trip /\ heap'[cur].eta = heap[cur].eta

EtaShown ==
  "trip" \notin clash' /\ view'.on =>
    \/ view.on /\ view'.eta = view.eta
    \/ cur # None /\ view'.eta = IF heap[cur].in THEN heap[cur].eta ELSE None

TripFit(d) == "trip" \notin clash' => TripFits(d, cur # None, heap[cur], trips)

TripDone(s, d) ==
  "trip" \notin clash' /\ Live /\ call[s].pc \in TripWork /\ d.pc \notin TripWork =>
    TripMatch(heap[cur], trips, view')

LEMMA TripKept ==
  ASSUME TypeOK, ArrivalInv, NEW s \in Slots, NEW d, Turn(s, d), cur' = cur,
         TripSame, EtaShown, TripFit(d), TripDone(s, d)
  PROVE  ArrivalInv'
<1> SUFFICES ASSUME "trip" \notin clash' PROVE ArrivalInv'
  BY DEF ArrivalInv
<1>1. "trip" \notin clash /\ call'[s] = d /\ \A t \in Slots \ {s} : call'[t] = call[t]
  BY TurnSlots DEF Turn
<1>2. ASSUME NEW t \in Slots PROVE TripFits(call'[t], cur # None, heap'[cur], trips')
  <2>1. TripFits(call'[t], cur # None, heap[cur], trips)
    BY <1>1 DEF ArrivalInv, TripFit
  <2>2. QED
    BY <2>1 DEF TripFits, TripSame
<1>3. ASSUME Live', \A t \in Slots : call'[t].pc \notin TripWork
      PROVE  TripMatch(heap'[cur], trips', view')
  <2>1. Live
    BY <1>3 DEF Live, TripSame
  <2>2. CASE call[s].pc \in TripWork
    BY <1>1, <1>3, <2>1, <2>2 DEF TripDone, TripMatch, Names, TripSame, Live
  <2>3. CASE call[s].pc \notin TripWork
    <3>1. TripMatch(heap[cur], trips, view)
      BY <1>1, <1>3, <2>1, <2>3 DEF ArrivalInv
    <3>2. QED
      BY <2>1, <3>1 DEF TripMatch, Names, TripSame, EtaShown, Live
  <2>4. QED
    BY <2>2, <2>3
<1>4. cur' # None /\ ~heap'[cur].in /\ view'.on => view'.eta = None
  BY <1>1 DEF ArrivalInv, TripSame, EtaShown
<1>5. \A t, u \in Active(trips') : t = u
  BY <1>1 DEF ArrivalInv, TripSame
<1>6. QED
  BY <1>2, <1>3, <1>4, <1>5 DEF ArrivalInv

-----------------------------------------------------------------------------
(* Steps that change it.  No other handler is about the same concern, so     *)
(* only the state of this one has to fit what it did.                        *)

LEMMA SosSole ==
  ASSUME TypeOK, NEW s \in Slots, NEW d, Turn(s, d),
         "sos" \notin clash' => \A t \in Slots \ {s} : call[t].pc \notin SosWork,
         "sos" \notin clash' =>
           /\ SosFits(d, cur' # None, heap'[cur'], row')
           /\ Live' /\ d.pc \notin SosWork => SosMatch(heap'[cur'], row', view')
           /\ cur' # None /\ ~heap'[cur'].in /\ view'.on => ~view'.sos
  PROVE  SosInv'
<1> SUFFICES ASSUME "sos" \notin clash' PROVE SosInv'
  BY DEF SosInv
<1>1. call'[s] = d /\ \A t \in Slots \ {s} : call'[t] = call[t]
  BY TurnSlots
<1>2. ASSUME NEW t \in Slots \ {s} PROVE SosFits(call'[t], cur' # None, heap'[cur'], row')
  BY <1>1 DEF SosFits, HasRead, SosWork
<1>3. QED
  BY <1>1, <1>2 DEF SosInv

LEMMA SosOwn ==
  ASSUME TypeOK, SessionInv, NEW s \in Slots, NEW d, Turn(s, d),
         call[s].pc \in SosWork \/ d.pc \in SosWork,
         "sos" \notin clash' =>
           /\ SosFits(d, cur' # None, heap'[cur'], row')
           /\ Live' /\ d.pc \notin SosWork => SosMatch(heap'[cur'], row', view')
           /\ cur' # None /\ ~heap'[cur'].in /\ view'.on => ~view'.sos
  PROVE  SosInv'
BY Alone, ConcernSets, SosSole

LEMMA PathSole ==
  ASSUME TypeOK, NEW s \in Slots, NEW d, Turn(s, d),
         "path" \notin clash' => \A t \in Slots \ {s} : call[t].pc \notin PathWork,
         "path" \notin clash' =>
           /\ PathFits(d, cur' # None, heap'[cur'], row')
           /\ cur' # None /\ d.pc = "sw_snapshot" => d.grp = cur'
           /\ Live' /\ d.pc \notin PathWork => Prefix(row'.path, heap'[cur'].path)
  PROVE  PathInv'
<1> SUFFICES ASSUME "path" \notin clash' PROVE PathInv'
  BY DEF PathInv
<1>1. call'[s] = d /\ \A t \in Slots \ {s} : call'[t] = call[t]
  BY TurnSlots
<1>2. ASSUME NEW t \in Slots \ {s}
      PROVE  /\ PathFits(call'[t], cur' # None, heap'[cur'], row')
             /\ call'[t].pc # "sw_snapshot"
  BY <1>1 DEF PathFits, HasRead, PathWork
<1>3. QED
  BY <1>1, <1>2 DEF PathInv

LEMMA PathOwn ==
  ASSUME TypeOK, SessionInv, NEW s \in Slots, NEW d, Turn(s, d),
         call[s].pc \in PathWork \/ d.pc \in PathWork,
         "path" \notin clash' =>
           /\ PathFits(d, cur' # None, heap'[cur'], row')
           /\ cur' # None /\ d.pc = "sw_snapshot" => d.grp = cur'
           /\ Live' /\ d.pc \notin PathWork => Prefix(row'.path, heap'[cur'].path)
  PROVE  PathInv'
BY Alone, ConcernSets, PathSole

LEMMA TripSole ==
  ASSUME TypeOK, NEW s \in Slots, NEW d, Turn(s, d),
         "trip" \notin clash' => \A t \in Slots \ {s} : call[t].pc \notin TripWork,
         "trip" \notin clash' =>
           /\ \A t, u \in Active(trips') : t = u
           /\ TripFits(d, cur' # None, heap'[cur'], trips')
           /\ Live' /\ d.pc \notin TripWork => TripMatch(heap'[cur'], trips', view')
           /\ cur' # None /\ ~heap'[cur'].in /\ view'.on => view'.eta = None
  PROVE  ArrivalInv'
<1> SUFFICES ASSUME "trip" \notin clash' PROVE ArrivalInv'
  BY DEF ArrivalInv
<1>1. call'[s] = d /\ \A t \in Slots \ {s} : call'[t] = call[t]
  BY TurnSlots
<1>2. ASSUME NEW t \in Slots \ {s} PROVE TripFits(call'[t], cur' # None, heap'[cur'], trips')
  BY <1>1 DEF TripFits, TripWork, TripPcs
<1>3. QED
  BY <1>1, <1>2 DEF ArrivalInv

LEMMA TripOwn ==
  ASSUME TypeOK, SessionInv, NEW s \in Slots, NEW d, Turn(s, d),
         call[s].pc \in TripWork \/ d.pc \in TripWork,
         "trip" \notin clash' =>
           /\ \A t, u \in Active(trips') : t = u
           /\ TripFits(d, cur' # None, heap'[cur'], trips')
           /\ Live' /\ d.pc \notin TripWork => TripMatch(heap'[cur'], trips', view')
           /\ cur' # None /\ ~heap'[cur'].in /\ view'.on => view'.eta = None
  PROVE  ArrivalInv'
BY Alone, ConcernSets, TripSole

-----------------------------------------------------------------------------
(* Steps that leave all three as they are *)

\* No record changes in what is agreed upon.
Alike ==
  \A o \in Objs :
    /\ heap'[o].in = heap[o].in /\ heap'[o].sos = heap[o].sos
    /\ heap'[o].path = heap[o].path
    /\ heap'[o].trip = heap[o].trip /\ heap'[o].eta = heap[o].eta
    /\ o # cur /\ heap[o].offline => heap'[o].offline

Undisturbed ==
  /\ cur' = cur /\ Alike /\ trips' = trips
  /\ row'.sos = row.sos /\ row'.path = row.path
  /\ view'.on => view.on
  /\ SosShown /\ EtaShown

Fit(d) == SosFit(d) /\ PathFit(d) /\ TripFit(d)
Done(s, d) == SosDone(s, d) /\ PathDone(s, d) /\ TripDone(s, d)

\* Slot s goes on as d.
GoesOn(s, d) == Turn(s, d) /\ SlotOK(s, d) /\ Fit(d) /\ Done(s, d)

LEMMA Quiet ==
  ASSUME TypeOK, TypeOK', AgreeInv, NEW s \in Slots, NEW d, GoesOn(s, d), Undisturbed
  PROVE  AgreeInv'
<1>1. cur # None => cur \in Objs /\ heap[cur].path \in Paths
  BY StateTyped DEF MemberType
<1>2. RecordsStay
  BY DEF RecordsStay, Undisturbed, Alike
<1>3. SessionInv'
  BY <1>2, SessionKept DEF AgreeInv, SessionInv, GoesOn, Undisturbed
<1>4. SosInv'
  <2>1. SosSame
    BY <1>1 DEF SosSame, Undisturbed, Alike
  <2>2. QED
    BY <2>1, SosKept DEF AgreeInv, GoesOn, Fit, Done, Undisturbed
<1>5. PathInv'
  <2>1. PathSame
    BY <1>1, PrefixOfSelf DEF PathSame, Undisturbed, Alike
  <2>2. QED
    BY <2>1, PathKept DEF AgreeInv, GoesOn, Fit, Done, Undisturbed
<1>6. ArrivalInv'
  <2>1. TripSame
    BY <1>1 DEF TripSame, Undisturbed, Alike
  <2>2. QED
    BY <2>1, TripKept DEF AgreeInv, GoesOn, Fit, Done, Undisturbed
<1>7. QED
  BY <1>3, <1>4, <1>5, <1>6 DEF AgreeInv

\* A handler that is about nothing agreed upon fits whatever is there.
LEMMA NoConcernFits ==
  ASSUME NEW d, Concerns(d.pc) = {}
  PROVE  Fit(d)
<1>1. d.pc \notin SosWork \cup PathWork \cup TripWork
  BY ConcernSets
<1>2. SosFit(d)
  BY <1>1 DEF SosFit, SosFits, HasRead, SosWork
<1>3. PathFit(d)
  BY <1>1 DEF PathFit, PathFits, HasRead, PathWork
<1>4. TripFit(d)
  BY <1>1 DEF TripFit, TripFits, TripWork, TripPcs
<1>5. QED
  BY <1>2, <1>3, <1>4 DEF Fit

\* A handler that was about nothing agreed upon has nothing to settle.
LEMMA NoConcernDone ==
  ASSUME NEW s \in Slots, NEW d, Concerns(call[s].pc) \subseteq Concerns(d.pc)
  PROVE  Done(s, d)
BY ConcernSets DEF Done, SosDone, PathDone, TripDone

LEMMA NoCallSlot == \A s \in Slots : SlotOK(s, NoCall)
BY DEF SlotOK, NoCall, Rebuilding

\* The object of a handler is the session's, unless there is none.
LEMMA OwnObject ==
  ASSUME TypeOK, SessionInv, NEW s \in Slots, call[s].obj # None, NEW X,
         X \in Everything, X \notin clash, cur # None
  PROVE  call[s].obj = cur /\ Live
BY DEF SessionInv, Live

LEMMA SameSlot ==
  ASSUME TypeOK, SessionInv, NEW s \in Slots, NEW d, RecordsStay,
         d.obj \in {None, call[s].obj}, d.grp = call[s].grp, ~Rebuilding(d),
         s \in Sweeps => call[s].pc \notin {"idle", "sw_visit", "sw_end"}
  PROVE  SlotOK(s, d)
<1>1. s \in Sweeps => call[s].grp \in Objs
  BY StateTyped DEF CallOK
<1>2. QED
  BY <1>1 DEF SlotOK, SessionInv, RecordsStay, Visiting

LEMMA ClientSlotOK ==
  ASSUME NEW s \in Slots, s \notin Sweeps, NEW d, ~Rebuilding(d),
         d.obj = None \/ d.obj = call[s].obj \/ (d.obj = cur /\ heap'[cur].in)
  PROVE  SlotOK(s, d)
BY DEF SlotOK

\* When a handler takes up a concern, no other is about it.
LEMMA TakesUp ==
  ASSUME TypeOK, SessionInv, NEW s \in Slots, NEW d, Turn(s, d), NEW X, X \notin clash',
         X \in Concerns(d.pc), X \notin Concerns(call[s].pc)
  PROVE  X \notin clash /\ \A t \in Slots : X \notin Concerns(call[t].pc)
BY Alone DEF Turn

-----------------------------------------------------------------------------
(* startSos after the first segment *)

LEMMA SosFlaggedAgree ==
  ASSUME TypeOK, TypeOK', AgreeInv, NEW s \in Slots, SosFlagged(s)
  PROVE  AgreeInv'
<1> DEFINE p == heap[call[s].obj].path
           d == [call[s] EXCEPT !.pc = "sos_path", !.ran = FALSE, !.path = p]
<1>1. /\ call[s].pc = "sos_flag" /\ call[s].ran /\ call[s].obj \in Objs /\ call[s].obj # None
      /\ heap[call[s].obj].path \in Paths
  BY StateTyped, NoneAssumption DEF SosFlagged, Resumes, At, CallOK, SosPcs, MemberType
<1>2. /\ d.pc = "sos_path" /\ ~d.ran /\ d.path = p /\ d.obj = call[s].obj
      /\ d.grp = call[s].grp
  BY StateTyped DEF CallType
<1>3. Await(s, d)
  BY DEF SosFlagged
<1> HIDE DEF d
<1>4. Turn(s, d)
  BY <1>3, AwaitTurn
<1>5. Undisturbed /\ RecordsStay
  BY DEF SosFlagged, Undisturbed, Alike, RecordsStay, SosShown, EtaShown
<1>6. SlotOK(s, d)
  BY <1>1, <1>2, <1>5, SameSlot DEF AgreeInv, Rebuilding
<1>7. SosFit(d)
  BY <1>1, <1>2, <1>4 DEF SosFit, SosFits, HasRead, Turn, AgreeInv, SosInv, SosPcs, SafePcs
<1>8. PathFit(d)
  <2> SUFFICES ASSUME "path" \notin clash', cur # None PROVE Prefix(d.path, heap'[cur].path)
    BY <1>2 DEF PathFit, PathFits, HasRead
  <2>1. call[s].obj = cur
    BY <1>1, <1>4, OwnObject DEF AgreeInv, Turn, Everything
  <2>2. QED
    BY <1>1, <1>2, <2>1, PrefixOfSelf DEF SosFlagged
<1>9. TripFit(d)
  BY <1>2 DEF TripFit, TripFits
<1>10. Done(s, d)
  BY <1>1, <1>2, NoConcernDone DEF Concerns, SosPcs
<1>11. QED
  BY <1>4, <1>5, <1>6, <1>7, <1>8, <1>9, <1>10, Quiet DEF GoesOn, Fit

LEMMA SosPathSavedAgree ==
  ASSUME TypeOK, TypeOK', AgreeInv, NEW s \in Slots, SosPathSaved(s)
  PROVE  AgreeInv'
<1> DEFINE d == IF heap[call[s].obj].loc # None
                THEN Untracked([call[s] EXCEPT !.pc = "sos_log"])
                ELSE [call[s] EXCEPT !.pc = "sos_notify", !.ran = FALSE]
<1>1. /\ call[s].pc = "sos_path" /\ call[s].ran /\ call[s].obj \in Objs /\ call[s].obj # None
  BY StateTyped, NoneAssumption DEF SosPathSaved, Resumes, At, CallOK, SosPcs
<1>2. d.pc \in {"sos_log", "sos_notify"} /\ d.obj = call[s].obj /\ d.grp = call[s].grp
  BY StateTyped DEF CallType, Untracked
<1>3. Await(s, d)
  BY DEF SosPathSaved
<1> HIDE DEF d
<1>4. Turn(s, d)
  BY <1>3, AwaitTurn
<1>5. Undisturbed /\ RecordsStay
  BY DEF SosPathSaved, Undisturbed, Alike, RecordsStay, SosShown, EtaShown
<1>6. SlotOK(s, d)
  BY <1>1, <1>2, <1>5, SameSlot DEF AgreeInv, Rebuilding
<1>7. SosFit(d)
  BY <1>1, <1>2, <1>4 DEF SosFit, SosFits, HasRead, Turn, AgreeInv, SosInv, SosPcs, SafePcs
<1>8. PathFit(d) /\ TripFit(d)
  BY <1>2 DEF PathFit, PathFits, HasRead, TripFit, TripFits
<1>9. SosDone(s, d) /\ TripDone(s, d)
  BY <1>1, <1>2 DEF SosDone, TripDone, SosWork, SosPcs, TripWork, TripPcs
<1>10. PathDone(s, d)
  BY <1>1, <1>4 DEF PathDone, Turn, AgreeInv, PathInv, PathFits, Live
<1>11. QED
  BY <1>4, <1>5, <1>6, <1>7, <1>8, <1>9, <1>10, Quiet DEF GoesOn, Fit, Done

LEMMA SosLoggedAgree ==
  ASSUME TypeOK, TypeOK', AgreeInv, NEW s \in Slots, SosLogged(s)
  PROVE  AgreeInv'
<1> DEFINE d == [call[s] EXCEPT !.pc = "sos_notify", !.ran = FALSE]
<1>1. /\ call[s].pc = "sos_log" /\ call[s].obj \in Objs /\ call[s].obj # None
  BY StateTyped, NoneAssumption DEF SosLogged, Resumes, At, CallOK, SosPcs
<1>2. d.pc = "sos_notify" /\ d.obj = call[s].obj /\ d.grp = call[s].grp
  BY StateTyped DEF CallType
<1>3. Await(s, d)
  BY DEF SosLogged
<1> HIDE DEF d
<1>4. Turn(s, d)
  BY <1>3, AwaitTurn
<1>5. Undisturbed /\ RecordsStay
  BY DEF SosLogged, Undisturbed, Alike, RecordsStay, SosShown, EtaShown
<1>6. SlotOK(s, d)
  BY <1>1, <1>2, <1>5, SameSlot DEF AgreeInv, Rebuilding
<1>7. SosFit(d)
  BY <1>1, <1>2, <1>4 DEF SosFit, SosFits, HasRead, Turn, AgreeInv, SosInv, SosPcs, SafePcs
<1>8. PathFit(d) /\ TripFit(d)
  BY <1>2 DEF PathFit, PathFits, HasRead, TripFit, TripFits
<1>9. Done(s, d)
  BY <1>1, <1>2, NoConcernDone DEF Concerns, SosPcs
<1>10. QED
  BY <1>4, <1>5, <1>6, <1>7, <1>8, <1>9, Quiet DEF GoesOn, Fit

-----------------------------------------------------------------------------
(* endSos after the first segment *)

LEMMA SafeFlaggedAgree ==
  ASSUME TypeOK, TypeOK', AgreeInv, NEW s \in Slots, SafeFlagged(s)
  PROVE  AgreeInv'
<1> DEFINE d == [call[s] EXCEPT !.pc = "safe_path", !.ran = FALSE, !.path = <<>>]
<1>1. /\ call[s].pc = "safe_flag" /\ call[s].ran /\ s \notin Sweeps
  BY StateTyped DEF SafeFlagged, Resumes, At, CallOK, SosPcs, SweepPcs
<1>2. d.pc = "safe_path" /\ ~d.ran /\ d.path = <<>> /\ d.obj = call[s].obj /\ d.grp = call[s].grp
  BY StateTyped DEF CallType
<1>3. Await(s, d)
  BY DEF SafeFlagged
<1> HIDE DEF d
<1>4. Turn(s, d)
  BY <1>3, AwaitTurn
<1>5. Undisturbed /\ RecordsStay
  BY DEF SafeFlagged, Undisturbed, Alike, RecordsStay, SosShown, EtaShown
<1>6. SlotOK(s, d)
  BY <1>1, <1>2, <1>5, SameSlot DEF AgreeInv, Rebuilding
<1>7. SosFit(d)
  BY <1>1, <1>2, <1>4 DEF SosFit, SosFits, HasRead, Turn, AgreeInv, SosInv, SosPcs, SafePcs
<1>8. PathFit(d)
  <2>1. cur # None => heap'[cur].path \in Paths
    BY StateTyped DEF MemberType, SafeFlagged
  <2>2. QED
    BY <1>2, <2>1, PrefixOfSelf DEF PathFit, PathFits, HasRead
<1>9. TripFit(d)
  BY <1>2 DEF TripFit, TripFits
<1>10. Done(s, d)
  BY <1>1, <1>2, NoConcernDone DEF Concerns, SafePcs, SosPcs
<1>11. QED
  BY <1>4, <1>5, <1>6, <1>7, <1>8, <1>9, <1>10, Quiet DEF GoesOn, Fit

LEMMA SafePathSavedAgree ==
  ASSUME TypeOK, TypeOK', AgreeInv, NEW s \in Slots, SafePathSaved(s)
  PROVE  AgreeInv'
<1> DEFINE t == heap[call[s].obj].trip
           d == IF t # None
                THEN [call[s] EXCEPT !.pc = "safe_trip", !.ran = FALSE, !.trip = t]
                ELSE Untracked([call[s] EXCEPT !.pc = "safe_notify"])
<1>1. /\ call[s].pc = "safe_path" /\ call[s].ran /\ s \notin Sweeps
      /\ call[s].obj \in Objs /\ call[s].obj # None
  BY StateTyped, NoneAssumption
  DEF SafePathSaved, Resumes, At, CallOK, SosPcs, SafePcs, SweepPcs
<1>2. /\ d.obj = call[s].obj /\ d.grp = call[s].grp
      /\ IF t # None THEN d.pc = "safe_trip" /\ ~d.ran /\ d.trip = t ELSE d.pc = "safe_notify"
  BY StateTyped DEF CallType, Untracked
<1>3. Await(s, d)
  BY DEF SafePathSaved
<1> HIDE DEF d
<1>4. Turn(s, d)
  BY <1>3, AwaitTurn
<1>5. Undisturbed /\ RecordsStay
  BY DEF SafePathSaved, Undisturbed, Alike, RecordsStay, SosShown, EtaShown
<1>6. SlotOK(s, d)
  BY <1>1, <1>2, <1>5, SameSlot DEF AgreeInv, Rebuilding
<1>7. SosFit(d)
  BY <1>1, <1>2, <1>4 DEF SosFit, SosFits, HasRead, Turn, AgreeInv, SosInv, SosPcs, SafePcs
<1>8. PathFit(d)
  BY <1>2 DEF PathFit, PathFits, HasRead
<1>9. TripFit(d)
  <2> SUFFICES ASSUME "trip" \notin clash', cur # None, t # None PROVE Active(trips) = {t}
    BY <1>2 DEF TripFit, TripFits
  <2>1. "trip" \in Concerns(d.pc) /\ "trip" \notin Concerns(call[s].pc)
    BY <1>1, <1>2 DEF Concerns
  <2>2. "trip" \notin clash /\ \A u \in Slots : call[u].pc \notin TripWork
    BY <1>4, <2>1, TakesUp, ConcernSets DEF AgreeInv
  <2>3. call[s].obj = cur /\ Live
    BY <1>1, <2>2, OwnObject DEF AgreeInv, Everything
  <2>4. QED
    BY <2>2, <2>3 DEF AgreeInv, ArrivalInv, TripMatch, Names
<1>10. SosDone(s, d) /\ TripDone(s, d)
  BY <1>1, <1>2 DEF SosDone, TripDone, SosWork, SafePcs, TripWork, TripPcs
<1>11. PathDone(s, d)
  BY <1>1, <1>4 DEF PathDone, Turn, AgreeInv, PathInv, PathFits, Live
<1>12. QED
  BY <1>4, <1>5, <1>6, <1>7, <1>8, <1>9, <1>10, <1>11, Quiet DEF GoesOn, Fit, Done

LEMMA SafeNotifiedAgree ==
  ASSUME TypeOK, TypeOK', AgreeInv, NEW s \in Slots, SafeNotified(s)
  PROVE  AgreeInv'
<1>1. /\ call[s].pc = "safe_notify" /\ call[s].obj \in Objs /\ call[s].obj # None
  BY StateTyped, NoneAssumption DEF SafeNotified, Resumes, At, CallOK, SafePcs
<1>2. Turn(s, NoCall)
  BY ReturnTurn DEF SafeNotified
<1>3. view'.on = view.on /\ (view.on => view'.sos = FALSE /\ view'.eta = view.eta)
  BY DEF SafeNotified, Tell, TypeOK, ViewType
<1>4. "sos" \notin clash' /\ cur # None => heap[cur].in /\ ~heap[cur].sos /\ ~row.sos
  <2> SUFFICES ASSUME "sos" \notin clash', cur # None
               PROVE  heap[cur].in /\ ~heap[cur].sos /\ ~row.sos
    OBVIOUS
  <2>1. "sos" \notin clash
    BY <1>2 DEF Turn
  <2>2. Live
    BY <1>1, <2>1, OwnObject DEF AgreeInv, Everything
  <2>3. QED
    BY <1>1, <2>1, <2>2 DEF AgreeInv, SosInv, SosFits, SafePcs, Live
<1>5. view.on => cur # None
  BY DEF AgreeInv, SessionInv
<1>6. Undisturbed
  BY <1>3, <1>4, <1>5 DEF SafeNotified, Undisturbed, Alike, SosShown, EtaShown
<1>7. Fit(NoCall) /\ SlotOK(s, NoCall)
  BY IdleConcerns, NoConcernFits, NoCallSlot
<1>8. SosDone(s, NoCall)
  BY <1>3, <1>4, StateTyped DEF SosDone, SosMatch, Live, TypeOK, RowType, MemberType
<1>9. PathDone(s, NoCall) /\ TripDone(s, NoCall)
  BY <1>1 DEF PathDone, PathWork, TripDone, TripWork, TripPcs
<1>10. QED
  BY <1>2, <1>6, <1>7, <1>8, <1>9, Quiet DEF GoesOn, Done

LEMMA SafeTripClosedAgree ==
  ASSUME TypeOK, TypeOK', AgreeInv, NEW s \in Slots, SafeTripClosed(s)
  PROVE  AgreeInv'
<1> DEFINE d == Untracked([call[s] EXCEPT !.pc = "safe_notify"])
           o == call[s].obj
<1>1. /\ call[s].pc = "safe_trip" /\ call[s].ran /\ s \notin Sweeps /\ o \in Objs /\ o # None
  BY StateTyped, NoneAssumption
  DEF SafeTripClosed, Resumes, At, CallOK, SosPcs, SafePcs, SweepPcs
<1>2. d.pc = "safe_notify" /\ d.obj = o /\ d.grp = call[s].grp
  BY StateTyped DEF CallType, Untracked
<1>3. Await(s, d)
  BY DEF SafeTripClosed
<1>4. heap' = [heap EXCEPT ![o] = ResetTrip(heap[o])]
  BY DEF SafeTripClosed
<1> HIDE DEF d
<1>5. Turn(s, d)
  BY <1>3, AwaitTurn
<1>6. \A u \in Objs :
        /\ heap'[u].in = heap[u].in /\ heap'[u].sos = heap[u].sos
        /\ heap'[u].path = heap[u].path /\ heap'[u].offline = heap[u].offline
        /\ u = o => heap'[u].trip = None /\ heap'[u].eta = None
  BY <1>1, <1>4, StateTyped DEF TypeOK, ResetTrip, MemberType
<1> HIDE DEF o
<1>7. view'.on = view.on /\ (view.on => view'.sos = view.sos /\ view'.eta = None)
  BY DEF SafeTripClosed, Tell, TypeOK, ViewType
<1>8. cur' = cur /\ row' = row /\ trips' = trips /\ (cur # None => cur \in Objs)
  BY StateTyped DEF SafeTripClosed
<1>9. RecordsStay
  BY <1>6 DEF RecordsStay
<1>10. SessionInv'
  <2>1. SlotOK(s, d)
    BY <1>1, <1>2, <1>9, SameSlot DEF AgreeInv, Rebuilding, o
  <2>2. QED
    BY <1>5, <1>7, <1>8, <1>9, <2>1, SessionKept DEF AgreeInv, SessionInv
<1>11. SosInv'
  <2>1. SosSame /\ SosShown
    BY <1>6, <1>7, <1>8 DEF SosSame, SosShown
  <2>2. SosFit(d) /\ SosDone(s, d)
    BY <1>1, <1>2, <1>5
    DEF SosFit, SosFits, SosDone, SosWork, HasRead, Turn, AgreeInv, SosInv, SosPcs, SafePcs
  <2>3. QED
    BY <1>5, <1>8, <2>1, <2>2, SosKept DEF AgreeInv
<1>12. PathInv'
  <2>1. cur # None => heap[cur].path \in Paths
    BY StateTyped DEF MemberType
  <2>2. PathSame
    BY <1>6, <1>8, <2>1, PrefixOfSelf DEF PathSame
  <2>3. PathFit(d) /\ PathDone(s, d)
    BY <1>1, <1>2 DEF PathFit, PathFits, HasRead, PathDone, PathWork
  <2>4. QED
    BY <1>5, <1>8, <2>2, <2>3, PathKept DEF AgreeInv
<1>13. ArrivalInv'
  <2> SUFFICES ASSUME "trip" \notin clash'
               PROVE  /\ \A t, u \in Active(trips) : t = u
                      /\ Live' => TripMatch(heap'[cur], trips, view')
                      /\ cur # None /\ ~heap'[cur].in /\ view'.on => view'.eta = None
    <3>1. TripFits(d, cur' # None, heap'[cur'], trips')
      BY <1>2 DEF TripFits
    <3>2. call[s].pc \in TripWork
      BY <1>1 DEF TripWork
    <3>3. QED
      BY <1>5, <1>8, <3>1, <3>2, TripOwn DEF AgreeInv
  <2>1. "trip" \notin clash
    BY <1>5 DEF Turn
  <2>2. \A t, u \in Active(trips) : t = u
    BY <2>1 DEF AgreeInv, ArrivalInv
  <2>3. ASSUME Live' PROVE TripMatch(heap'[cur], trips, view')
    <3>1. cur # None /\ o = cur
      BY <1>1, <1>8, <2>1, <2>3, OwnObject DEF AgreeInv, Everything, Live, o
    <3>2. Active(trips) = {}
      BY <1>1, <2>1, <3>1 DEF AgreeInv, ArrivalInv, TripFits
    <3>3. QED
      BY <1>6, <1>7, <1>8, <3>1, <3>2 DEF TripMatch, Names
  <2>4. QED
    BY <1>7, <2>2, <2>3
<1>14. QED
  BY <1>10, <1>11, <1>12, <1>13 DEF AgreeInv

-----------------------------------------------------------------------------
(* Trips *)

LEMMA StartTripAgree ==
  ASSUME TypeOK, TypeOK', AgreeInv, NEW s \in Slots, NEW eta \in Etas, StartTrip(s, eta)
  PROVE  AgreeInv'
<1> DEFINE t == heap[cur].trip
           d == IF t # None
                THEN [NoCall EXCEPT !.pc = "trip_close", !.obj = cur, !.eta = eta, !.trip = t]
                ELSE [NoCall EXCEPT !.pc = "trip_create", !.obj = cur, !.eta = eta]
<1>1. s \notin Sweeps /\ call[s].pc = "idle" /\ Live
  BY ClientSlot DEF StartTrip, Control, Issue, At, RequireMember, Live
<1>2. /\ d.obj = cur /\ ~d.ran
      /\ IF t # None THEN d.pc = "trip_close" /\ d.trip = t ELSE d.pc = "trip_create"
  BY DEF NoCall
<1>3. Await(s, d)
  BY DEF StartTrip, NoCall
<1> HIDE DEF d
<1>4. Turn(s, d)
  BY <1>3, AwaitTurn
<1>5. Undisturbed
  BY DEF StartTrip, Undisturbed, Alike, SosShown, EtaShown
<1>6. SlotOK(s, d)
  BY <1>1, <1>2, ClientSlotOK DEF Rebuilding, Live, StartTrip
<1>7. SosFit(d) /\ PathFit(d)
  BY <1>2 DEF SosFit, SosFits, PathFit, PathFits, HasRead, SosPcs, SafePcs
<1>8. TripFit(d)
  <2> SUFFICES ASSUME "trip" \notin clash' PROVE TripFits(d, cur # None, heap[cur], trips)
    BY DEF TripFit
  <2>1. "trip" \in Concerns(d.pc) /\ "trip" \notin Concerns(call[s].pc)
    BY <1>1, <1>2, IdleConcerns DEF Concerns
  <2>2. "trip" \notin clash /\ \A u \in Slots : call[u].pc \notin TripWork
    BY <1>4, <2>1, TakesUp, ConcernSets DEF AgreeInv
  <2>3. Active(trips) = {t} \ {None}
    BY <1>1, <2>2 DEF AgreeInv, ArrivalInv, TripMatch, Names
  <2>4. QED
    BY <1>2, <2>3 DEF TripFits
<1>9. Done(s, d)
  BY <1>1, IdleConcerns, NoConcernDone
<1>10. QED
  BY <1>4, <1>5, <1>6, <1>7, <1>8, <1>9, Quiet DEF GoesOn, Fit

LEMMA EndTripAgree ==
  ASSUME TypeOK, TypeOK', AgreeInv, NEW s \in Slots, EndTrip(s)
  PROVE  AgreeInv'
<1> DEFINE t == heap[cur].trip
           d == [NoCall EXCEPT !.pc = "end_close", !.obj = cur, !.trip = t]
<1>1. s \notin Sweeps /\ call[s].pc = "idle" /\ Live /\ t # None
  BY ClientSlot DEF EndTrip, Control, Issue, At, RequireMember, Live
<1>2. d.obj = cur /\ ~d.ran /\ d.pc = "end_close" /\ d.trip = t
  BY DEF NoCall
<1>3. Await(s, d)
  BY DEF EndTrip
<1> HIDE DEF d
<1>4. Turn(s, d)
  BY <1>3, AwaitTurn
<1>5. Undisturbed
  BY DEF EndTrip, Undisturbed, Alike, SosShown, EtaShown
<1>6. SlotOK(s, d)
  BY <1>1, <1>2, ClientSlotOK DEF Rebuilding, Live, EndTrip
<1>7. SosFit(d) /\ PathFit(d)
  BY <1>2 DEF SosFit, SosFits, PathFit, PathFits, HasRead, SosPcs, SafePcs
<1>8. TripFit(d)
  <2> SUFFICES ASSUME "trip" \notin clash' PROVE TripFits(d, cur # None, heap[cur], trips)
    BY DEF TripFit
  <2>1. "trip" \in Concerns(d.pc) /\ "trip" \notin Concerns(call[s].pc)
    BY <1>1, <1>2, IdleConcerns DEF Concerns
  <2>2. "trip" \notin clash /\ \A u \in Slots : call[u].pc \notin TripWork
    BY <1>4, <2>1, TakesUp, ConcernSets DEF AgreeInv
  <2>3. Active(trips) = {t} \ {None}
    BY <1>1, <2>2 DEF AgreeInv, ArrivalInv, TripMatch, Names
  <2>4. QED
    BY <1>1, <1>2, <2>3 DEF TripFits
<1>9. Done(s, d)
  BY <1>1, IdleConcerns, NoConcernDone
<1>10. QED
  BY <1>4, <1>5, <1>6, <1>7, <1>8, <1>9, Quiet DEF GoesOn, Fit

LEMMA PreviousTripClosedAgree ==
  ASSUME TypeOK, TypeOK', AgreeInv, NEW s \in Slots, PreviousTripClosed(s)
  PROVE  AgreeInv'
<1> DEFINE d == [call[s] EXCEPT !.pc = "trip_create", !.ran = FALSE, !.trip = None]
<1>1. /\ call[s].pc = "trip_close" /\ call[s].ran /\ s \notin Sweeps
  BY StateTyped DEF PreviousTripClosed, Resumes, At, CallOK, SosPcs, SweepPcs
<1>2. d.pc = "trip_create" /\ ~d.ran /\ d.obj = call[s].obj /\ d.grp = call[s].grp
  BY StateTyped DEF CallType
<1>3. Await(s, d)
  BY DEF PreviousTripClosed
<1> HIDE DEF d
<1>4. Turn(s, d)
  BY <1>3, AwaitTurn
<1>5. Undisturbed /\ RecordsStay
  BY DEF PreviousTripClosed, Undisturbed, Alike, RecordsStay, SosShown, EtaShown
<1>6. SlotOK(s, d)
  BY <1>1, <1>2, <1>5, SameSlot DEF AgreeInv, Rebuilding
<1>7. SosFit(d) /\ PathFit(d)
  BY <1>2 DEF SosFit, SosFits, PathFit, PathFits, HasRead, SosPcs, SafePcs
<1>8. TripFit(d)
  BY <1>1, <1>2, <1>4 DEF TripFit, TripFits, Turn, AgreeInv, ArrivalInv
<1>9. Done(s, d)
  BY <1>1, <1>2, NoConcernDone DEF Concerns, SafePcs, SosPcs
<1>10. QED
  BY <1>4, <1>5, <1>6, <1>7, <1>8, <1>9, Quiet DEF GoesOn, Fit

LEMMA TripExtendedAgree ==
  ASSUME TypeOK, TypeOK', AgreeInv, NEW s \in Slots, TripExtended(s)
  PROVE  AgreeInv'
<1> DEFINE e == heap[call[s].obj].eta
<1>1. /\ call[s].pc = "ext_eta" /\ call[s].ran /\ call[s].obj \in Objs /\ call[s].obj # None
      /\ call[s].trip \in Trips /\ call[s].eta \in Etas /\ call[s].eta # None
      /\ call[s].trip # None
  BY StateTyped, NoneAssumption DEF TripExtended, Resumes, At, CallOK, TripPcs
<1>2. Turn(s, NoCall)
  BY ReturnTurn DEF TripExtended
<1>3. /\ view'.on = view.on /\ view'.sos = view.sos
      /\ IF view.on /\ e # None THEN view'.eta = e ELSE view'.eta = view.eta
  BY DEF TripExtended, Tell, TypeOK, ViewType
<1>4. ASSUME "trip" \notin clash', cur # None
      PROVE  /\ Active(trips) = {heap[cur].trip} /\ heap[cur].trip \in Trips
             /\ trips[heap[cur].trip].eta = heap[cur].eta
             /\ e = heap[cur].eta /\ e # None /\ heap[cur].in
  <2>1. "trip" \notin clash
    BY <1>2, <1>4 DEF Turn
  <2>2. call[s].obj = cur /\ Live
    BY <1>1, <1>4, <2>1, OwnObject DEF AgreeInv, Everything
  <2>3. QED
    BY <1>1, <1>4, <2>1, <2>2 DEF AgreeInv, ArrivalInv, TripFits, Live
<1>5. view.on => cur # None
  BY DEF AgreeInv, SessionInv
<1>6. Undisturbed
  BY <1>3, <1>4, <1>5 DEF TripExtended, Undisturbed, Alike, SosShown, EtaShown
<1>7. Fit(NoCall) /\ SlotOK(s, NoCall)
  BY IdleConcerns, NoConcernFits, NoCallSlot
<1>8. TripDone(s, NoCall)
  <2> SUFFICES ASSUME "trip" \notin clash', Live PROVE TripMatch(heap[cur], trips, view')
    BY DEF TripDone
  <2>1. heap[cur].trip # None
    BY <1>4, NoneAssumption DEF Live
  <2>2. QED
    BY <1>3, <1>4, <2>1 DEF TripMatch, Names, Live
<1>9. PathDone(s, NoCall) /\ SosDone(s, NoCall)
  BY <1>1 DEF PathDone, PathWork, SosDone, SosWork, SosPcs, SafePcs
<1>10. QED
  BY <1>2, <1>6, <1>7, <1>8, <1>9, Quiet DEF GoesOn, Done

\* A handler that ends, or goes on with its sweep, having changed the trip.
LEMMA TripEndedAgree ==
  ASSUME TypeOK, TypeOK', AgreeInv, NEW s \in Slots, TripEnded(s) \/ TripCreated(s)
  PROVE  AgreeInv'
<1> DEFINE o == call[s].obj
           t == IF call[s].pc = "trip_create" THEN call[s].trip ELSE None
           e == IF call[s].pc = "trip_create" THEN call[s].eta ELSE None
<1>1. /\ call[s].pc \in {"end_close", "trip_create"} /\ call[s].ran /\ o \in Objs /\ o # None
      /\ call[s].pc = "trip_create" => call[s].trip \in Trips /\ call[s].trip # None
  BY StateTyped, NoneAssumption DEF TripEnded, TripCreated, Resumes, At, CallOK, TripPcs
<1>2. Turn(s, NoCall)
  BY ReturnTurn DEF TripEnded, TripCreated
<1>3. \A u \in Objs :
        /\ heap'[u].in = heap[u].in /\ heap'[u].sos = heap[u].sos
        /\ heap'[u].path = heap[u].path /\ heap'[u].offline = heap[u].offline
        /\ u = o => heap'[u].trip = t /\ heap'[u].eta = e
  <2> DEFINE Becomes(m) == /\ heap' = [heap EXCEPT ![o] = m]
                           /\ m.in = heap[o].in /\ m.sos = heap[o].sos
                           /\ m.path = heap[o].path /\ m.offline = heap[o].offline
                           /\ m.trip = t /\ m.eta = e
  <2>1. \E m : Becomes(m)
    <3>0. heap[o] \in MemberType
      BY <1>1, StateTyped
    <3>1. CASE TripEnded(s)
      <4>1. call[s].pc # "trip_create" /\ heap' = [heap EXCEPT ![o] = ResetTrip(heap[o])]
        BY <3>1 DEF TripEnded, Resumes, At
      <4>2. Becomes(ResetTrip(heap[o]))
        BY <3>0, <4>1 DEF ResetTrip, MemberType
      <4>3. QED
        BY <4>2
    <3>2. CASE TripCreated(s)
      <4>1. /\ call[s].pc = "trip_create"
            /\ heap' = [heap EXCEPT ![o] = Armed([heap[o] EXCEPT !.trip = t, !.eta = e],
                                                 audit.arms + 1)]
        BY <3>2 DEF TripCreated, Resumes, At
      <4> DEFINE m == Armed([heap[o] EXCEPT !.trip = t, !.eta = e], audit.arms + 1)
      <4>2. Becomes(m)
        BY <3>0, <4>1 DEF Armed, MemberType
      <4>3. QED
        BY <4>2
    <3>3. QED
      BY <3>1, <3>2
  <2>2. QED
    BY <1>1, <2>1 DEF TypeOK
<1>4. view'.on = view.on /\ (view.on => view'.sos = view.sos /\ view'.eta = e)
  <2>1. Tell(view.sos, e)
    BY DEF TripEnded, TripCreated, Resumes, At
  <2>2. QED
    BY <2>1 DEF Tell, TypeOK, ViewType
<1>5. cur' = cur /\ row' = row /\ trips' = trips /\ (cur # None => cur \in Objs)
  BY StateTyped DEF TripEnded, TripCreated
<1>6. RecordsStay
  BY <1>3 DEF RecordsStay
<1>7. SessionInv'
  BY <1>2, <1>4, <1>5, <1>6, NoCallSlot, SessionKept DEF AgreeInv, SessionInv
<1>8. Fit(NoCall)
  BY IdleConcerns, NoConcernFits
<1>9. SosInv'
  <2>1. SosSame /\ SosShown /\ SosDone(s, NoCall)
    BY <1>1, <1>3, <1>4, <1>5 DEF SosSame, SosShown, SosDone, SosWork, SosPcs, SafePcs
  <2>2. QED
    BY <1>2, <1>5, <1>8, <2>1, SosKept DEF AgreeInv, Fit
<1>10. PathInv'
  <2>1. cur # None => heap[cur].path \in Paths
    BY StateTyped DEF MemberType
  <2>2. PathSame /\ PathDone(s, NoCall)
    BY <1>1, <1>3, <1>5, <2>1, PrefixOfSelf DEF PathSame, PathDone, PathWork
  <2>3. QED
    BY <1>2, <1>5, <1>8, <2>2, PathKept DEF AgreeInv, Fit
<1>11. ArrivalInv'
  <2> SUFFICES ASSUME "trip" \notin clash'
               PROVE  /\ \A p, q \in Active(trips) : p = q
                      /\ Live' => TripMatch(heap'[cur], trips, view')
                      /\ cur # None /\ ~heap'[cur].in /\ view'.on => view'.eta = None
    <3>1. TripFits(NoCall, cur' # None, heap'[cur'], trips')
      BY DEF TripFits, NoCall
    <3>2. call[s].pc \in TripWork
      BY <1>1 DEF TripWork, TripPcs
    <3>3. QED
      BY <1>2, <1>5, <3>1, <3>2, TripOwn DEF AgreeInv
  <2>1. "trip" \notin clash
    BY <1>2 DEF Turn
  <2>2. \A p, q \in Active(trips) : p = q
    BY <2>1 DEF AgreeInv, ArrivalInv
  <2>3. ASSUME cur # None PROVE o = cur /\ heap[cur].in
    BY <1>1, <2>1, <2>3, OwnObject DEF AgreeInv, Everything, Live
  <2>4. Active(trips) = {t} \ {None} /\ (t # None => trips[t].eta = e)
    BY <1>1, <2>1 DEF AgreeInv, ArrivalInv, TripFits
  <2>5. QED
    BY <1>3, <1>4, <1>5, <2>2, <2>3, <2>4 DEF TripMatch, Names, Live
<1>12. QED
  BY <1>7, <1>9, <1>10, <1>11 DEF AgreeInv

LEMMA ExtendTripAgree ==
  ASSUME TypeOK, TypeOK', AgreeInv, NEW s \in Slots, NEW eta \in Etas, ExtendTrip(s, eta)
  PROVE  AgreeInv'
<1> DEFINE t == heap[cur].trip
           d == [NoCall EXCEPT !.pc = "ext_eta", !.obj = cur, !.trip = t, !.eta = eta]
           m == Armed([heap[cur] EXCEPT !.eta = eta], audit.arms + 1)
<1>1. s \notin Sweeps /\ call[s].pc = "idle" /\ Live /\ t # None /\ cur \in Objs
  BY ClientSlot, StateTyped DEF ExtendTrip, Control, Issue, At, RequireMember, Live
<1>2. d.obj = cur /\ ~d.ran /\ d.pc = "ext_eta" /\ d.trip = t /\ d.eta = eta
  BY DEF NoCall
<1>3. Await(s, d) /\ heap' = [heap EXCEPT ![cur] = m]
  BY DEF ExtendTrip
<1> HIDE DEF d
<1>4. Turn(s, d)
  BY <1>3, AwaitTurn
<1>5. /\ m.in = heap[cur].in /\ m.sos = heap[cur].sos /\ m.path = heap[cur].path
      /\ m.offline = heap[cur].offline /\ m.trip = t /\ m.eta = eta
  BY <1>1, StateTyped DEF Armed, MemberType
<1> HIDE DEF m
<1>6. \A u \in Objs :
        /\ heap'[u].in = heap[u].in /\ heap'[u].sos = heap[u].sos
        /\ heap'[u].path = heap[u].path /\ heap'[u].offline = heap[u].offline
  BY <1>1, <1>3, <1>5 DEF TypeOK
<1>7. heap'[cur].trip = t /\ heap'[cur].eta = eta
  BY <1>1, <1>3, <1>5 DEF TypeOK
<1>8. cur' = cur /\ row' = row /\ trips' = trips /\ view' = view
  BY DEF ExtendTrip
<1>9. RecordsStay
  BY <1>6 DEF RecordsStay
<1>10. SessionInv'
  <2>1. SlotOK(s, d)
    BY <1>1, <1>2, <1>6, ClientSlotOK DEF Rebuilding, Live
  <2>2. QED
    BY <1>4, <1>8, <1>9, <2>1, SessionKept DEF AgreeInv, SessionInv
<1>11. Done(s, d)
  BY <1>1, IdleConcerns, NoConcernDone
<1>12. SosInv'
  <2>1. SosSame /\ SosShown /\ SosFit(d)
    BY <1>1, <1>2, <1>6, <1>8
    DEF SosSame, SosShown, SosFit, SosFits, HasRead, SosPcs, SafePcs
  <2>2. QED
    BY <1>4, <1>8, <1>11, <2>1, SosKept DEF AgreeInv, Done
<1>13. PathInv'
  <2>1. heap[cur].path \in Paths
    BY <1>1, StateTyped DEF MemberType
  <2>2. PathSame /\ PathFit(d)
    BY <1>1, <1>2, <1>6, <1>8, <2>1, PrefixOfSelf DEF PathSame, PathFit, PathFits, HasRead
  <2>3. QED
    BY <1>4, <1>8, <1>11, <2>2, PathKept DEF AgreeInv, Done
<1>14. ArrivalInv'
  <2> SUFFICES ASSUME "trip" \notin clash'
               PROVE  /\ \A p, q \in Active(trips) : p = q
                      /\ TripFits(d, cur # None, heap'[cur], trips)
    <3>1. d.pc \in TripWork
      BY <1>2 DEF TripWork, TripPcs
    <3>2. heap'[cur].in
      BY <1>1, <1>6 DEF Live
    <3>3. QED
      BY <1>4, <1>8, <3>1, <3>2, TripOwn DEF AgreeInv
  <2>1. "trip" \in Concerns(d.pc) /\ "trip" \notin Concerns(call[s].pc)
    BY <1>1, <1>2, IdleConcerns DEF Concerns
  <2>2. "trip" \notin clash /\ \A u \in Slots : call[u].pc \notin TripWork
    BY <1>4, <2>1, TakesUp, ConcernSets DEF AgreeInv
  <2>3. Active(trips) = {t}
    BY <1>1, <2>2 DEF AgreeInv, ArrivalInv, TripMatch, Names
  <2>4. QED
    BY <1>2, <1>7, <2>3 DEF TripFits
<1>15. QED
  BY <1>10, <1>12, <1>13, <1>14 DEF AgreeInv

-----------------------------------------------------------------------------
(* The first segments of startSos and endSos *)

LEMMA RaiseAgree ==
  ASSUME TypeOK, TypeOK', AgreeInv, NEW s \in Slots, NEW c \in CallType, Live,
         Raise(s, heap, c), Concerns(call[s].pc) = {},
         UNCHANGED <<cur, row, trips, view>>,
         s \in Sweeps => /\ c.grp = call[s].grp /\ call[s].pc \notin {"idle", "sw_end"}
                         /\ c.grp \in Objs /\ heap[c.grp].in
  PROVE  AgreeInv'
<1> DEFINE n == IF heap[cur].sos THEN heap[cur].rise ELSE audit.rises + 1
           d == [c EXCEPT !.pc = "sos_flag", !.ran = FALSE, !.obj = cur, !.n = n]
           m == Raised(heap[cur], n)
<1>1. cur \in Objs /\ cur # None /\ heap[cur].in
  BY StateTyped DEF Live
<1>2. d.obj = cur /\ ~d.ran /\ d.pc = "sos_flag" /\ d.grp = c.grp
  BY DEF CallType
<1>3. Await(s, d) /\ heap' = [heap EXCEPT ![cur] = m]
  BY DEF Raise
<1> HIDE DEF d
<1>4. Turn(s, d)
  BY <1>3, AwaitTurn
<1>5. /\ m.in = heap[cur].in /\ m.sos /\ m.offline = heap[cur].offline
      /\ m.trip = heap[cur].trip /\ m.eta = heap[cur].eta
  BY <1>1, StateTyped DEF Raised, MemberType
<1> HIDE DEF m
<1>6. \A u \in Objs :
        /\ heap'[u].in = heap[u].in /\ heap'[u].offline = heap[u].offline
        /\ heap'[u].trip = heap[u].trip /\ heap'[u].eta = heap[u].eta
  BY <1>1, <1>3, <1>5 DEF TypeOK
<1>7. heap'[cur].sos
  BY <1>1, <1>3, <1>5 DEF TypeOK
<1>8. RecordsStay
  BY <1>6 DEF RecordsStay
<1>9. SessionInv'
  <2>1. SlotOK(s, d)
    BY <1>1, <1>2, <1>6 DEF SlotOK, Rebuilding, Visiting
  <2>2. QED
    BY <1>4, <1>8, <2>1, SessionKept DEF AgreeInv, SessionInv
<1>10. SosInv'
  <2>1. SosFits(d, cur' # None, heap'[cur'], row')
    BY <1>2, <1>7 DEF SosFits, HasRead, SafePcs
  <2>2. d.pc \in SosWork
    BY <1>2 DEF SosWork, SosPcs
  <2>3. QED
    BY <1>1, <1>4, <1>6, <2>1, <2>2, SosOwn DEF AgreeInv
<1>11. PathInv'
  <2>1. PathFits(d, cur' # None, heap'[cur'], row') /\ d.pc \in PathWork
    BY <1>2 DEF PathFits, HasRead, PathWork
  <2>2. QED
    BY <1>2, <1>4, <2>1, PathOwn DEF AgreeInv
<1>12. ArrivalInv'
  <2>1. TripSame /\ EtaShown /\ TripFit(d) /\ TripDone(s, d)
    BY <1>1, <1>2, <1>6, ConcernSets DEF TripSame, EtaShown, TripFit, TripFits, TripDone
  <2>2. QED
    BY <1>4, <2>1, TripKept DEF AgreeInv
<1>13. QED
  BY <1>9, <1>10, <1>11, <1>12 DEF AgreeInv

\* A handler that returns, having changed nothing that is agreed upon.
LEMMA ReturnAgree ==
  ASSUME TypeOK, TypeOK', AgreeInv, NEW s \in Slots, Return(s), Undisturbed,
         Concerns(call[s].pc) = {}
  PROVE  AgreeInv'
<1>1. Turn(s, NoCall)
  BY ReturnTurn
<1>2. Fit(NoCall) /\ SlotOK(s, NoCall) /\ Done(s, NoCall)
  BY IdleConcerns, NoConcernFits, NoCallSlot, NoConcernDone
<1>3. QED
  BY <1>1, <1>2, Quiet DEF GoesOn

LEMMA StartSosAgree ==
  ASSUME TypeOK, TypeOK', AgreeInv, NEW s \in Slots, StartSos(s)
  PROVE  AgreeInv'
<1>1. s \notin Sweeps /\ Concerns(call[s].pc) = {} /\ Live
  BY ClientSlot, IdleConcerns DEF StartSos, Control, Issue, At, RequireMember, Live
<1>2. CASE Return(s) /\ UNCHANGED heap
  <2>1. Undisturbed
    BY <1>2 DEF StartSos, Undisturbed, Alike, SosShown, EtaShown
  <2>2. QED
    BY <1>1, <1>2, <2>1, ReturnAgree
<1>3. CASE Raise(s, heap, NoCall)
  BY <1>1, <1>3, NoCallTyped, RaiseAgree DEF StartSos
<1>4. QED
  BY <1>2, <1>3 DEF StartSos

LEMMA EndSosAgree ==
  ASSUME TypeOK, TypeOK', AgreeInv, NEW s \in Slots, EndSos(s)
  PROVE  AgreeInv'
<1> DEFINE d == [NoCall EXCEPT !.pc = "safe_flag", !.obj = cur]
           m == [heap[cur] EXCEPT !.sos = FALSE, !.path = <<>>]
<1>1. /\ s \notin Sweeps /\ Concerns(call[s].pc) = {} /\ cur \in Objs /\ heap[cur].in
      /\ cur # None /\ UNCHANGED <<cur, row, trips, view>>
  BY ClientSlot, IdleConcerns, StateTyped DEF EndSos, Control, Issue, At, RequireMember
<1>2. CASE ~heap[cur].sos
  <2>1. Undisturbed
    BY <1>2 DEF EndSos, Undisturbed, Alike, SosShown, EtaShown
  <2>2. QED
    BY <1>1, <1>2, <2>1, ReturnAgree DEF EndSos
<1>3. CASE heap[cur].sos
  <2>1. heap' = [heap EXCEPT ![cur] = m] /\ Await(s, d)
    BY <1>1, <1>3, StateTyped DEF EndSos, TypeOK, MemberType
  <2>2. /\ m.in /\ ~m.sos /\ m.offline = heap[cur].offline
        /\ m.trip = heap[cur].trip /\ m.eta = heap[cur].eta
    BY <1>1, StateTyped DEF MemberType
  <2>3. d.obj = cur /\ ~d.ran /\ d.pc = "safe_flag"
    BY DEF NoCall
  <2> HIDE DEF m, d
  <2>4. Turn(s, d)
    BY <2>1, AwaitTurn
  <2>5. \A u \in Objs :
          /\ heap'[u].in = heap[u].in /\ heap'[u].offline = heap[u].offline
          /\ heap'[u].trip = heap[u].trip /\ heap'[u].eta = heap[u].eta
    BY <1>1, <2>1, <2>2 DEF TypeOK
  <2>6. ~heap'[cur].sos
    BY <1>1, <2>1, <2>2 DEF TypeOK
  <2>7. SessionInv'
    <3>1. RecordsStay /\ SlotOK(s, d)
      BY <1>1, <2>3, <2>5, ClientSlotOK DEF RecordsStay, Rebuilding
    <3>2. QED
      BY <1>1, <2>4, <3>1, SessionKept DEF AgreeInv, SessionInv
  <2>8. SosInv'
    <3>1. SosFits(d, cur' # None, heap'[cur'], row')
      BY <1>1, <2>3, <2>6 DEF SosFits, HasRead, SosPcs
    <3>2. d.pc \in SosWork
      BY <2>3 DEF SosWork, SafePcs
    <3>3. QED
      BY <1>1, <2>4, <2>5, <3>1, <3>2, SosOwn DEF AgreeInv
  <2>9. PathInv'
    <3>1. PathFits(d, cur' # None, heap'[cur'], row') /\ d.pc \in PathWork
      BY <2>3 DEF PathFits, HasRead, PathWork
    <3>2. QED
      BY <2>3, <2>4, <3>1, PathOwn DEF AgreeInv
  <2>10. ArrivalInv'
    <3>1. TripSame /\ EtaShown /\ TripFit(d) /\ TripDone(s, d)
      BY <1>1, <2>3, <2>5, ConcernSets DEF TripSame, EtaShown, TripFit, TripFits, TripDone
    <3>2. QED
      BY <1>1, <2>4, <3>1, TripKept DEF AgreeInv
  <2>11. QED
    BY <2>7, <2>8, <2>9, <2>10 DEF AgreeInv
<1>4. QED
  BY <1>2, <1>3

-----------------------------------------------------------------------------
(* Location updates *)

\* A handler that waits for something that is not agreed upon.
LEMMA AwaitAgree ==
  ASSUME TypeOK, TypeOK', AgreeInv, NEW s \in Slots, NEW d, Await(s, d), Undisturbed,
         Concerns(call[s].pc) = {}, Concerns(d.pc) = {}, SlotOK(s, d)
  PROVE  AgreeInv'
<1>1. Turn(s, d)
  BY AwaitTurn
<1>2. Fit(d) /\ Done(s, d)
  BY NoConcernFits, NoConcernDone
<1>3. QED
  BY <1>1, <1>2, Quiet DEF GoesOn

LEMMA LocationResumesAgree ==
  ASSUME TypeOK, TypeOK', AgreeInv, NEW s \in Slots, LocationResumes(s)
  PROVE  AgreeInv'
<1> DEFINE m == heap[call[s].obj]
           e == Untracked([call[s] EXCEPT !.pc = "loc_log"])
<1>1. /\ call[s].pc \in {"loc_path", "loc_log"} /\ call[s].ran /\ s \notin Sweeps
      /\ call[s].obj \in Objs /\ call[s].obj # None
  BY StateTyped, NoneAssumption DEF LocationResumes, Resumes, At, CallOK, SosPcs, SweepPcs
<1>2. e.pc = "loc_log" /\ e.obj = call[s].obj /\ e.grp = call[s].grp
  BY StateTyped DEF CallType, Untracked
<1> HIDE DEF e
<1>3. \/ Await(s, e) /\ view' = view
      \/ Return(s) /\ Tell(m.sos, view.eta)
  BY DEF LocationResumes, LogOrTell, e
<1>4. view'.on = view.on /\ view'.eta = view.eta
      /\ (view.on => view'.sos \in {view.sos, m.sos})
  BY <1>3 DEF Tell, TypeOK, ViewType
<1>5. PICK d \in {e, NoCall} : Turn(s, d)
  BY <1>3, AwaitTurn, ReturnTurn
<1>6. Concerns(d.pc) = {} /\ SlotOK(s, d)
  <2>1. Concerns("loc_log") = {} /\ Concerns(NoCall.pc) = {}
    BY IdleConcerns DEF Concerns, SosPcs, SafePcs
  <2>2. RecordsStay
    BY DEF RecordsStay, LocationResumes
  <2>3. SlotOK(s, e)
    BY <1>1, <1>2, <2>2, SameSlot DEF AgreeInv, Rebuilding
  <2>4. QED
    BY <1>2, <2>1, <2>3, NoCallSlot
<1>7. SosShown
  <2> SUFFICES ASSUME "sos" \notin clash', view'.on, view'.sos # view.sos
               PROVE  cur # None /\ view'.sos = (heap[cur].in /\ heap[cur].sos)
    BY <1>4 DEF SosShown
  <2>1. "sos" \notin clash /\ cur # None
    BY <1>4, <1>5 DEF Turn, AgreeInv, SessionInv
  <2>2. call[s].obj = cur /\ heap[cur].in
    BY <1>1, <2>1, OwnObject DEF AgreeInv, Everything, Live
  <2>3. QED
    BY <1>4, <2>1, <2>2, StateTyped DEF MemberType
<1>8. Undisturbed
  BY <1>4, <1>7 DEF LocationResumes, Undisturbed, Alike, EtaShown
<1>9. SosDone(s, d) /\ TripDone(s, d)
  BY <1>1 DEF SosDone, TripDone, SosWork, SosPcs, SafePcs, TripWork, TripPcs
<1>10. PathDone(s, d)
  BY <1>1, <1>5 DEF PathDone, PathWork, Turn, AgreeInv, PathInv, PathFits, Live
<1>11. QED
  BY <1>5, <1>6, <1>8, <1>9, <1>10, NoConcernFits, Quiet DEF GoesOn, Done

LEMMA UpdateLocationAgree ==
  ASSUME TypeOK, TypeOK', AgreeInv, NEW s \in Slots, NEW l \in Locs, UpdateLocation(s, l)
  PROVE  AgreeInv'
<1> DEFINE m == Located(heap[cur], l)
           c == [NoCall EXCEPT !.obj = cur]
           p == [c EXCEPT !.pc = "loc_path", !.path = m.path]
           e == Untracked([c EXCEPT !.pc = "loc_log"])
<1>1. /\ s \notin Sweeps /\ call[s].pc = "idle" /\ cur \in Objs /\ cur # None /\ heap[cur].in
      /\ UNCHANGED <<cur, row, trips>>
  BY ClientSlot, StateTyped DEF UpdateLocation, Issue, At, RequireMember
<1>2. /\ m.in /\ m.sos = heap[cur].sos /\ m.trip = heap[cur].trip /\ m.eta = heap[cur].eta
      /\ m.path \in Paths /\ Prefix(heap[cur].path, m.path)
  <2>1. heap[cur] \in MemberType /\ heap[cur].path \in Paths
    BY <1>1, StateTyped DEF MemberType
  <2>2. m.path = IF heap[cur].sos THEN Append(heap[cur].path, l) ELSE heap[cur].path
    BY <2>1 DEF Located, MemberType
  <2>3. /\ m.in = heap[cur].in /\ m.sos = heap[cur].sos /\ m.trip = heap[cur].trip
        /\ m.eta = heap[cur].eta
    BY <2>1 DEF Located, MemberType
  <2>4. m.path \in Paths /\ Prefix(heap[cur].path, m.path)
    BY <2>1, <2>2, PathTyped, PrefixOfSelf, PrefixGrows
  <2>5. QED
    BY <1>1, <2>3, <2>4
<1>3. c.pc = "idle" /\ p.pc = "loc_path" /\ p.path = m.path /\ ~p.ran /\ p.obj = cur
      /\ e.pc = "loc_log" /\ e.obj = cur
  BY DEF NoCall, Untracked
<1>4. heap' = [heap EXCEPT ![cur] = m]
  BY DEF UpdateLocation
<1>5. \/ Await(s, p) /\ view' = view
      \/ Await(s, e) /\ view' = view
      \/ Return(s) /\ Tell(m.sos, view.eta)
  BY DEF UpdateLocation, LogOrTell
<1> HIDE DEF m, p, e
<1>6. view'.on = view.on /\ view'.eta = view.eta
      /\ (view.on => view'.sos \in {view.sos, m.sos})
  BY <1>5 DEF Tell, TypeOK, ViewType
<1>7. PICK d \in {p, e, NoCall} : Turn(s, d)
  BY <1>5, AwaitTurn, ReturnTurn
<1>8. \A u \in Objs : u # cur => heap'[u] = heap[u]
  BY <1>4 DEF TypeOK
<1>9. heap'[cur] = m
  BY <1>1, <1>4 DEF TypeOK
<1>10. SessionInv'
  <2>1. RecordsStay
    BY <1>2, <1>8, <1>9 DEF RecordsStay
  <2>2. SlotOK(s, d)
    BY <1>1, <1>2, <1>3, <1>9, NoCallSlot, ClientSlotOK DEF Rebuilding
  <2>3. QED
    BY <1>1, <1>6, <1>7, <2>1, <2>2, SessionKept DEF AgreeInv, SessionInv
<1>11. Done(s, d)
  BY <1>1, IdleConcerns, NoConcernDone
<1>12. d.pc \in {"loc_path", "loc_log", "idle"} /\ (d.pc = "loc_path" => d = p)
  BY <1>3, IdleConcerns
<1>13. SosInv'
  <2>1. SosSame
    BY <1>1, <1>2, <1>9 DEF SosSame
  <2>2. SosShown
    BY <1>1, <1>2, <1>6, StateTyped DEF SosShown, MemberType
  <2>3. SosFit(d)
    BY <1>12 DEF SosFit, SosFits, HasRead, SosPcs, SafePcs
  <2>4. QED
    BY <1>1, <1>7, <1>11, <2>1, <2>2, <2>3, SosKept DEF AgreeInv, Done
<1>14. PathInv'
  <2>1. PathSame
    BY <1>1, <1>2, <1>9 DEF PathSame
  <2>2. PathFit(d)
    BY <1>2, <1>3, <1>9, <1>12, PrefixOfSelf DEF PathFit, PathFits, HasRead
  <2>3. QED
    BY <1>1, <1>7, <1>11, <2>1, <2>2, PathKept DEF AgreeInv, Done
<1>15. ArrivalInv'
  <2>1. TripSame /\ EtaShown /\ TripFit(d)
    BY <1>1, <1>2, <1>6, <1>9, <1>12 DEF TripSame, EtaShown, TripFit, TripFits
  <2>2. QED
    BY <1>1, <1>7, <1>11, <2>1, TripKept DEF AgreeInv, Done
<1>16. QED
  BY <1>10, <1>13, <1>14, <1>15 DEF AgreeInv

-----------------------------------------------------------------------------
(* Connecting and disconnecting, but for the record *)

LEMMA ConnectAgree ==
  ASSUME TypeOK, TypeOK', AgreeInv, NEW s \in Slots, NEW self, NEW l, Connect(s, self, l)
  PROVE  AgreeInv'
<1> DEFINE d == Untracked([NoCall EXCEPT !.pc = "con_member", !.self = self, !.loc = l])
<1>1. s \notin Sweeps /\ Concerns(call[s].pc) = {}
  BY ClientSlot, IdleConcerns DEF Connect, Issue, At
<1>2. d.pc = "con_member" /\ d.obj = None
  BY DEF Untracked, NoCall
<1>3. Concerns(d.pc) = {} /\ SlotOK(s, d)
  BY <1>1, <1>2, ClientSlotOK DEF Concerns, SosPcs, SafePcs, Rebuilding
<1>4. Undisturbed
  BY DEF Connect, Undisturbed, Alike, SosShown, EtaShown
<1>5. Await(s, d)
  BY DEF Connect
<1>6. QED
  BY <1>1, <1>3, <1>4, <1>5, AwaitAgree

LEMMA DisconnectAgree ==
  ASSUME TypeOK, TypeOK', AgreeInv, NEW s \in Slots, Disconnect(s)
  PROVE  AgreeInv'
<1> DEFINE d == [NoCall EXCEPT !.pc = "dis_save", !.loc = heap[cur].loc]
<1>1. s \notin Sweeps /\ Concerns(call[s].pc) = {}
  BY ClientSlot, IdleConcerns DEF Disconnect, Issue, At
<1>2. d.pc = "dis_save" /\ d.obj = None
  BY DEF NoCall
<1>3. Concerns(d.pc) = {} /\ SlotOK(s, d)
  BY <1>1, <1>2, ClientSlotOK DEF Concerns, SosPcs, SafePcs, Rebuilding
<1>4. Undisturbed
  <2>1. Alike
    <3>1. ASSUME cur \in Objs, heap' = [heap EXCEPT ![cur].socket = FALSE] PROVE Alike
      BY <3>1, StateTyped DEF Alike, TypeOK, MemberType
    <3>2. CASE heap' = heap
      BY <3>2 DEF Alike
    <3>3. QED
      BY <3>1, <3>2, StateTyped DEF Disconnect, RequireMember
  <2>2. QED
    BY <2>1 DEF Disconnect, Undisturbed, SosShown, EtaShown
<1>5. Await(s, d) \/ Return(s)
  BY DEF Disconnect
<1>6. QED
  BY <1>1, <1>3, <1>4, <1>5, AwaitAgree, ReturnAgree

LEMMA LocationSavedAgree ==
  ASSUME TypeOK, TypeOK', AgreeInv, NEW s \in Slots, LocationSaved(s)
  PROVE  AgreeInv'
<1>1. Concerns(call[s].pc) = {}
  BY DEF LocationSaved, Resumes, At, Concerns, SosPcs, SafePcs
<1>2. Undisturbed
  BY DEF LocationSaved, Undisturbed, Alike, SosShown, EtaShown
<1>3. QED
  BY <1>1, <1>2, ReturnAgree DEF LocationSaved

LEMMA BuildSessionAgree ==
  ASSUME TypeOK, TypeOK', AgreeInv, NEW s \in Slots, BuildSession(s)
  PROVE  AgreeInv'
<1> DEFINE d == [call[s] EXCEPT !.pc = "con_group", !.ran = FALSE]
<1>1. s \notin Sweeps /\ Concerns(call[s].pc) = {}
  BY StateTyped DEF BuildSession, Resumes, At, CallOK, SosPcs, SafePcs, SweepPcs, Concerns
<1>2. d.pc = "con_group" /\ ~d.ran /\ d.obj = call[s].obj
  BY StateTyped DEF CallType
<1>3. Await(s, d)
  BY DEF BuildSession
<1> HIDE DEF d
<1>4. Turn(s, d)
  BY <1>3, AwaitTurn
<1>5. SlotOK(s, d)
  BY <1>1, <1>2 DEF SlotOK, BuildSession
<1>6. Fit(d)
  BY <1>2 DEF Fit, SosFit, SosFits, PathFit, PathFits, TripFit, TripFits, HasRead,
              SosPcs, SafePcs
<1>7. Done(s, d)
  BY <1>1, NoConcernDone
<1>8. Undisturbed
  BY DEF BuildSession, Undisturbed, Alike, SosShown, EtaShown
<1>9. QED
  BY <1>4, <1>5, <1>6, <1>7, <1>8, Quiet DEF GoesOn

LEMMA GroupReadAgree ==
  ASSUME TypeOK, TypeOK', AgreeInv, NEW s \in Slots, GroupRead(s)
  PROVE  AgreeInv'
<1> DEFINE d == [call[s] EXCEPT !.pc = "con_trips", !.ran = FALSE]
<1>1. s \notin Sweeps /\ call[s].pc = "con_group" /\ call[s].ran
  BY StateTyped DEF GroupRead, Resumes, At, CallOK, SosPcs, SafePcs, SweepPcs
<1>2. d.pc = "con_trips" /\ ~d.ran /\ d.obj = call[s].obj /\ d.row = call[s].row
  BY StateTyped DEF CallType
<1>3. Await(s, d)
  BY DEF GroupRead
<1> HIDE DEF d
<1>4. Turn(s, d)
  BY <1>3, AwaitTurn
<1>5. SlotOK(s, d)
  BY <1>1, <1>2 DEF SlotOK, Rebuilding
<1>6. SosFit(d)
  BY <1>1, <1>2, <1>4
  DEF SosFit, SosFits, HasRead, Turn, AgreeInv, SosInv, SosPcs, SafePcs
<1>7. PathFit(d)
  BY <1>1, <1>2, <1>4 DEF PathFit, PathFits, HasRead, Turn, AgreeInv, PathInv
<1>8. TripFit(d)
  BY <1>2 DEF TripFit, TripFits
<1>9. Done(s, d)
  BY <1>1, <1>2, NoConcernDone DEF Concerns
<1>10. Undisturbed
  BY DEF GroupRead, Undisturbed, Alike, SosShown, EtaShown
<1>11. QED
  BY <1>4, <1>5, <1>6, <1>7, <1>8, <1>9, <1>10, Quiet DEF GoesOn, Fit

\* What the greeting makes the peer see of the record m.
LEMMA WelcomeShows ==
  ASSUME TypeOK, NEW self \in BOOLEAN, NEW m \in MemberType, self => m.in, Welcome(self, m)
  PROVE  view'.on =>
           /\ (view.on /\ view'.sos = view.sos) \/ view'.sos = (m.in /\ m.sos)
           /\ (view.on /\ view'.eta = view.eta) \/ view'.eta = IF m.in THEN m.eta ELSE None
<1>1. m.in \in BOOLEAN /\ m.sos \in BOOLEAN /\ view \in ViewType
  BY DEF TypeOK, MemberType
<1>2. CASE ~self
  BY <1>2 DEF Welcome
<1>3. CASE self /\ m.loc = None
  BY <1>3 DEF Welcome
<1>4. CASE self /\ m.loc # None
  <2>1. Tell(m.sos, view.eta)
    BY <1>4 DEF Welcome
  <2>2. CASE ~view.on
    BY <2>1, <2>2 DEF Tell
  <2>3. CASE view.on
    <3>1. view'.sos = m.sos /\ view'.eta = view.eta
      BY <1>1, <2>1, <2>3 DEF Tell, ViewType
    <3>2. m.sos = (m.in /\ m.sos)
      BY <1>1, <1>4
    <3>3. QED
      BY <2>3, <3>1, <3>2
  <2>4. QED
    BY <2>2, <2>3
<1>5. QED
  BY <1>2, <1>3, <1>4

\* attachMember with a session that holds the user, or for the peer.
LEMMA ReattachAgree ==
  ASSUME TypeOK, TypeOK', AgreeInv, NEW s \in Slots, AttachMember(s),
         call[s].self => heap[cur].in
  PROVE  AgreeInv'
<1> DEFINE m == IF call[s].self THEN Attached(heap[cur], call[s].loc) ELSE heap[cur]
<1>1. /\ cur \in Objs /\ cur # None /\ Concerns(call[s].pc) = {} /\ call[s].self \in BOOLEAN
      /\ heap[cur] \in MemberType /\ call[s].loc \in Maybe(Locs)
      /\ UNCHANGED <<cur, row, trips>>
  BY StateTyped DEF AttachMember, Resumes, At, Concerns, SosPcs, SafePcs, CallType
<1>2. heap' = [heap EXCEPT ![cur] = m] /\ Welcome(call[s].self, m)
  BY DEF AttachMember
<1>3. /\ m.in = heap[cur].in /\ m.sos = heap[cur].sos /\ m.trip = heap[cur].trip
      /\ m.eta = heap[cur].eta /\ Prefix(heap[cur].path, m.path) /\ m \in MemberType
  <2>1. CASE ~call[s].self
    BY <1>1, <2>1, PrefixOfSelf DEF MemberType
  <2>2. CASE call[s].self
    <3> DEFINE a == [heap[cur] EXCEPT !.socket = TRUE, !.offline = FALSE, !.inactive = FALSE]
               l == call[s].loc
    <3>1. /\ a \in MemberType /\ a.in = heap[cur].in /\ a.sos = heap[cur].sos
          /\ a.trip = heap[cur].trip /\ a.eta = heap[cur].eta /\ a.path = heap[cur].path
      BY <1>1 DEF MemberType
    <3>2. \A p \in Paths :
            LET b == [a EXCEPT !.loc = l, !.path = p]
            IN  /\ b.in = heap[cur].in /\ b.sos = heap[cur].sos
                /\ b.trip = heap[cur].trip /\ b.eta = heap[cur].eta /\ b.path = p
      BY <3>1 DEF MemberType
    <3>3. heap[cur].path \in Paths
      BY <1>1 DEF MemberType
    <3>4. l \in Locs => /\ Append(heap[cur].path, l) \in Paths
                        /\ Prefix(heap[cur].path, Append(heap[cur].path, l))
      BY <3>3, PathTyped, PrefixOfSelf, PrefixGrows
    <3>5. m = IF l = None THEN a
              ELSE [a EXCEPT !.loc = l, !.path = IF heap[cur].sos
                                                 THEN Append(heap[cur].path, l)
                                                 ELSE heap[cur].path]
      BY <2>2 DEF Attached
    <3> HIDE DEF a, m, l
    <3>6. CASE l = None
      BY <3>1, <3>3, <3>5, <3>6, PrefixOfSelf
    <3>7. CASE l # None
      <4>1. l \in Locs
        BY <1>1, <3>7 DEF Maybe, l
      <4>2. m \in MemberType
        BY <1>1, <2>2, AttachedTyped DEF m
      <4>3. QED
        BY <3>2, <3>3, <3>4, <3>5, <3>7, <4>1, <4>2, PrefixOfSelf
    <3>8. QED
      BY <3>6, <3>7
  <2>3. QED
    BY <1>1, <2>1, <2>2
<1> HIDE DEF m
<1>4. Turn(s, NoCall)
  BY IdleConcerns DEF AttachMember, Turn
<1>5. Fit(NoCall) /\ SlotOK(s, NoCall) /\ Done(s, NoCall)
  BY <1>1, IdleConcerns, NoConcernFits, NoCallSlot, NoConcernDone
<1>6. heap'[cur] = m /\ \A u \in Objs : u # cur => heap'[u] = heap[u]
  BY <1>1, <1>2 DEF TypeOK
<1>7. SosShown /\ EtaShown
  BY <1>1, <1>2, <1>3, WelcomeShows DEF SosShown, EtaShown
<1>8. SessionInv'
  <2>1. RecordsStay
    BY <1>3, <1>6 DEF RecordsStay
  <2>2. QED
    BY <1>1, <1>4, <1>5, <2>1, SessionKept DEF AgreeInv
<1>9. SosInv'
  BY <1>1, <1>3, <1>4, <1>5, <1>6, <1>7, SosKept DEF AgreeInv, Fit, Done, SosSame
<1>10. PathInv'
  BY <1>1, <1>3, <1>4, <1>5, <1>6, PathKept DEF AgreeInv, Fit, Done, PathSame
<1>11. ArrivalInv'
  BY <1>1, <1>3, <1>4, <1>5, <1>6, <1>7, TripKept DEF AgreeInv, Fit, Done, TripSame
<1>12. QED
  BY <1>8, <1>9, <1>10, <1>11 DEF AgreeInv

\* In a session that does not hold the user nobody works for the user.
LEMMA NobodyWorks ==
  ASSUME TypeOK, AgreeInv, cur # None, ~heap[cur].in, NEW X \in Everything, X \notin clash,
         NEW t \in Slots
  PROVE  X \notin Concerns(call[t].pc)
<1>1. call[t].obj = None
  BY DEF AgreeInv, SessionInv
<1>2. ~Rebuilding(call[t])
  BY DEF AgreeInv, SessionInv
<1>3. call[t].pc \notin SosPcs \cup SafePcs \cup TripPcs \cup {"loc_path"}
  BY <1>1, StateTyped, NoneAssumption DEF CallOK
<1>4. CASE X # "path"
  BY <1>2, <1>3, <1>4 DEF Concerns, Everything, Rebuilding, SafePcs, TripPcs
<1>5. CASE X = "path"
  <2>1. call[t].pc # "sw_snapshot"
    <3> SUFFICES ASSUME call[t].pc = "sw_snapshot" PROVE FALSE
      OBVIOUS
    <3>1. Visiting(t)
      BY StateTyped DEF CallOK, SweepPcs, SosPcs, Visiting
    <3>2. heap[call[t].grp].in /\ call[t].grp = cur
      BY <1>5, <3>1 DEF AgreeInv, SessionInv, PathInv
    <3>3. QED
      BY <3>2
  <2>2. QED
    BY <1>2, <1>3, <1>5, <2>1 DEF Concerns, Rebuilding, SosPcs, SafePcs
<1>6. QED
  BY <1>4, <1>5

\* attachMember pushes a record with nothing but a location.
LEMMA NewcomerAgree ==
  ASSUME TypeOK, TypeOK', AgreeInv, NEW s \in Slots, AttachMember(s),
         call[s].self, ~heap[cur].in
  PROVE  AgreeInv'
<1> DEFINE m == Newcomer(call[s].loc)
<1>1. /\ cur \in Objs /\ cur # None /\ UNCHANGED <<cur, row, trips>>
      /\ call[s].self \in BOOLEAN /\ call[s].loc \in Maybe(Locs) /\ heap[cur] \in MemberType
  BY StateTyped DEF AttachMember, CallType
<1>2. /\ heap' = [heap EXCEPT ![cur] = m] /\ Welcome(call[s].self, m)
      /\ clash' = clash \cup Forgotten
  BY DEF AttachMember
<1>3. m.in /\ ~m.sos /\ m.path = <<>> /\ m.trip = None /\ m.eta = None
  BY DEF Newcomer, Fresh, Absent
<1>4. m \in MemberType
  BY <1>1, AttachedTyped
<1> HIDE DEF m
<1>5. Turn(s, NoCall)
  BY <1>2, IdleConcerns DEF AttachMember, Turn
<1>6. heap'[cur] = m /\ \A u \in Objs : u # cur => heap'[u] = heap[u]
  BY <1>1, <1>2 DEF TypeOK
<1>7. view'.on =>
        /\ (view.on /\ view'.sos = view.sos) \/ view'.sos = FALSE
        /\ (view.on /\ view'.eta = view.eta) \/ view'.eta = None
  BY <1>1, <1>2, <1>3, <1>4, WelcomeShows
<1>8. NoCall.pc = "idle" /\ SlotOK(s, NoCall)
  BY IdleConcerns, NoCallSlot
<1>9. SessionInv'
  <2>1. RecordsStay
    BY <1>3, <1>6 DEF RecordsStay
  <2>2. QED
    BY <1>1, <1>5, <1>8, <2>1, SessionKept DEF AgreeInv
<1>10. SosInv'
  <2> SUFFICES ASSUME "sos" \notin clash' PROVE SosInv'
    BY DEF SosInv
  <2>1. "sos" \notin clash /\ ~row.sos
    BY <1>2 DEF Forgotten
  <2>2. \A t \in Slots : call[t].pc \notin SosWork
    BY <1>1, <2>1, NobodyWorks, ConcernSets DEF Everything
  <2>3. SosFits(NoCall, cur' # None, heap'[cur'], row')
    BY <1>8 DEF SosFits, HasRead, SosPcs, SafePcs
  <2>4. view.on => ~view.sos
    BY <1>1, <2>1 DEF AgreeInv, SosInv
  <2>5. SosMatch(heap'[cur'], row', view')
    BY <1>1, <1>3, <1>4, <1>6, <1>7, <2>1, <2>4 DEF SosMatch, TypeOK, RowType, ViewType, MemberType
  <2>6. QED
    BY <1>1, <1>3, <1>5, <1>6, <2>2, <2>3, <2>5, SosSole
<1>11. PathInv'
  <2> SUFFICES ASSUME "path" \notin clash' PROVE PathInv'
    BY DEF PathInv
  <2>1. "path" \notin clash /\ row.path = <<>>
    BY <1>2 DEF Forgotten
  <2>2. \A t \in Slots : call[t].pc \notin PathWork
    BY <1>1, <2>1, NobodyWorks, ConcernSets DEF Everything
  <2>3. PathFits(NoCall, cur' # None, heap'[cur'], row')
    BY <1>8 DEF PathFits, HasRead
  <2>4. Prefix(row'.path, heap'[cur'].path)
    BY <1>1, <1>3, <1>6, <2>1, PrefixOfSelf, PathTyped
  <2>5. QED
    BY <1>5, <1>8, <2>2, <2>3, <2>4, PathSole
<1>12. ArrivalInv'
  <2> SUFFICES ASSUME "trip" \notin clash' PROVE ArrivalInv'
    BY DEF ArrivalInv
  <2>1. "trip" \notin clash /\ Active(trips) = {}
    BY <1>2 DEF Forgotten, Active, ActiveTrips
  <2>2. \A t \in Slots : call[t].pc \notin TripWork
    BY <1>1, <2>1, NobodyWorks, ConcernSets DEF Everything
  <2>3. TripFits(NoCall, cur' # None, heap'[cur'], trips')
    BY <1>8 DEF TripFits
  <2>4. view.on => view.eta = None
    BY <1>1, <2>1 DEF AgreeInv, ArrivalInv
  <2>5. TripMatch(heap'[cur'], trips', view')
    BY <1>1, <1>3, <1>6, <1>7, <2>1, <2>4 DEF TripMatch, Names
  <2>6. QED
    BY <1>1, <1>3, <1>5, <1>6, <2>1, <2>2, <2>3, <2>5, TripSole
<1>13. QED
  BY <1>9, <1>10, <1>11, <1>12 DEF AgreeInv

LEMMA AttachMemberAgree ==
  ASSUME TypeOK, TypeOK', AgreeInv, NEW s \in Slots, AttachMember(s)
  PROVE  AgreeInv'
BY ReattachAgree, NewcomerAgree

-----------------------------------------------------------------------------
(* A session built of the rows *)

\* While one handler builds it, the others are about nothing agreed upon.
LEMMA BuiltAlone ==
  ASSUME TypeOK, AgreeInv, NEW s \in Slots, Rebuilding(call[s]), NEW X \in Everything,
         X \notin clash
  PROVE  /\ cur = None
         /\ \A t \in Slots \ {s} : X \notin Concerns(call[t].pc)
<1>1. X \in Concerns(call[s].pc)
  BY DEF Rebuilding, Concerns, Everything
<1>2. QED
  BY <1>1 DEF AgreeInv, SessionInv, Exclusive

LEMMA SessionBuiltSession ==
  ASSUME TypeOK, AgreeInv, NEW s \in Slots, NEW o \in Objs \ InUse, NEW m,
         call[s].pc = "con_trips", Turn(s, NoCall), cur' = o, heap' = [heap EXCEPT ![o] = m],
         clash' = clash \cup (IF Stranded(s) THEN {"trip", "sos", "path"} ELSE {})
                        \cup (IF Lingering THEN {"path"} ELSE {})
  PROVE  SessionInv'
<1>1. call'[s] = NoCall /\ \A t \in Slots \ {s} : call'[t] = call[t]
  BY TurnSlots
<1>2. NoCall.pc = "idle" /\ NoCall.obj = None
  BY DEF NoCall
<1>3. \A t \in Slots : call[t].obj # o /\ call[t].grp # o
  BY DEF InUse
<1>4. \A u \in Objs : u # o => heap'[u] = heap[u]
  BY DEF TypeOK
<1>5. o # None
  BY NoneAssumption
<1>6. Exclusive'
  <2> SUFFICES ASSUME NEW p \in Slots, NEW t \in Slots, p # t
               PROVE  Concerns(call'[p].pc) \cap Concerns(call'[t].pc) \subseteq clash'
    BY DEF Exclusive
  <2>1. CASE p # s /\ t # s
    BY <1>1, <2>1 DEF AgreeInv, SessionInv, Exclusive, Turn
  <2>2. CASE p = s \/ t = s
    BY <1>1, <1>2, <2>2, IdleConcerns
  <2>3. QED
    BY <2>1, <2>2
<1>7. ASSUME NEW t \in Slots, call'[t].obj # None
      PROVE  heap'[call'[t].obj].in /\ Everything \subseteq clash'
  <2>1. t # s /\ call'[t] = call[t] /\ call[t].obj \in Objs
    BY <1>1, <1>2, <1>7, StateTyped DEF CallType, Maybe
  <2>2. Stranded(s)
    BY <1>7, <2>1 DEF Stranded
  <2>3. QED
    BY <1>3, <1>4, <1>7, <2>1, <2>2 DEF AgreeInv, SessionInv, Everything
<1>8. ASSUME NEW t \in Slots, Rebuilding(call'[t]) PROVE Everything \subseteq clash'
  <2>1. t # s /\ call'[t] = call[t]
    BY <1>1, <1>2, <1>8 DEF Rebuilding
  <2>2. Everything \subseteq Concerns(call[s].pc) \cap Concerns(call[t].pc)
    BY <1>8, <2>1 DEF Rebuilding, Concerns, Everything
  <2>3. QED
    BY <2>1, <2>2 DEF AgreeInv, SessionInv, Exclusive, Turn
<1>9. ASSUME NEW t \in Slots, Visiting(t)'
      PROVE  /\ call'[t].pc # "sw_visit" => heap'[call'[t].grp].in
             /\ \/ "path" \in clash'
                \/ ~heap'[call'[t].grp].in \/ heap'[call'[t].grp].offline
  <2>1. t # s /\ call'[t] = call[t] /\ Visiting(t)
    BY <1>1, <1>2, <1>9 DEF Visiting
  <2>2. call[t].grp \in Objs
    BY <2>1, StateTyped DEF CallOK, Visiting
  <2>3. heap'[call[t].grp] = heap[call[t].grp]
    BY <1>3, <1>4, <2>2
  <2>4. QED
    BY <2>1, <2>3 DEF AgreeInv, SessionInv, Visiting, Lingering
<1>10. QED
  BY <1>5, <1>6, <1>7, <1>8, <1>9 DEF SessionInv, Rebuilding, Visiting

LEMMA SessionBuiltAgree ==
  ASSUME TypeOK, TypeOK', AgreeInv, NEW s \in Slots, SessionBuilt(s)
  PROVE  AgreeInv'
<1> DEFINE c == call[s]
           n == IF c.eta = None THEN audit.arms ELSE audit.arms + 1
           r == Restored(c, n)
           m == IF r.in THEN r ELSE Absent
<1>1. PICK o \in Objs \ InUse :
        heap' = [heap EXCEPT ![o] = m] /\ cur' = o /\ Welcome(c.self, m)
  BY DEF SessionBuilt
<1>2. /\ c.pc = "con_trips" /\ c.ran /\ c \in CallType /\ Rebuilding(c) /\ HasRead(c)
      /\ UNCHANGED <<row, trips>>
  BY StateTyped DEF SessionBuilt, Resumes, At, Rebuilding, HasRead
<1>3. /\ c.self => m.in
      /\ m.in => /\ m.sos = c.row.sos /\ m.path = c.row.path
                 /\ m.trip = c.trip /\ m.eta = c.eta
  BY DEF Restored, RestoredParts, Absent
<1>4. m \in MemberType
  <2>1. n \in Nat
    BY DEF TypeOK
  <2>2. QED
    BY <1>2, <2>1, RestoredTyped, MemberTyped
<1> HIDE DEF m
<1>5. Turn(s, NoCall)
  BY IdleConcerns DEF SessionBuilt, Turn
<1>6. heap'[o] = m /\ o \in Objs /\ o # None
  BY <1>1, NoneAssumption DEF TypeOK
<1>7. view'.on =>
        /\ view.on \/ view'.sos = (m.in /\ m.sos)
        /\ view.on \/ view'.eta = IF m.in THEN m.eta ELSE None
  <2>1. c.self \in BOOLEAN
    BY <1>2 DEF CallType
  <2>2. QED
    BY <1>1, <1>3, <1>4, <2>1, WelcomeShows
<1>8. ASSUME NEW X \in Everything, X \notin clash'
      PROVE  /\ X \notin clash /\ ~view.on
             /\ \A t \in Slots \ {s} : X \notin Concerns(call[t].pc)
  BY <1>2, <1>5, <1>8, BuiltAlone DEF Turn, AgreeInv, SessionInv
<1>9. NoCall.pc = "idle"
  BY IdleConcerns
<1>10. SessionInv'
  BY <1>1, <1>2, <1>5, SessionBuiltSession DEF SessionBuilt
<1>11. SosInv'
  <2> SUFFICES ASSUME "sos" \notin clash' PROVE SosInv'
    BY DEF SosInv
  <2>1. /\ "sos" \notin clash /\ ~view.on
        /\ \A t \in Slots \ {s} : call[t].pc \notin SosWork
    BY <1>8, ConcernSets DEF Everything
  <2>2. SosFits(NoCall, cur' # None, heap'[cur'], row')
    BY <1>9 DEF SosFits, HasRead, SosPcs, SafePcs
  <2>3. m.in => SosMatch(m, row, view')
    <3>1. c.row.sos = row.sos
      BY <1>2, <2>1 DEF AgreeInv, SosInv, SosFits
    <3>2. QED
      BY <1>3, <1>4, <1>7, <2>1, <3>1 DEF SosMatch, MemberType
  <2>4. ~m.in /\ view'.on => ~view'.sos
    BY <1>7, <2>1
  <2>5. QED
    BY <1>1, <1>2, <1>5, <1>6, <2>1, <2>2, <2>3, <2>4, SosSole DEF Live
<1>12. PathInv'
  <2> SUFFICES ASSUME "path" \notin clash' PROVE PathInv'
    BY DEF PathInv
  <2>1. "path" \notin clash /\ \A t \in Slots \ {s} : call[t].pc \notin PathWork
    BY <1>8, ConcernSets DEF Everything
  <2>2. PathFits(NoCall, cur' # None, heap'[cur'], row')
    BY <1>9 DEF PathFits, HasRead
  <2>3. m.in => Prefix(row.path, m.path)
    <3>1. c.row.path = row.path /\ row.path \in Paths
      BY <1>2, <2>1 DEF AgreeInv, PathInv, PathFits, TypeOK, RowType
    <3>2. QED
      BY <1>3, <3>1, PrefixOfSelf
  <2>4. QED
    BY <1>1, <1>2, <1>5, <1>6, <1>9, <2>1, <2>2, <2>3, PathSole DEF Live
<1>13. ArrivalInv'
  <2> SUFFICES ASSUME "trip" \notin clash' PROVE ArrivalInv'
    BY DEF ArrivalInv
  <2>1. /\ "trip" \notin clash /\ ~view.on
        /\ \A t \in Slots \ {s} : call[t].pc \notin TripWork
    BY <1>8, ConcernSets DEF Everything
  <2>2. TripFits(NoCall, cur' # None, heap'[cur'], trips')
    BY <1>9 DEF TripFits
  <2>3. m.in => TripMatch(m, trips, view')
    <3>1. Names(c, trips)
      BY <1>2, <2>1 DEF AgreeInv, ArrivalInv, TripFits
    <3>2. QED
      BY <1>3, <1>7, <2>1, <3>1 DEF TripMatch, Names
  <2>4. ~m.in /\ view'.on => view'.eta = None
    BY <1>7, <2>1
  <2>5. \A p, q \in Active(trips) : p = q
    BY <2>1 DEF AgreeInv, ArrivalInv
  <2>6. QED
    BY <1>1, <1>2, <1>5, <1>6, <2>1, <2>2, <2>3, <2>4, <2>5, TripSole DEF Live
<1>14. QED
  BY <1>10, <1>11, <1>12, <1>13 DEF AgreeInv

-----------------------------------------------------------------------------
(* The sweep *)

\* A pass that has found the user in the record it visits.
Found(s) == Visiting(s) /\ call[s].grp \in Objs /\ heap[call[s].grp].in

\* The visit goes on, or ends, with nothing changed but presence flags.
VisitGoesOn(s) ==
  /\ Alike
  /\ \E d : /\ Turn(s, d) /\ SlotOK(s, d) /\ Fit(d)
            /\ d.pc \in {"sw_end", "sw_inactive", "sw_snapshot", "sw_remind"}

LEMMA EndOfVisitFields ==
  ASSUME NEW s \in Slots, NEW c, c.grp = call[s].grp
  PROVE  LET d == EndOfVisit(c)
         IN  d.pc = "sw_end" /\ d.obj = None /\ d.grp = call[s].grp /\ ~d.ran
BY DEF EndOfVisit, NoCall

\* Only the presence flags of one record are set.
LEMMA FlagsAlike ==
  ASSUME TypeOK, NEW o \in Objs, NEW m \in MemberType, heap' = [heap EXCEPT ![o] = m],
         m \in {[heap[o] EXCEPT !.offline = TRUE], [heap[o] EXCEPT !.inactive = TRUE],
                Reminded(heap[o])}
  PROVE  Alike
<1>1. /\ m.in = heap[o].in /\ m.sos = heap[o].sos /\ m.path = heap[o].path
      /\ m.trip = heap[o].trip /\ m.eta = heap[o].eta
      /\ heap[o].offline => m.offline
  BY StateTyped DEF MemberType, Reminded
<1>2. QED
  BY <1>1 DEF Alike, TypeOK

LEMMA FlagsTyped ==
  ASSUME TypeOK, NEW o \in Objs
  PROVE  /\ [heap[o] EXCEPT !.offline = TRUE] \in MemberType
         /\ [heap[o] EXCEPT !.inactive = TRUE] \in MemberType
         /\ Reminded(heap[o]) \in MemberType
BY StateTyped DEF MemberType, Reminded

LEMMA PlainVisit ==
  ASSUME TypeOK, NEW s \in Slots, Found(s), Alike, NEW d, Await(s, d), d.obj = None,
         d.grp = call[s].grp, d.pc \in {"sw_end", "sw_inactive", "sw_remind"}
  PROVE  VisitGoesOn(s)
<1>1. Turn(s, d)
  BY AwaitTurn
<1>2. SlotOK(s, d)
  BY DEF SlotOK, Rebuilding, Found, Alike
<1>3. Fit(d)
  BY NoConcernFits DEF Concerns, SosPcs, SafePcs
<1>4. QED
  BY <1>1, <1>2, <1>3 DEF VisitGoesOn

LEMMA OfflineGoesOn ==
  ASSUME TypeOK, AgreeInv, NEW s \in Slots, Found(s), NEW old, OfflineCheck(s, old)
  PROVE  VisitGoesOn(s)
<1> DEFINE g == call[s].grp
           d == [EndOfVisit(call[s]) EXCEPT !.pc = "sw_snapshot", !.loc = heap[g].loc,
                                            !.path = heap[g].path]
<1>1. CASE ~(old /\ ~heap[g].offline)
  <2>1. Await(s, EndOfVisit(call[s])) /\ Alike
    BY <1>1 DEF OfflineCheck, Alike
  <2>2. QED
    BY <2>1, EndOfVisitFields, PlainVisit
<1>2. CASE old /\ ~heap[g].offline
  <2>1. Await(s, d) /\ heap' = [heap EXCEPT ![g].offline = TRUE]
    BY <1>2 DEF OfflineCheck
  <2>2. heap' = [heap EXCEPT ![g] = [heap[g] EXCEPT !.offline = TRUE]]
    BY <2>1
  <2>3. Alike
    <3> DEFINE m == [heap[g] EXCEPT !.offline = TRUE]
    <3>1. m \in MemberType /\ heap' = [heap EXCEPT ![g] = m] /\ g \in Objs
      BY <2>2, FlagsTyped DEF Found
    <3>2. QED
      BY <3>1, FlagsAlike
  <2>4. /\ d.pc = "sw_snapshot" /\ d.obj = None /\ d.grp = g /\ ~d.ran /\ d.path = heap[g].path
    BY DEF EndOfVisit, NoCall
  <2> HIDE DEF d
  <2>5. Turn(s, d)
    BY <2>1, AwaitTurn
  <2>6. SlotOK(s, d)
    BY <2>3, <2>4 DEF SlotOK, Rebuilding, Found, Alike
  <2>7. SosFit(d) /\ TripFit(d)
    BY <2>4 DEF SosFit, SosFits, TripFit, TripFits, HasRead, SosPcs, SafePcs
  <2>8. PathFit(d)
    <3> SUFFICES ASSUME "path" \notin clash', cur # None
                 PROVE  g = cur /\ Prefix(d.path, heap'[cur].path)
      BY <2>4 DEF PathFit, PathFits, HasRead
    <3>1. g = cur
      BY <1>2, <2>5 DEF Turn, Found, AgreeInv, SessionInv
    <3>2. heap'[cur].path = heap[g].path /\ heap[g].path \in Paths
      BY <2>3, <3>1, StateTyped DEF Found, Alike, MemberType
    <3>3. QED
      BY <2>4, <3>1, <3>2, PrefixOfSelf
  <2>9. QED
    BY <2>3, <2>4, <2>5, <2>6, <2>7, <2>8 DEF VisitGoesOn, Fit
<1>3. QED
  BY <1>1, <1>2

LEMMA PresenceGoesOn ==
  ASSUME TypeOK, AgreeInv, NEW s \in Slots, Found(s), Presence(s)
  PROVE  VisitGoesOn(s)
<1> DEFINE g == call[s].grp
           d == Untracked([EndOfVisit(call[s]) EXCEPT !.pc = "sw_inactive"])
<1>1. \/ Await(s, EndOfVisit(call[s])) /\ UNCHANGED heap
      \/ \E old \in BOOLEAN : OfflineCheck(s, old)
      \/ heap' = [heap EXCEPT ![g].inactive = TRUE] /\ Await(s, d)
  BY DEF Presence
<1>2. CASE Await(s, EndOfVisit(call[s])) /\ UNCHANGED heap
  <2>1. Alike
    BY <1>2 DEF Alike
  <2>2. QED
    BY <1>2, <2>1, EndOfVisitFields, PlainVisit
<1>3. CASE \E old \in BOOLEAN : OfflineCheck(s, old)
  BY <1>3, OfflineGoesOn
<1>4. CASE heap' = [heap EXCEPT ![g].inactive = TRUE] /\ Await(s, d)
  <2> DEFINE m == [heap[g] EXCEPT !.inactive = TRUE]
  <2>1. m \in MemberType /\ heap' = [heap EXCEPT ![g] = m] /\ g \in Objs
    BY <1>4, FlagsTyped DEF Found
  <2>2. Alike
    BY <2>1, FlagsAlike
  <2>3. d.pc = "sw_inactive" /\ d.obj = None /\ d.grp = g
    BY DEF EndOfVisit, NoCall, Untracked
  <2> HIDE DEF d
  <2>4. QED
    BY <1>4, <2>2, <2>3, PlainVisit
<1>5. QED
  BY <1>1, <1>2, <1>3, <1>4

\* A visit that goes on from a point that is about nothing agreed upon.
LEMMA VisitAgree ==
  ASSUME TypeOK, TypeOK', AgreeInv, NEW s \in Slots, VisitGoesOn(s),
         Concerns(call[s].pc) = {}, UNCHANGED <<cur, row, trips, view>>
  PROVE  AgreeInv'
<1>1. PICK d : Turn(s, d) /\ SlotOK(s, d) /\ Fit(d)
  BY DEF VisitGoesOn
<1>2. Done(s, d)
  BY NoConcernDone
<1>3. Undisturbed
  BY DEF VisitGoesOn, Undisturbed, SosShown, EtaShown
<1>4. QED
  BY <1>1, <1>2, <1>3, Quiet DEF GoesOn

LEMMA AlarmCheckAgree ==
  ASSUME TypeOK, TypeOK', AgreeInv, NEW s \in Slots, s \in Sweeps, Found(s),
         NEW c \in CallType, c.grp = call[s].grp, AlarmCheck(s, c),
         Concerns(call[s].pc) = {}, UNCHANGED <<cur, row, trips, view>>
  PROVE  AgreeInv'
<1>1. \/ Await(s, EndOfVisit(c)) /\ UNCHANGED heap
      \/ Presence(s)
      \/ RequireMember /\ Raise(s, heap, c)
  BY DEF AlarmCheck
<1>2. CASE Await(s, EndOfVisit(c)) /\ UNCHANGED heap
  <2>1. Alike
    BY <1>2 DEF Alike
  <2>2. VisitGoesOn(s)
    BY <1>2, <2>1, EndOfVisitFields, PlainVisit
  <2>3. QED
    BY <2>2, VisitAgree
<1>3. CASE Presence(s)
  BY <1>3, PresenceGoesOn, VisitAgree
<1>4. CASE RequireMember /\ Raise(s, heap, c)
  BY <1>4, RaiseAgree DEF RequireMember, Live, Found, Visiting
<1>5. QED
  BY <1>1, <1>2, <1>3, <1>4

LEMMA SweepVisitAgree ==
  ASSUME TypeOK, TypeOK', AgreeInv, NEW s \in Slots, SweepVisit(s)
  PROVE  AgreeInv'
<1> DEFINE g == call[s].grp
           c == [call[s] EXCEPT !.eta = heap[g].eta]
           d == [c EXCEPT !.pc = "sw_remind", !.n = heap[g].arm]
<1>1. /\ s \in Sweeps /\ Visiting(s) /\ g \in Objs /\ Concerns(call[s].pc) = {}
      /\ heap[g] \in MemberType /\ UNCHANGED <<cur, row, trips, view>>
  BY StateTyped
  DEF SweepVisit, At, CallOK, SweepPcs, SosPcs, SafePcs, Visiting, Concerns
<1>2. c \in CallType /\ c.grp = g /\ c.obj = call[s].obj
  BY <1>1, StateTyped DEF CallType, MemberType
<1>3. d.pc = "sw_remind" /\ d.grp = g /\ d.obj = call[s].obj
  BY <1>2 DEF CallType
<1>4. \/ ~heap[g].in /\ Await(s, EndOfVisit(c)) /\ UNCHANGED heap
      \/ heap[g].in /\ Presence(s)
      \/ heap[g].in /\ heap' = [heap EXCEPT ![g] = Reminded(heap[g])] /\ Await(s, d)
      \/ heap[g].in /\ AlarmCheck(s, c)
  BY DEF SweepVisit
<1> HIDE DEF c, d
<1>5. CASE ~heap[g].in /\ Await(s, EndOfVisit(c)) /\ UNCHANGED heap
  <2>1. /\ EndOfVisit(c).pc = "sw_end" /\ EndOfVisit(c).obj = None
        /\ EndOfVisit(c).grp = g
    BY <1>2, EndOfVisitFields
  <2>2. SlotOK(s, EndOfVisit(c)) /\ Concerns(EndOfVisit(c).pc) = {}
    BY <2>1 DEF SlotOK, Rebuilding, Concerns, SosPcs, SafePcs
  <2>3. Undisturbed
    BY <1>1, <1>5 DEF Undisturbed, Alike, SosShown, EtaShown
  <2>4. QED
    BY <1>1, <1>5, <2>2, <2>3, AwaitAgree
<1>6. CASE heap[g].in /\ Presence(s)
  BY <1>1, <1>6, PresenceGoesOn, VisitAgree DEF Found
<1>7. CASE heap[g].in /\ heap' = [heap EXCEPT ![g] = Reminded(heap[g])] /\ Await(s, d)
  <2> DEFINE m == Reminded(heap[g])
  <2>1. m \in MemberType /\ heap' = [heap EXCEPT ![g] = m]
    BY <1>1, <1>7, FlagsTyped
  <2>2. Alike /\ RecordsStay
    BY <1>1, <2>1, FlagsAlike DEF Alike, RecordsStay
  <2>3. SlotOK(s, d) /\ Concerns(d.pc) = {}
    BY <1>1, <1>3, <1>7, <2>2
    DEF SlotOK, Alike, Rebuilding, Concerns, SosPcs, SafePcs
  <2>4. Undisturbed
    BY <1>1, <2>2 DEF Undisturbed, SosShown, EtaShown
  <2>5. QED
    BY <1>1, <1>7, <2>3, <2>4, AwaitAgree
<1>8. CASE heap[g].in /\ AlarmCheck(s, c)
  BY <1>1, <1>2, <1>8, AlarmCheckAgree DEF Found
<1>9. QED
  BY <1>4, <1>5, <1>6, <1>7, <1>8

LEMMA SweepRemindedAgree ==
  ASSUME TypeOK, TypeOK', AgreeInv, NEW s \in Slots, SweepReminded(s) \/ SweepNoticed(s)
  PROVE  AgreeInv'
<1>1. /\ s \in Sweeps /\ Visiting(s) /\ call[s].pc \in {"sw_remind", "sw_inactive"}
      /\ call[s].grp \in Objs /\ call[s] \in CallType
      /\ UNCHANGED <<cur, row, trips, view>>
  BY StateTyped
  DEF SweepReminded, SweepNoticed, Resumes, At, CallOK, SweepPcs, SosPcs, SafePcs, Visiting
<1>2. Found(s) /\ Concerns(call[s].pc) = {}
  BY <1>1 DEF Found, AgreeInv, SessionInv, Concerns, SosPcs, SafePcs
<1>3. CASE SweepReminded(s)
  BY <1>1, <1>2, <1>3, AlarmCheckAgree DEF SweepReminded
<1>4. CASE SweepNoticed(s)
  BY <1>1, <1>2, <1>4, OfflineGoesOn, VisitAgree DEF SweepNoticed
<1>5. QED
  BY <1>3, <1>4

LEMMA SnapshotSavedAgree ==
  ASSUME TypeOK, TypeOK', AgreeInv, NEW s \in Slots, SnapshotSaved(s)
  PROVE  AgreeInv'
<1> DEFINE d == EndOfVisit(call[s])
<1>1. call[s].pc = "sw_snapshot" /\ call[s].ran
  BY DEF SnapshotSaved, Resumes, At
<1>2. d.pc = "sw_end" /\ d.obj = None /\ d.grp = call[s].grp
  BY EndOfVisitFields
<1>3. Turn(s, d)
  BY AwaitTurn DEF SnapshotSaved
<1> HIDE DEF d
<1>4. SlotOK(s, d) /\ Fit(d)
  BY <1>2, NoConcernFits DEF SlotOK, Rebuilding, Concerns, SosPcs, SafePcs
<1>5. Undisturbed
  BY DEF SnapshotSaved, Undisturbed, Alike, SosShown, EtaShown
<1>6. SosDone(s, d) /\ TripDone(s, d)
  BY <1>1 DEF SosDone, TripDone, SosWork, SosPcs, SafePcs, TripWork, TripPcs
<1>7. PathDone(s, d)
  BY <1>1, <1>3 DEF PathDone, Turn, AgreeInv, PathInv, PathFits, Live
<1>8. QED
  BY <1>3, <1>4, <1>5, <1>6, <1>7, Quiet DEF GoesOn, Done

LEMMA SosNotifiedAgree ==
  ASSUME TypeOK, TypeOK', AgreeInv, NEW s \in Slots, SosNotified(s)
  PROVE  AgreeInv'
<1>1. /\ call[s].pc = "sos_notify" /\ call[s].obj \in Objs /\ call[s].obj # None
      /\ UNCHANGED <<cur, row, trips>>
  BY StateTyped, NoneAssumption DEF SosNotified, Resumes, At, CallOK, SosPcs
<1>2. PICK d : /\ Alike /\ Turn(s, d) /\ SlotOK(s, d) /\ Fit(d)
               /\ d.pc \in {"idle", "sw_end", "sw_inactive", "sw_snapshot", "sw_remind"}
  <2>1. CASE s \notin Sweeps
    <3>1. Return(s) /\ Alike
      BY <2>1 DEF SosNotified, Alike
    <3>2. QED
      BY <3>1, ReturnTurn, IdleConcerns, NoConcernFits, NoCallSlot
  <2>2. CASE s \in Sweeps
    <3>1. Visiting(s) /\ call[s].grp \in Objs /\ Presence(s)
      BY <1>1, <2>2, StateTyped DEF SosNotified, CallOK, Visiting
    <3>2. Found(s)
      BY <1>1, <3>1 DEF Found, AgreeInv, SessionInv
    <3>3. QED
      BY <3>1, <3>2, PresenceGoesOn DEF VisitGoesOn
  <2>3. QED
    BY <2>1, <2>2
<1>3. view'.on = view.on /\ (view.on => view'.sos = TRUE /\ view'.eta = view.eta)
  BY DEF SosNotified, Tell, TypeOK, ViewType
<1>4. "sos" \notin clash' /\ cur # None => heap[cur].in /\ heap[cur].sos /\ row.sos
  <2> SUFFICES ASSUME "sos" \notin clash', cur # None
               PROVE  heap[cur].in /\ heap[cur].sos /\ row.sos
    OBVIOUS
  <2>1. "sos" \notin clash
    BY <1>2 DEF Turn
  <2>2. Live
    BY <1>1, <2>1, OwnObject DEF AgreeInv, Everything
  <2>3. QED
    BY <1>1, <2>1, <2>2 DEF AgreeInv, SosInv, SosFits, SosPcs, Live
<1>5. view.on => cur # None
  BY DEF AgreeInv, SessionInv
<1>6. Undisturbed
  BY <1>1, <1>2, <1>3, <1>4, <1>5 DEF Undisturbed, SosShown, EtaShown
<1>7. SosDone(s, d)
  BY <1>3, <1>4, StateTyped DEF SosDone, SosMatch, Live, TypeOK, RowType, MemberType
<1>8. PathDone(s, d) /\ TripDone(s, d)
  BY <1>1 DEF PathDone, PathWork, TripDone, TripWork, TripPcs
<1>9. QED
  BY <1>2, <1>6, <1>7, <1>8, Quiet DEF GoesOn, Done

LEMMA SweepStartAgree ==
  ASSUME TypeOK, TypeOK', AgreeInv, NEW s \in Slots, SweepStart(s)
  PROVE  AgreeInv'
<1> DEFINE d == [NoCall EXCEPT !.pc = "sw_visit", !.grp = cur, !.now = now]
<1>1. Concerns(call[s].pc) = {}
  BY IdleConcerns DEF SweepStart, At
<1>2. d.pc = "sw_visit" /\ d.obj = None /\ d.grp = cur
  BY DEF NoCall
<1>3. Await(s, d)
  BY DEF SweepStart
<1> HIDE DEF d
<1>4. SlotOK(s, d) /\ Concerns(d.pc) = {}
  BY <1>2 DEF SlotOK, Rebuilding, Concerns, SosPcs, SafePcs
<1>5. Undisturbed
  BY DEF SweepStart, Undisturbed, Alike, SosShown, EtaShown
<1>6. QED
  BY <1>1, <1>3, <1>4, <1>5, AwaitAgree

\* The session is dropped: what the handlers of it still do is nobody's.
LEMMA SweepEndAgree ==
  ASSUME TypeOK, TypeOK', AgreeInv, NEW s \in Slots, SweepEnd(s)
  PROVE  AgreeInv'
<1>1. /\ call[s].pc = "sw_end" /\ Concerns(call[s].pc) = {} /\ Return(s)
      /\ UNCHANGED <<heap, row, trips, view>>
  BY DEF SweepEnd, At, Concerns, SosPcs, SafePcs
<1>2. CASE cur' = cur
  <2>1. Undisturbed
    BY <1>1, <1>2 DEF Undisturbed, Alike, SosShown, EtaShown
  <2>2. QED
    BY <1>1, <2>1, ReturnAgree
<1>3. CASE cur' = None /\ ~view.on
  <2>1. Turn(s, NoCall) /\ clash' = clash
    BY <1>1, ReturnTurn DEF Return
  <2>2. call'[s] = NoCall /\ \A t \in Slots \ {s} : call'[t] = call[t]
    BY <2>1, TurnSlots
  <2>3. NoCall.pc = "idle" /\ NoCall.obj = None
    BY DEF NoCall
  <2>4. SessionInv'
    <3>1. Exclusive'
      BY <2>1, <2>2, <2>3, IdleConcerns DEF Exclusive, AgreeInv, SessionInv
    <3>2. \A t \in Slots : call'[t].obj # None => heap'[call'[t].obj].in
      BY <1>1, <2>2, <2>3 DEF AgreeInv, SessionInv
    <3>3. \A t \in Slots : Visiting(t)' /\ call'[t].pc # "sw_visit" => heap'[call'[t].grp].in
      BY <1>1, <2>2, <2>3 DEF AgreeInv, SessionInv, Visiting
    <3>4. QED
      BY <1>1, <1>3, <3>1, <3>2, <3>3 DEF SessionInv
  <2>5. SosInv'
    <3> SUFFICES ASSUME "sos" \notin clash, NEW t \in Slots
                 PROVE  SosFits(call'[t], FALSE, heap'[cur'], row)
      BY <1>1, <1>3, <2>1 DEF SosInv, Live
    <3>1. CASE t = s
      BY <2>2, <2>3, <3>1 DEF SosFits, HasRead
    <3>2. CASE t # s
      BY <2>2, <3>2 DEF SosFits, AgreeInv, SosInv
    <3>3. QED
      BY <3>1, <3>2
  <2>6. PathInv'
    <3> SUFFICES ASSUME "path" \notin clash, NEW t \in Slots
                 PROVE  PathFits(call'[t], FALSE, heap'[cur'], row)
      BY <1>1, <1>3, <2>1 DEF PathInv, Live
    <3>1. CASE t = s
      BY <2>2, <2>3, <3>1 DEF PathFits, HasRead
    <3>2. CASE t # s
      BY <2>2, <3>2 DEF PathFits, AgreeInv, PathInv
    <3>3. QED
      BY <3>1, <3>2
  <2>7. ArrivalInv'
    <3> SUFFICES ASSUME "trip" \notin clash, NEW t \in Slots
                 PROVE  TripFits(call'[t], FALSE, heap'[cur'], trips)
      BY <1>1, <1>3, <2>1 DEF ArrivalInv, Live, AgreeInv
    <3>1. CASE t = s
      BY <2>2, <2>3, <3>1 DEF TripFits
    <3>2. CASE t # s
      BY <2>2, <3>2 DEF TripFits, AgreeInv, ArrivalInv
    <3>3. QED
      BY <3>1, <3>2
  <2>8. QED
    BY <2>4, <2>5, <2>6, <2>7 DEF AgreeInv
<1>4. QED
  BY <1>2, <1>3 DEF SweepEnd

-----------------------------------------------------------------------------
(* Awaited operations taking effect *)

\* A handler that stays where it is, while the database changes for it.
Takes(s, d) ==
  /\ Turn(s, d) /\ SessionInv' /\ Done(s, d)
  /\ row'.sos = row.sos /\ SosFit(d) => SosInv'
  /\ row'.path = row.path /\ PathFit(d) => PathInv'
  /\ trips' = trips /\ TripFit(d) => ArrivalInv'

LEMMA EffectTakes ==
  ASSUME TypeOK, TypeOK', AgreeInv, NEW s \in Slots, NEW d,
         call' = [call EXCEPT ![s] = d], UNCHANGED <<heap, cur, view, clash>>,
         d.pc = call[s].pc, d.obj = call[s].obj, d.grp = call[s].grp
  PROVE  Takes(s, d)
<1>1. Turn(s, d)
  BY SameTurn DEF AgreeInv
<1>2. Done(s, d)
  BY NoConcernDone
<1>3. SlotOK(s, d)
  BY DEF SlotOK, Rebuilding, Visiting, AgreeInv, SessionInv
<1>4. SessionInv'
  BY <1>1, <1>3, SessionKept DEF RecordsStay, AgreeInv, SessionInv
<1>5. cur # None => heap[cur].path \in Paths
  BY StateTyped DEF MemberType
<1>6. ASSUME row'.sos = row.sos, SosFit(d) PROVE SosInv'
  BY <1>1, <1>2, <1>6, SosKept DEF SosSame, SosShown, Done, AgreeInv
<1>7. ASSUME row'.path = row.path, PathFit(d) PROVE PathInv'
  BY <1>1, <1>2, <1>5, <1>7, PathKept, PrefixOfSelf DEF PathSame, Done, AgreeInv
<1>8. ASSUME trips' = trips, TripFit(d) PROVE ArrivalInv'
  BY <1>1, <1>2, <1>8, TripKept DEF TripSame, EtaShown, Done, AgreeInv
<1>9. QED
  BY <1>1, <1>2, <1>4, <1>6, <1>7, <1>8 DEF Takes

LEMMA CommitTakes ==
  ASSUME TypeOK, TypeOK', AgreeInv, NEW s \in Slots, NEW pcs, Commit(s, pcs)
  PROVE  LET d == [call[s] EXCEPT !.ran = TRUE]
         IN  /\ Takes(s, d) /\ d.ran
             /\ d.pc = call[s].pc /\ d.obj = call[s].obj /\ d.grp = call[s].grp
             /\ d.path = call[s].path /\ d.trip = call[s].trip /\ d.eta = call[s].eta
             /\ d.row = call[s].row
<1> DEFINE d == [call[s] EXCEPT !.ran = TRUE]
<1>1. /\ d.pc = call[s].pc /\ d.obj = call[s].obj /\ d.grp = call[s].grp /\ d.ran
      /\ d.path = call[s].path /\ d.trip = call[s].trip /\ d.eta = call[s].eta
      /\ d.row = call[s].row
  BY StateTyped DEF CallType
<1>2. call' = [call EXCEPT ![s] = d] /\ UNCHANGED <<heap, cur, view, clash>>
  BY DEF Commit
<1> HIDE DEF d
<1>3. Takes(s, d)
  BY <1>1, <1>2, EffectTakes
<1>4. QED
  BY <1>1, <1>3 DEF d

LEMMA CommitFlagAgree ==
  ASSUME TypeOK, TypeOK', AgreeInv, NEW s \in Slots, CommitFlag(s)
  PROVE  AgreeInv'
<1> DEFINE d == [call[s] EXCEPT !.ran = TRUE]
<1>1. /\ call[s].pc \in {"sos_flag", "safe_flag"} /\ ~call[s].ran
      /\ Commit(s, {"sos_flag", "safe_flag"})
      /\ UNCHANGED <<heap, cur, view, clash, trips>>
  BY DEF CommitFlag, Commit
<1>2. Takes(s, d) /\ d.ran /\ d.pc = call[s].pc
  BY <1>1, CommitTakes
<1>3. row'.path = row.path /\ row'.sos = (call[s].pc = "sos_flag")
  BY DEF CommitFlag, At, TypeOK, RowType
<1> HIDE DEF d
<1>4. PathFit(d) /\ TripFit(d)
  BY <1>1, <1>2 DEF PathFit, PathFits, TripFit, TripFits, HasRead
<1>5. SosInv'
  <2> SUFFICES ASSUME "sos" \notin clash
               PROVE  /\ SosFits(d, cur # None, heap[cur], row')
                      /\ cur # None /\ ~heap[cur].in /\ view.on => ~view.sos
    <3>1. d.pc \in SosWork
      BY <1>1, <1>2 DEF SosWork, SosPcs, SafePcs
    <3>2. QED
      BY <1>1, <1>2, <3>1, SosOwn DEF AgreeInv, Takes
  <2>1. SosFits(call[s], cur # None, heap[cur], row)
    BY DEF AgreeInv, SosInv
  <2>2. QED
    BY <1>1, <1>2, <1>3, <2>1 DEF AgreeInv, SosInv, SosFits, HasRead, SosPcs, SafePcs
<1>6. QED
  BY <1>1, <1>2, <1>3, <1>4, <1>5 DEF AgreeInv, Takes

\* savePath and saveOfflineSnapshot
LEMMA CommitPathAgree ==
  ASSUME TypeOK, TypeOK', AgreeInv, NEW s \in Slots, CommitPath(s) \/ CommitSnapshot(s)
  PROVE  AgreeInv'
<1> DEFINE d == [call[s] EXCEPT !.ran = TRUE]
<1>1. /\ call[s].pc \in {"loc_path", "sos_path", "safe_path", "sw_snapshot"} /\ ~call[s].ran
      /\ \E pcs : Commit(s, pcs)
      /\ UNCHANGED <<heap, cur, view, clash, trips>>
  BY DEF CommitPath, CommitSnapshot, Commit
<1>2. /\ Takes(s, d) /\ d.ran /\ d.pc = call[s].pc /\ d.path = call[s].path
      /\ d.grp = call[s].grp
  BY <1>1, CommitTakes
<1>3. row'.path = call[s].path /\ row'.sos = row.sos
  BY DEF CommitPath, CommitSnapshot, TypeOK, RowType
<1> HIDE DEF d
<1>4. SosFit(d)
  <2> SUFFICES ASSUME "sos" \notin clash PROVE SosFits(d, cur # None, heap[cur], row)
    BY <1>1 DEF SosFit
  <2>1. SosFits(call[s], cur # None, heap[cur], row)
    BY DEF AgreeInv, SosInv
  <2>2. QED
    BY <1>1, <1>2, <2>1 DEF SosFits, HasRead
<1>5. TripFit(d)
  BY <1>1, <1>2 DEF TripFit, TripFits
<1>6. PathInv'
  <2> SUFFICES ASSUME "path" \notin clash
               PROVE  /\ PathFits(d, cur # None, heap[cur], row')
                      /\ cur # None /\ d.pc = "sw_snapshot" => d.grp = cur
    <3>1. d.pc \in PathWork
      BY <1>1, <1>2 DEF PathWork
    <3>2. QED
      BY <1>1, <1>2, <3>1, PathOwn DEF AgreeInv, Takes
  <2>1. /\ PathFits(call[s], cur # None, heap[cur], row)
        /\ cur # None /\ call[s].pc = "sw_snapshot" => call[s].grp = cur
    BY DEF AgreeInv, PathInv
  <2>2. QED
    BY <1>1, <1>2, <1>3, <2>1 DEF PathFits, HasRead
<1>7. QED
  BY <1>1, <1>2, <1>3, <1>4, <1>5, <1>6 DEF AgreeInv, Takes

\* The effects that are about nothing agreed upon.
LEMMA CommitNoticeAgree ==
  ASSUME TypeOK, TypeOK', AgreeInv, NEW s \in Slots,
         CommitLastLocation(s) \/ CommitAlarm(s) \/ CommitReminder(s)
  PROVE  AgreeInv'
<1> DEFINE d == [call[s] EXCEPT !.ran = TRUE]
<1>1. /\ call[s].pc \in {"dis_save", "sos_notify", "sw_remind"}
      /\ \E pcs : Commit(s, pcs)
      /\ UNCHANGED <<heap, cur, view, clash, trips>>
  BY DEF CommitLastLocation, CommitAlarm, CommitReminder, Commit
<1>2. Takes(s, d) /\ d.ran /\ d.pc = call[s].pc
  BY <1>1, CommitTakes
<1>3. row'.path = row.path /\ row'.sos = row.sos
  BY DEF CommitLastLocation, CommitAlarm, CommitReminder, TypeOK, RowType
<1> HIDE DEF d
<1>4. PathFit(d) /\ TripFit(d)
  BY <1>1, <1>2 DEF PathFit, PathFits, TripFit, TripFits, HasRead
<1>5. SosFit(d)
  <2> SUFFICES ASSUME "sos" \notin clash PROVE SosFits(d, cur # None, heap[cur], row)
    BY <1>1 DEF SosFit
  <2>1. SosFits(call[s], cur # None, heap[cur], row)
    BY DEF AgreeInv, SosInv
  <2>2. QED
    BY <1>1, <1>2, <2>1 DEF SosFits, HasRead
<1>6. QED
  BY <1>1, <1>2, <1>3, <1>4, <1>5 DEF AgreeInv, Takes

LEMMA CommitCloseAgree ==
  ASSUME TypeOK, TypeOK', AgreeInv, NEW s \in Slots, CommitClose(s)
  PROVE  AgreeInv'
<1> DEFINE d == [call[s] EXCEPT !.ran = TRUE]
           t == call[s].trip
<1>1. /\ call[s].pc \in {"trip_close", "safe_trip", "end_close"} /\ ~call[s].ran
      /\ \E pcs : Commit(s, pcs)
      /\ UNCHANGED <<heap, cur, view, clash, row>> /\ t \in Trips
  BY StateTyped DEF CommitClose, Commit, CallOK
<1>2. Takes(s, d) /\ d.ran /\ d.pc = call[s].pc
  BY <1>1, CommitTakes
<1>3. Active(trips') = Active(trips) \ {t}
  <2>1. trips'[t].st # "ACTIVE" /\ \A u \in Trips : u # t => trips'[u] = trips[u]
    BY <1>1 DEF CommitClose, TypeOK, TripType
  <2>2. QED
    BY <1>1, <2>1 DEF Active
<1> HIDE DEF d
<1>4. PathFit(d)
  BY <1>1, <1>2 DEF PathFit, PathFits, HasRead
<1>5. SosFit(d)
  <2> SUFFICES ASSUME "sos" \notin clash PROVE SosFits(d, cur # None, heap[cur], row)
    BY <1>1 DEF SosFit
  <2>1. SosFits(call[s], cur # None, heap[cur], row)
    BY DEF AgreeInv, SosInv
  <2>2. QED
    BY <1>1, <1>2, <2>1 DEF SosFits, HasRead, SosPcs
<1>6. ArrivalInv'
  <2> SUFFICES ASSUME "trip" \notin clash
               PROVE  /\ \A p, q \in Active(trips') : p = q
                      /\ TripFits(d, cur # None, heap[cur], trips')
                      /\ cur # None /\ ~heap[cur].in /\ view.on => view.eta = None
    <3>1. d.pc \in TripWork
      BY <1>1, <1>2 DEF TripWork, TripPcs
    <3>2. QED
      BY <1>1, <1>2, <3>1, TripOwn DEF AgreeInv, Takes
  <2>1. TripFits(call[s], cur # None, heap[cur], trips)
    BY DEF AgreeInv, ArrivalInv
  <2>2. TripFits(d, cur # None, heap[cur], trips')
    BY <1>1, <1>2, <1>3, <2>1 DEF TripFits
  <2>3. QED
    BY <1>3, <2>2 DEF AgreeInv, ArrivalInv
<1>7. QED
  BY <1>1, <1>2, <1>4, <1>5, <1>6 DEF AgreeInv, Takes

LEMMA CommitArrivalAgree ==
  ASSUME TypeOK, TypeOK', AgreeInv, NEW s \in Slots, CommitArrival(s)
  PROVE  AgreeInv'
<1> DEFINE d == [call[s] EXCEPT !.ran = TRUE]
           t == call[s].trip
<1>1. /\ call[s].pc = "ext_eta" /\ ~call[s].ran
      /\ \E pcs : Commit(s, pcs)
      /\ UNCHANGED <<heap, cur, view, clash, row>> /\ t \in Trips
  BY StateTyped DEF CommitArrival, Commit, CallOK
<1>2. Takes(s, d) /\ d.ran /\ d.pc = call[s].pc /\ d.trip = t /\ d.eta = call[s].eta
  BY <1>1, CommitTakes
<1>3. Active(trips') = Active(trips) /\ trips'[t].eta = call[s].eta
  <2>1. /\ trips'[t].eta = call[s].eta /\ trips'[t].st = trips[t].st
        /\ \A u \in Trips : u # t => trips'[u] = trips[u]
    BY <1>1 DEF CommitArrival, TypeOK, TripType
  <2>2. QED
    BY <1>1, <2>1 DEF Active
<1> HIDE DEF d
<1>4. PathFit(d) /\ SosFit(d)
  BY <1>1, <1>2 DEF PathFit, PathFits, SosFit, SosFits, HasRead, SosPcs, SafePcs
<1>5. ArrivalInv'
  <2> SUFFICES ASSUME "trip" \notin clash
               PROVE  /\ \A p, q \in Active(trips') : p = q
                      /\ TripFits(d, cur # None, heap[cur], trips')
                      /\ cur # None /\ ~heap[cur].in /\ view.on => view.eta = None
    <3>1. d.pc \in TripWork
      BY <1>1, <1>2 DEF TripWork, TripPcs
    <3>2. QED
      BY <1>1, <1>2, <3>1, TripOwn DEF AgreeInv, Takes
  <2>1. TripFits(call[s], cur # None, heap[cur], trips)
    BY DEF AgreeInv, ArrivalInv
  <2>2. TripFits(d, cur # None, heap[cur], trips')
    BY <1>1, <1>2, <1>3, <2>1 DEF TripFits
  <2>3. QED
    BY <1>3, <2>2 DEF AgreeInv, ArrivalInv
<1>6. QED
  BY <1>1, <1>2, <1>4, <1>5 DEF AgreeInv, Takes

LEMMA CommitCreateAgree ==
  ASSUME TypeOK, TypeOK', AgreeInv, NEW s \in Slots, CommitCreate(s)
  PROVE  AgreeInv'
<1>1. PICK t \in Trips :
        /\ trips' = [trips EXCEPT ![t] = [st |-> "ACTIVE", eta |-> call[s].eta]]
        /\ call' = [call EXCEPT ![s].ran = TRUE, ![s].trip = t]
  BY DEF CommitCreate
<1> DEFINE d == [call[s] EXCEPT !.ran = TRUE, !.trip = t]
<1>2. /\ call[s].pc = "trip_create" /\ ~call[s].ran
      /\ UNCHANGED <<heap, cur, view, clash, row>>
  BY DEF CommitCreate, At
<1>3. /\ d.pc = call[s].pc /\ d.obj = call[s].obj /\ d.grp = call[s].grp /\ d.ran
      /\ d.trip = t /\ d.eta = call[s].eta
  BY StateTyped DEF CallType
<1>4. call' = [call EXCEPT ![s] = d]
  BY <1>1, StateTyped DEF TypeOK
<1> HIDE DEF d
<1>5. Takes(s, d)
  BY <1>2, <1>3, <1>4, EffectTakes
<1>6. Active(trips') = Active(trips) \cup {t} /\ trips'[t].eta = call[s].eta
  <2>1. /\ trips'[t].eta = call[s].eta /\ trips'[t].st = "ACTIVE"
        /\ \A u \in Trips : u # t => trips'[u] = trips[u]
    BY <1>1 DEF TypeOK
  <2>2. QED
    BY <2>1 DEF Active
<1>7. PathFit(d) /\ SosFit(d)
  BY <1>2, <1>3 DEF PathFit, PathFits, SosFit, SosFits, HasRead, SosPcs, SafePcs
<1>8. ArrivalInv'
  <2> SUFFICES ASSUME "trip" \notin clash
               PROVE  /\ \A p, q \in Active(trips') : p = q
                      /\ TripFits(d, cur # None, heap[cur], trips')
                      /\ cur # None /\ ~heap[cur].in /\ view.on => view.eta = None
    <3>1. d.pc \in TripWork
      BY <1>2, <1>3 DEF TripWork, TripPcs
    <3>2. QED
      BY <1>2, <1>5, <3>1, TripOwn DEF AgreeInv, Takes
  <2>1. Active(trips) = {}
    BY <1>2 DEF AgreeInv, ArrivalInv, TripFits
  <2>2. TripFits(d, cur # None, heap[cur], trips')
    BY <1>2, <1>3, <1>6, <2>1 DEF TripFits
  <2>3. QED
    BY <1>6, <2>1, <2>2 DEF AgreeInv, ArrivalInv
<1>9. QED
  BY <1>2, <1>5, <1>7, <1>8 DEF AgreeInv, Takes

LEMMA CommitGroupReadAgree ==
  ASSUME TypeOK, TypeOK', AgreeInv, NEW s \in Slots, CommitGroupRead(s)
  PROVE  AgreeInv'
<1> DEFINE d == [call[s] EXCEPT !.ran = TRUE, !.row = row]
<1>1. call[s].pc = "con_group" /\ UNCHANGED <<heap, cur, view, clash, row, trips>>
  BY DEF CommitGroupRead, At
<1>2. /\ d.pc = call[s].pc /\ d.obj = call[s].obj /\ d.grp = call[s].grp /\ d.row = row
  BY StateTyped DEF CallType
<1>3. call' = [call EXCEPT ![s] = d]
  BY StateTyped DEF CommitGroupRead, TypeOK
<1> HIDE DEF d
<1>4. Takes(s, d)
  BY <1>1, <1>2, <1>3, EffectTakes
<1>5. Fit(d)
  BY <1>1, <1>2
  DEF Fit, PathFit, PathFits, SosFit, SosFits, TripFit, TripFits, HasRead, SosPcs, SafePcs
<1>6. QED
  BY <1>1, <1>4, <1>5 DEF AgreeInv, Takes, Fit

LEMMA CommitTripsReadAgree ==
  ASSUME TypeOK, TypeOK', AgreeInv, NEW s \in Slots, CommitTripsRead(s)
  PROVE  AgreeInv'
<1>1. PICK t \in IF ActiveTrips = {} THEN {None} ELSE ActiveTrips :
        call' = [call EXCEPT ![s].ran = TRUE, ![s].trip = t,
                             ![s].eta = IF t = None THEN None ELSE trips[t].eta]
  BY DEF CommitTripsRead
<1> DEFINE e == IF t = None THEN None ELSE trips[t].eta
           d == [call[s] EXCEPT !.ran = TRUE, !.trip = t, !.eta = e]
<1>2. call[s].pc = "con_trips" /\ UNCHANGED <<heap, cur, view, clash, row, trips>>
  BY DEF CommitTripsRead, At
<1>3. /\ d.pc = call[s].pc /\ d.obj = call[s].obj /\ d.grp = call[s].grp
      /\ d.row = call[s].row /\ d.trip = t /\ d.eta = e
  BY StateTyped DEF CallType
<1>4. call' = [call EXCEPT ![s] = d]
  BY <1>1, StateTyped DEF TypeOK
<1> HIDE DEF d
<1>5. Takes(s, d)
  BY <1>2, <1>3, <1>4, EffectTakes
<1>6. SosFit(d)
  BY <1>2, <1>3 DEF SosFit, SosFits, HasRead, SosPcs, SafePcs, AgreeInv, SosInv
<1>7. PathFit(d)
  BY <1>2, <1>3 DEF PathFit, PathFits, HasRead, AgreeInv, PathInv
<1>8. TripFit(d)
  <2> SUFFICES ASSUME "trip" \notin clash PROVE Names(d, trips)
    BY <1>2, <1>3 DEF TripFit, TripFits
  <2>1. \A p, q \in Active(trips) : p = q
    BY DEF AgreeInv, ArrivalInv
  <2>2. ActiveTrips = Active(trips) /\ None \notin Active(trips)
    BY NoneAssumption DEF ActiveTrips, Active
  <2>3. QED
    BY <1>1, <1>3, <2>1, <2>2 DEF Names
<1>9. QED
  BY <1>2, <1>5, <1>6, <1>7, <1>8 DEF AgreeInv, Takes

-----------------------------------------------------------------------------
(* Failures, restarts, the peer and the clock *)

LEMMA FailAgree ==
  ASSUME TypeOK, TypeOK', AgreeInv, NEW s \in Slots, Fail(s)
  PROVE  AgreeInv'
<1> DEFINE d == IF s \in Sweeps THEN EndOfVisit(call[s]) ELSE NoCall
<1>1. d.pc \in {"idle", "sw_end"} /\ d.obj = None /\ Concerns(d.pc) = {}
  BY DEF EndOfVisit, NoCall, Concerns, SosPcs, SafePcs
<1>2. /\ call' = [call EXCEPT ![s] = d]
      /\ clash' = clash \cup (IF Rebuilding(call[s]) THEN {} ELSE Concerns(call[s].pc))
  BY DEF Fail, Rebuilding
<1> HIDE DEF d
<1>3. Turn(s, d)
  BY <1>1, <1>2 DEF Turn
<1>4. SlotOK(s, d) /\ Fit(d)
  BY <1>1, NoConcernFits DEF SlotOK, Rebuilding
<1>5. Undisturbed
  BY DEF Fail, Undisturbed, Alike, SosShown, EtaShown
<1>6. ASSUME NEW X \in Everything, X \notin clash', Live PROVE X \notin Concerns(call[s].pc)
  BY <1>2, <1>6 DEF AgreeInv, SessionInv, Live
<1>7. Done(s, d)
  BY <1>6, ConcernSets DEF Done, SosDone, PathDone, TripDone, Everything
<1>8. QED
  BY <1>3, <1>4, <1>5, <1>7, Quiet DEF GoesOn

LEMMA CrashAgree ==
  ASSUME TypeOK, TypeOK', AgreeInv, Crash
  PROVE  AgreeInv'
<1>1. /\ \A t \in Slots : call'[t] = NoCall
      /\ cur' = None /\ ~view'.on /\ trips' = trips
      /\ clash' = IF \E t, u \in ActiveTrips : t # u THEN {"trip"} ELSE {}
  BY DEF Crash, Unseen
<1>2. NoCall.pc = "idle" /\ NoCall.obj = None
  BY DEF NoCall
<1>3. SessionInv'
  BY <1>1, <1>2, IdleConcerns DEF SessionInv, Exclusive, Rebuilding, Visiting
<1>4. SosInv'
  BY <1>1, <1>2 DEF SosInv, SosFits, HasRead, Live, SosPcs, SafePcs
<1>5. PathInv'
  BY <1>1, <1>2 DEF PathInv, PathFits, HasRead, Live
<1>6. ArrivalInv'
  BY <1>1, <1>2 DEF ArrivalInv, TripFits, Live, Active, ActiveTrips
<1>7. QED
  BY <1>3, <1>4, <1>5, <1>6 DEF AgreeInv

LEMMA PeerAgree ==
  ASSUME TypeOK, TypeOK', AgreeInv, UNCHANGED <<heap, cur, row, trips, call, clash>>,
         view' = view \/ ~view'.on
  PROVE  AgreeInv'
<1>1. SessionInv'
  BY DEF AgreeInv, SessionInv, Exclusive, Rebuilding, Visiting
<1>2. SosInv'
  BY DEF AgreeInv, SosInv, SosMatch, Live
<1>3. PathInv'
  BY DEF AgreeInv, PathInv, Live
<1>4. ArrivalInv'
  BY DEF AgreeInv, ArrivalInv, TripMatch, Live
<1>5. QED
  BY <1>1, <1>2, <1>3, <1>4 DEF AgreeInv

-----------------------------------------------------------------------------
(* The invariant *)

LEMMA InitAgree == Init => AgreeInv
<1> SUFFICES ASSUME Init PROVE AgreeInv
  OBVIOUS
<1>1. /\ \A t \in Slots : call[t] = NoCall
      /\ ~row.sos /\ row.path = <<>> /\ Active(trips) = {} /\ clash = {}
  BY DEF Init, EmptyRow, Active
<1>2. NoCall.pc = "idle" /\ NoCall.obj = None
  BY DEF NoCall
<1>3. cur # None => /\ heap[cur].in /\ heap[cur].sos = FALSE /\ heap[cur].path = <<>>
                    /\ heap[cur].trip = None /\ heap[cur].eta = None
  <2>1. cur # None => heap[cur] = Fresh
    BY DEF Init
  <2>2. /\ Fresh.in /\ Fresh.sos = FALSE /\ Fresh.path = <<>> /\ Fresh.trip = None
        /\ Fresh.eta = None
    BY DEF Fresh, Absent
  <2>3. QED
    BY <2>1, <2>2
<1>4. /\ view.sos = FALSE /\ view.eta = None /\ (cur = None => ~view.on)
      /\ row.sos = FALSE
  BY NoneAssumption DEF Init, Unseen, EmptyRow
<1>5. SessionInv
  BY <1>1, <1>2, <1>4, IdleConcerns DEF SessionInv, Exclusive, Rebuilding, Visiting
<1>6. SosInv
  BY <1>1, <1>2, <1>3, <1>4 DEF SosInv, SosFits, SosMatch, HasRead, Live, SosPcs, SafePcs
<1>7. PathInv
  BY <1>1, <1>2, <1>3, PrefixOfSelf, PathTyped DEF PathInv, PathFits, HasRead, Live
<1>8. ArrivalInv
  BY <1>1, <1>2, <1>3, <1>4 DEF ArrivalInv, TripFits, TripMatch, Names, Live
<1>9. QED
  BY <1>5, <1>6, <1>7, <1>8 DEF AgreeInv

LEMMA ClientAgree ==
  ASSUME TypeOK, TypeOK', AgreeInv, NEW s \in Slots, ClientStarts(s)
  PROVE  AgreeInv'
BY UpdateLocationAgree, StartSosAgree, EndSosAgree, StartTripAgree, ExtendTripAgree,
   EndTripAgree, ConnectAgree, DisconnectAgree
DEF ClientStarts

LEMMA ContinueAgree ==
  ASSUME TypeOK, TypeOK', AgreeInv, NEW s \in Slots, Continue(s)
  PROVE  AgreeInv'
BY LocationResumesAgree, SosFlaggedAgree, SosPathSavedAgree, SosLoggedAgree,
   SosNotifiedAgree, SafeFlaggedAgree, SafePathSavedAgree, SafeTripClosedAgree,
   SafeNotifiedAgree, PreviousTripClosedAgree, TripEndedAgree, TripExtendedAgree,
   AttachMemberAgree, BuildSessionAgree, GroupReadAgree, SessionBuiltAgree,
   LocationSavedAgree, SweepVisitAgree, SweepRemindedAgree, SnapshotSavedAgree,
   SweepEndAgree
DEF Continue

LEMMA EffectAgree ==
  ASSUME TypeOK, TypeOK', AgreeInv, NEW s \in Slots, Effect(s)
  PROVE  AgreeInv'
BY CommitFlagAgree, CommitPathAgree, CommitNoticeAgree, CommitCloseAgree,
   CommitCreateAgree, CommitArrivalAgree, CommitGroupReadAgree, CommitTripsReadAgree
DEF Effect

LEMMA NextAgree == TypeOK /\ AgreeInv /\ [Next]_vars => AgreeInv'
<1> SUFFICES ASSUME TypeOK, AgreeInv, [Next]_vars PROVE AgreeInv'
  OBVIOUS
<1>1. TypeOK'
  BY NextTyped
<1>2. CASE \E s \in Clients : ClientStarts(s)
  BY <1>1, <1>2, ClientAgree DEF Slots
<1>3. CASE \E s \in Sweeps : SweepStart(s)
  BY <1>1, <1>3, SweepStartAgree DEF Slots
<1>4. CASE \E s \in Slots : Continue(s)
  BY <1>1, <1>4, ContinueAgree
<1>5. CASE \E s \in Slots : Effect(s)
  BY <1>1, <1>5, EffectAgree
<1>6. CASE \E s \in Slots : Fail(s)
  BY <1>1, <1>6, FailAgree
<1>7. CASE PeerDisconnect
  BY <1>1, <1>7, PeerAgree DEF PeerDisconnect, Unseen
<1>8. CASE Crash
  BY <1>1, <1>8, CrashAgree
<1>9. CASE Tick \/ UNCHANGED vars
  BY <1>1, <1>9, PeerAgree DEF Tick, vars
<1>10. QED
  BY <1>2, <1>3, <1>4, <1>5, <1>6, <1>7, <1>8, <1>9 DEF Next

LEMMA AgreeInvariant == Spec => [](TypeOK /\ AgreeInv)
<1>1. Init => TypeOK /\ AgreeInv
  BY InitTyped, InitAgree
<1>2. (TypeOK /\ AgreeInv) /\ [Next]_vars => (TypeOK /\ AgreeInv)'
  BY NextTyped, NextAgree
<1>3. QED
  BY <1>1, <1>2, PTL DEF Spec

\* The SOS column, the record and the peer's screen agree whenever no handler
\* is about the SOS, if none that was overlapped another or failed since the
\* last restart: startSos and endSos write the three in different segments,
\* buildGroupSession reads the column in one and makes the record in another,
\* and attachMember may greet the peer between any two (SosAgreement).
THEOREM SosAgrees == Spec => []SosAgreement
<1>1. TypeOK /\ AgreeInv => SosAgreement
  BY AgreeImplies
<1>2. QED
  BY <1>1, AgreeInvariant, PTL

\* What savePath wrote is a prefix of the path in the record, for every path
\* and however many locations arrive, sessions are built and passes snapshot
\* (PathAgreement).
THEOREM PathAgrees == Spec => []PathAgreement
<1>1. TypeOK /\ AgreeInv => PathAgreement
  BY AgreeImplies
<1>2. QED
  BY <1>1, AgreeInvariant, PTL

\* The only ACTIVE row is the trip of the record, with the arrival that the
\* record holds and the peer was told: startTrip, extendTrip, endTrip, endSos
\* and buildGroupSession, with any number of members' calls and restarts
\* (TripAgreement).
THEOREM TripAgrees == Spec => []TripAgreement
<1>1. TypeOK /\ AgreeInv => TripAgreement
  BY AgreeImplies
<1>2. QED
  BY <1>1, AgreeInvariant, PTL

=============================================================================
