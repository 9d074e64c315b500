-------------------------- MODULE LiveInputs_proofs --------------------------
(* Proofs about LiveInputs. *)
EXTENDS LiveInputs, TLAPS

-----------------------------------------------------------------------------
(* Dates *)

LEMMA Halves == ASSUME NEW n \in Nat PROVE 2 * (n \div 2) \in {n, n - 1} /\ (2 * (n \div 2)) \div 2 = n \div 2
  OBVIOUS

\* A whole number of milliseconds is its own.
LEMMA WholeIsWhole == ASSUME NEW n \in Int PROVE WholeMs(n) \in Int /\ WholeMs(WholeMs(n)) = WholeMs(n)
<1>1. CASE n >= 0
  BY <1>1, Halves DEF WholeMs
<1>2. CASE n < 0
  <2>1. -n \in Nat
    BY <1>2
  <2>2. WholeMs(n) = -(2 * ((-n) \div 2))
    BY <1>2 DEF WholeMs
  <2>3. (2 * ((-n) \div 2)) \div 2 = (-n) \div 2 /\ 2 * ((-n) \div 2) \in Nat
    BY <2>1, Halves
  <2> DEFINE h == 2 * ((-n) \div 2)
  <2>4. CASE h = 0
    BY <2>2, <2>4 DEF WholeMs
  <2>5. CASE h > 0
    BY <2>2, <2>3, <2>5 DEF WholeMs
  <2> QED BY <2>3, <2>4, <2>5
<1> QED BY <1>1, <1>2

-----------------------------------------------------------------------------
(* Types *)

Rec == [in : BOOLEAN, sock : BOOLEAN, loc : Places \cup {NoPlace}, sos : BOOLEAN,
        path : Seq(Places), trip : Nat, eta : Int]
TripRow == [active : BOOLEAN, eta : {n \in Int : WholeMs(n) = n}]

\* TypeOK, with the bound of the trip apart.
Typed ==
  /\ rec \in Rec /\ rec.trip \in 0..Len(trips)
  /\ row \in [last : Places \cup {NoPlace}, path : Seq(Places), sos : BOOLEAN]
  /\ trips \in Seq(TripRow)
  /\ room \in [loc : Places \cup {NoPlace}, sos : BOOLEAN]
  /\ answer \in {"none", "done", "refused"}
  /\ sent \in RawNumbers
  /\ used \in Nat

LEMMA WithoutTripTyped ==
  ASSUME NEW r \in Rec
  PROVE  /\ WithoutTrip(r) \in Rec /\ WithoutTrip(r).trip = 0
         /\ WithoutTrip(r).loc = r.loc /\ WithoutTrip(r).sos = r.sos
<1> DEFINE z == 0
<1>1. z \in Nat /\ z \in Int /\ z = 0
  OBVIOUS
<1>2. WithoutTrip(r) = [r EXCEPT !.trip = z, !.eta = z]
  BY DEF WithoutTrip
<1> HIDE DEF z
<1>3. [r EXCEPT !.trip = z, !.eta = z] \in Rec
  BY <1>1 DEF Rec
<1>4. /\ [r EXCEPT !.trip = z, !.eta = z].trip = z
      /\ [r EXCEPT !.trip = z, !.eta = z].loc = r.loc
      /\ [r EXCEPT !.trip = z, !.eta = z].sos = r.sos
  BY DEF Rec
<1> QED BY <1>1, <1>2, <1>3, <1>4

LEMMA RowOf ==
  ASSUME NEW i \in 1..Len(trips), trips \in Seq(TripRow)
  PROVE  trips[i] \in TripRow /\ trips[i].eta \in Int /\ WholeMs(trips[i].eta) = trips[i].eta
<1>1. trips[i] \in TripRow
  OBVIOUS
<1> QED BY <1>1 DEF TripRow

\* The path with one more place, if it is kept at all.
LEMMA Longer ==
  ASSUME NEW p \in Seq(Places), NEW l \in Places, NEW b \in BOOLEAN
  PROVE  /\ (IF b THEN Append(p, l) ELSE p) \in Seq(Places)
         /\ p # <<>> => (IF b THEN Append(p, l) ELSE p) # <<>>
         /\ p # <<>> => (IF b THEN Append(p, l) ELSE p)[1] = p[1]
<1>1. CASE b
  <2>1. Append(p, l) \in Seq(Places) /\ Len(Append(p, l)) = Len(p) + 1 /\ Len(p) \in Nat
    OBVIOUS
  <2>2. ASSUME p # <<>> PROVE Len(p) >= 1
    BY <2>1, <2>2
  <2> QED BY <1>1, <2>1, <2>2
<1>2. CASE ~b
  BY <1>2
<1> QED BY <1>1, <1>2

LEMMA TypedIsTypeOK == Typed => TypeOK
  BY DEF Typed, TypeOK, Rec, TripRow

LEMMA TypeOKIsTyped == TypeOK => Typed
<1> SUFFICES ASSUME TypeOK PROVE Typed
  OBVIOUS
<1>1. Len(trips) \in Nat
  BY DEF TypeOK
<1>2. rec \in Rec /\ rec.trip \in 0..Len(trips)
  BY <1>1 DEF TypeOK, Rec
<1> QED BY <1>2 DEF TypeOK, Typed, TripRow

\* What a place is made of is valid.
LEMMA ParsedIsPlace ==
  ASSUME NEW raw \in [at : RawPlaces, time : RawNumbers], ValidLocation(raw)
  PROVE  ParseLocation(raw) \in Places
<1>1. raw.time \in RawNumbers /\ raw.at \in RawPlaces
  OBVIOUS
<1>2. raw.time.n \in Numbers
  BY <1>1 DEF ValidLocation, IsPositive, RawNumbers, Nothing
<1> QED BY <1>2 DEF ValidLocation, ParseLocation, IsPositive, IsPlace, Places

LEMMA ConvertedTyped ==
  ASSUME NEW raw \in RawLocations PROVE Converted(raw) \in RawLocations
  BY DEF Converted, RawLocations, RawPlaces, RawNumbers, Nothing

LEMMA DtoIsValid ==
  ASSUME NEW dto, ValidDto(dto) PROVE ValidLocation(dto)
  BY DEF ValidDto, ValidLocation, IsPlace

LEMMA OptionalTyped ==
  ASSUME NEW raw \in RawLocations PROVE ParseOptionalLocation(raw) \in Places \cup {NoPlace}
  BY ParsedIsPlace DEF ParseOptionalLocation, RawLocations

LEMMA RestoredTyped ==
  ASSUME Typed
  PROVE  /\ Restored \in Rec /\ Restored.trip \in 0..Len(trips)
         /\ Restored.in /\ Restored.sos = row.sos /\ Restored.path = row.path
         /\ Restored.loc = row.last
         /\ Restored.trip # 0 => Restored.eta = trips[Restored.trip].eta
<1> DEFINE active == {i \in DOMAIN trips : trips[i].active}
           trip == IF active = {} THEN 0 ELSE CHOOSE i \in active : TRUE
<1>1. Len(trips) \in Nat /\ DOMAIN trips = 1..Len(trips)
  BY DEF Typed
<1>2. trip \in 0..Len(trips)
  BY <1>1
<1>3. trip # 0 => trips[trip].eta \in Int
  <2> HIDE DEF trip
  <2> SUFFICES ASSUME trip # 0 PROVE trips[trip].eta \in Int
    OBVIOUS
  <2>1. trip \in 1..Len(trips)
    BY <1>1, <1>2
  <2> QED BY <2>1, RowOf DEF Typed
<1> HIDE DEF trip
<1>4. Restored = [NoRecord EXCEPT !.in = TRUE, !.loc = row.last, !.sos = row.sos,
                                  !.path = row.path, !.trip = trip,
                                  !.eta = IF trip = 0 THEN 0 ELSE trips[trip].eta]
  BY DEF Restored, trip
<1>5. trip \in Nat /\ (IF trip = 0 THEN 0 ELSE trips[trip].eta) \in Int
  BY <1>1, <1>2, <1>3
<1> DEFINE eta == IF trip = 0 THEN 0 ELSE trips[trip].eta
<1>6. trip # 0 => eta = trips[trip].eta
  OBVIOUS
<1> HIDE DEF eta
<1>7. Restored = [in |-> TRUE, sock |-> FALSE, loc |-> row.last, sos |-> row.sos,
                  path |-> row.path, trip |-> trip, eta |-> eta]
  BY <1>4 DEF NoRecord, eta
<1>8. row.last \in Places \cup {NoPlace} /\ row.sos \in BOOLEAN /\ row.path \in Seq(Places)
  BY DEF Typed
<1>9. eta \in Int
  BY <1>5 DEF eta
<1> QED BY <1>2, <1>5, <1>6, <1>7, <1>8, <1>9 DEF Rec

LEMMA InitTyped == Init => Typed
  BY InputNumbers DEF Init, Typed, NoRecord, Rec, RawNumbers, Nothing

LEMMA ReceiveTyped ==
  ASSUME Typed, NEW n \in RawNumbers, Receive(n) PROVE sent' \in RawNumbers /\ used' \in Nat
  BY DEF Receive, Typed

LEMMA RefuseTyped ==
  ASSUME Typed, Refuse, sent' \in RawNumbers, used' \in Nat PROVE Typed'
  BY DEF Typed, Refuse

LEMMA NothingTyped == Nothing \in RawNumbers
  BY DEF Nothing, RawNumbers

LEMMA ConnectTyped ==
  ASSUME Typed, NEW identified \in Identified, NEW raw \in RawLocations, Connect(identified, raw)
  PROVE  Typed'
<1> DEFINE loc == ParseOptionalLocation(raw)
<1>1. sent' \in RawNumbers /\ used' \in Nat
  BY ReceiveTyped, NothingTyped DEF Connect
<1>2. CASE Refuse
  BY <1>1, <1>2, RefuseTyped
<1>3. CASE ~Refuse
  <2>1. loc \in Places \cup {NoPlace}
    BY OptionalTyped
  <2>2. Attached(rec, loc) \in Rec /\ Attached(rec, loc).trip = rec.trip
    <3> DEFINE l == IF loc = NoPlace THEN rec.loc ELSE loc
               p == IF loc # NoPlace /\ rec.sos THEN Append(rec.path, loc) ELSE rec.path
    <3>1. rec \in Rec /\ rec.loc \in Places \cup {NoPlace} /\ rec.path \in Seq(Places)
      BY DEF Typed, Rec
    <3>2. l \in Places \cup {NoPlace}
      BY <2>1, <3>1
    <3>3. p \in Seq(Places)
      BY <2>1, <3>1
    <3>4. Attached(rec, loc) = [rec EXCEPT !.sock = TRUE, !.loc = l, !.path = p]
      BY DEF Attached
    <3> HIDE DEF l, p
    <3> QED BY <3>1, <3>2, <3>3, <3>4 DEF Rec
  <2>3. Built(loc) \in Rec /\ Built(loc).trip = Restored.trip
    BY <2>1, RestoredTyped DEF Built, Rec
  <2>4. /\ rec' = IF rec.in THEN Attached(rec, loc) ELSE Built(loc)
        /\ room' = Shown(rec'.loc) /\ answer' = "done" /\ UNCHANGED <<row, trips>>
    BY <1>3 DEF Connect
  <2>5. rec' \in Rec /\ rec'.trip \in 0..Len(trips)
    BY <2>2, <2>3, <2>4, RestoredTyped DEF Typed
  <2>6. room' \in [loc : Places \cup {NoPlace}, sos : BOOLEAN]
    BY <2>4, <2>5 DEF Shown, Typed, Rec
  <2> QED BY <1>1, <2>4, <2>5, <2>6 DEF Typed
<1> QED BY <1>2, <1>3

LEMMA DisconnectTyped == ASSUME Typed, Disconnect PROVE Typed'
<1>1. rec' \in Rec /\ rec'.trip = rec.trip
  BY DEF Disconnect, Typed, Rec
<1>2. row' \in [last : Places \cup {NoPlace}, path : Seq(Places), sos : BOOLEAN]
  BY DEF Disconnect, Typed, Rec
<1> QED BY <1>1, <1>2, NothingTyped DEF Disconnect, Typed

LEMMA UpdateLocationTyped ==
  ASSUME Typed, NEW loc \in Places, UpdateLocation(loc), sent' \in RawNumbers, used' \in Nat
  PROVE  Typed'
<1>1. rec' \in Rec /\ rec'.trip = rec.trip
  <2>1. rec \in Rec /\ rec.sos \in BOOLEAN /\ rec.path \in Seq(Places)
    BY DEF Typed, Rec
  <2> DEFINE p == IF rec.sos THEN Append(rec.path, loc) ELSE rec.path
  <2>2. p \in Seq(Places)
    BY <2>1, Longer
  <2>3. rec' = [rec EXCEPT !.loc = loc, !.path = p]
    BY DEF UpdateLocation
  <2> HIDE DEF p
  <2> QED BY <2>1, <2>2, <2>3 DEF Rec
<1>2. row' \in [last : Places \cup {NoPlace}, path : Seq(Places), sos : BOOLEAN]
  BY <1>1 DEF UpdateLocation, Typed, Rec
<1>3. room' \in [loc : Places \cup {NoPlace}, sos : BOOLEAN]
  BY DEF UpdateLocation, Shown, Typed
<1> QED BY <1>1, <1>2, <1>3 DEF UpdateLocation, Typed

LEMMA StartSosTyped ==
  ASSUME Typed, StartSos, sent' \in RawNumbers, used' \in Nat PROVE Typed'
<1>1. CASE rec.sos
  BY <1>1 DEF StartSos, Typed
<1>2. CASE ~rec.sos
  <2>1. (IF rec.loc = NoPlace THEN <<>> ELSE <<rec.loc>>) \in Seq(Places)
    BY DEF Typed, Rec
  <2>2. rec' \in Rec /\ rec'.trip = rec.trip /\ rec'.path \in Seq(Places)
    BY <1>2, <2>1 DEF StartSos, Typed, Rec
  <2>3. row' \in [last : Places \cup {NoPlace}, path : Seq(Places), sos : BOOLEAN]
    BY <1>2, <2>2 DEF StartSos, Typed
  <2>4. room' \in [loc : Places \cup {NoPlace}, sos : BOOLEAN] /\ trips' = trips
        /\ answer' \in {"done", "refused"}
    BY <1>2 DEF StartSos, Typed
  <2> QED BY <2>2, <2>3, <2>4 DEF Typed
<1> QED BY <1>1, <1>2

LEMMA ClosedTyped ==
  ASSUME Typed PROVE ClosedIfAny \in Seq(TripRow) /\ Len(ClosedIfAny) = Len(trips)
                     /\ \A i \in 1..Len(trips) : ClosedIfAny[i].eta = trips[i].eta
<1>1. CASE rec.trip = 0
  BY <1>1 DEF ClosedIfAny, Typed
<1>2. CASE rec.trip # 0
  <2>1. rec.trip \in DOMAIN trips /\ DOMAIN trips = 1..Len(trips)
    BY <1>2 DEF Typed
  <2>2. [trips[rec.trip] EXCEPT !.active = FALSE] \in TripRow
        /\ [trips[rec.trip] EXCEPT !.active = FALSE].eta = trips[rec.trip].eta
    <3>1. trips[rec.trip] \in TripRow
      BY <2>1 DEF Typed
    <3> QED BY <3>1 DEF TripRow
  <2>3. Closed = [trips EXCEPT ![rec.trip] = [trips[rec.trip] EXCEPT !.active = FALSE]]
    BY DEF Closed
  <2> QED BY <1>2, <2>1, <2>2, <2>3 DEF ClosedIfAny, Typed
<1> QED BY <1>1, <1>2

LEMMA EndSosTyped ==
  ASSUME Typed, EndSos, sent' \in RawNumbers, used' \in Nat PROVE Typed'
<1>1. CASE ~rec.sos
  BY <1>1 DEF EndSos, Typed
<1>2. CASE rec.sos
  <2>1. rec' \in Rec /\ rec'.trip = 0
    <3> DEFINE p == <<>>
    <3>1. p \in Seq(Places) /\ rec \in Rec
      BY DEF Typed
    <3> DEFINE r == [rec EXCEPT !.sos = FALSE, !.path = p]
    <3>2. rec' = WithoutTrip(r)
      BY <1>2 DEF EndSos
    <3> HIDE DEF p
    <3>3. r \in Rec
      BY <3>1 DEF Rec
    <3> QED BY <3>2, <3>3, WithoutTripTyped
  <2>2. trips' \in Seq(TripRow)
    BY <1>2, ClosedTyped DEF EndSos
  <2>3. Len(trips') \in Nat
    BY <2>2
  <2>4. row' \in [last : Places \cup {NoPlace}, path : Seq(Places), sos : BOOLEAN]
    <3> DEFINE p == <<>>
    <3>1. p \in Seq(Places)
      OBVIOUS
    <3>2. row' = [row EXCEPT !.sos = FALSE, !.path = p]
      BY <1>2 DEF EndSos
    <3> HIDE DEF p
    <3> QED BY <3>1, <3>2 DEF Typed
  <2>5. room' \in [loc : Places \cup {NoPlace}, sos : BOOLEAN] /\ answer' = "done"
    BY <1>2 DEF EndSos, Typed
  <2> QED BY <2>1, <2>2, <2>3, <2>4, <2>5 DEF Typed
<1> QED BY <1>1, <1>2

LEMMA StartTripTyped ==
  ASSUME Typed, NEW eta \in Int, StartTrip(eta), sent' \in RawNumbers, used' \in Nat
  PROVE  Typed'
<1>1. CASE ~IsDate(eta)
  BY <1>1, ClosedTyped DEF StartTrip, Typed
<1>2. CASE IsDate(eta)
  <2>1. [active |-> TRUE, eta |-> WholeMs(eta)] \in TripRow
    BY WholeIsWhole DEF TripRow
  <2>2. trips' \in Seq(TripRow) /\ Len(trips') = Len(trips) + 1
    BY <1>2, <2>1, ClosedTyped DEF StartTrip
  <2>3. rec' = [rec EXCEPT !.trip = Len(trips'), !.eta = eta]
    BY <1>2 DEF StartTrip
  <2>4. rec' \in Rec /\ rec'.trip = Len(trips')
    <3>1. Len(trips') \in Nat
      BY <2>2
    <3> QED BY <2>3, <3>1 DEF Typed, Rec
  <2> QED BY <1>2, <2>2, <2>4 DEF StartTrip, Typed
<1> QED BY <1>1, <1>2

\* A row moved to another arrival.
LEMMA MovedTyped ==
  ASSUME Typed, rec.trip # 0, NEW n \in Int
  PROVE  LET moved == [trips EXCEPT ![rec.trip].eta = WholeMs(n)]
         IN  moved \in Seq(TripRow) /\ Len(moved) = Len(trips) /\ moved[rec.trip].eta = WholeMs(n)
<1>1. rec.trip \in DOMAIN trips /\ DOMAIN trips = 1..Len(trips)
  BY DEF Typed
<1>2. [trips[rec.trip] EXCEPT !.eta = WholeMs(n)] \in TripRow
      /\ [trips[rec.trip] EXCEPT !.eta = WholeMs(n)].eta = WholeMs(n)
  <2>1. trips[rec.trip] \in TripRow
    BY <1>1 DEF Typed
  <2> QED BY <2>1, WholeIsWhole DEF TripRow
<1> QED BY <1>1, <1>2 DEF Typed

LEMMA ExtendTripTyped ==
  ASSUME Typed, NEW by \in Int, ExtendTrip(by), sent' \in RawNumbers, used' \in Nat
  PROVE  Typed'
<1>1. CASE rec.trip = 0
  BY <1>1, RefuseTyped DEF ExtendTrip
<1>2. CASE rec.trip # 0
  <2>1. rec' \in Rec /\ rec'.trip = rec.trip /\ rec'.eta \in Int
    <3>1. rec \in Rec /\ rec.eta + by \in Int
      BY DEF Typed, Rec
    <3>2. rec' = [rec EXCEPT !.eta = rec.eta + by]
      BY <1>2 DEF ExtendTrip
    <3> QED BY <3>1, <3>2 DEF Rec
  <2>2. trips' \in Seq(TripRow) /\ Len(trips') = Len(trips) /\ answer' \in {"done", "refused"}
    <3>1. CASE IsDate(rec'.eta)
      <4>1. trips' = [trips EXCEPT ![rec.trip].eta = WholeMs(rec'.eta)] /\ answer' = "done"
        BY <1>2, <3>1 DEF ExtendTrip
      <4> QED BY <1>2, <2>1, <4>1, MovedTyped
    <3>2. CASE ~IsDate(rec'.eta)
      BY <1>2, <2>1, <3>2 DEF ExtendTrip, Typed
    <3> QED BY <3>1, <3>2
  <2> QED BY <1>2, <2>1, <2>2 DEF ExtendTrip, Typed
<1> QED BY <1>1, <1>2

LEMMA EndTripTyped ==
  ASSUME Typed, EndTrip, sent' \in RawNumbers, used' \in Nat PROVE Typed'
<1>1. CASE rec.trip = 0
  BY <1>1, RefuseTyped DEF EndTrip
<1>2. CASE rec.trip # 0
  <2>1. rec' \in Rec /\ rec'.trip = 0
    BY <1>2, WithoutTripTyped DEF EndTrip, Typed
  <2>2. trips' \in Seq(TripRow)
    BY <1>2, ClosedTyped DEF EndTrip, ClosedIfAny
  <2> QED BY <1>2, <2>1, <2>2 DEF EndTrip, Typed
<1> QED BY <1>1, <1>2

\* The number of a valid payload is an integer.
LEMMA NumberTyped == ASSUME NEW raw \in RawNumbers, IsPositive(raw) PROVE raw.n \in Int
<1>1. raw.n \in Numbers
  BY DEF RawNumbers, Nothing, IsPositive
<1> QED BY <1>1, InputNumbers

\* Whether an extension adds or takes off.
By(raw) == IF raw.increase = "yes" THEN raw.amount.n ELSE -raw.amount.n

\* A step is a connection, a disconnection, a refusal, a handler given valid
\* values, or a restart: no more is needed of the messages below.
Handled ==
  \/ \E identified \in Identified, raw \in RawLocations : Connect(identified, raw)
  \/ Disconnect
  \/ /\ sent' \in RawNumbers /\ used' \in Nat
     /\ \/ Refuse
        \/ \E loc \in Places : UpdateLocation(loc)
        \/ StartSos
        \/ EndSos
        \/ \E eta \in Int : StartTrip(eta) /\ sent'.is = "number" /\ sent'.n = eta
        \/ \E by \in Int : ExtendTrip(by)
        \/ EndTrip
  \/ Crash

LEMMA NextHandled == ASSUME Typed, Next PROVE Handled
<1>1. CASE \E identified \in Identified, raw \in RawLocations : Connect(identified, raw)
  BY <1>1 DEF Handled
<1>2. CASE Disconnect
  BY <1>2 DEF Handled
<1>3. ASSUME NEW raw \in RawLocations, OnLocation(raw) PROVE Handled
  <2>1. Receive(Nothing) /\ sent' \in RawNumbers /\ used' \in Nat
    BY <1>3, ReceiveTyped, NothingTyped DEF OnLocation, Control
  <2>2. CASE rec.sock /\ ValidLocation(raw)
    <3>1. ParseLocation(raw) \in Places /\ UpdateLocation(ParseLocation(raw))
      BY <1>3, <2>2, ParsedIsPlace DEF OnLocation, Control, RawLocations
    <3> QED BY <2>1, <3>1 DEF Handled
  <2>3. CASE ~(rec.sock /\ ValidLocation(raw))
    BY <1>3, <2>1, <2>3 DEF OnLocation, Control, Handled
  <2> QED BY <2>2, <2>3
<1>4. ASSUME NEW raw \in RawLocations, SendLocation(raw) PROVE Handled
  <2>1. sent' \in RawNumbers /\ used' \in Nat
    BY <1>4, ReceiveTyped, NothingTyped DEF SendLocation
  <2>2. CASE rec.in /\ ValidDto(Converted(raw))
    <3>1. ParseLocation(Converted(raw)) \in Places
      BY <2>2, ConvertedTyped, DtoIsValid, ParsedIsPlace DEF RawLocations
    <3> QED BY <1>4, <2>1, <2>2, <3>1 DEF SendLocation, Handled
  <2>3. CASE ~(rec.in /\ ValidDto(Converted(raw)))
    BY <1>4, <2>1, <2>3 DEF SendLocation, Handled
  <2> QED BY <2>2, <2>3
<1>5. CASE OnSosStart \/ OnSosEnd \/ OnTripEnd
  <2>1. sent' \in RawNumbers /\ used' \in Nat
    BY <1>5, ReceiveTyped, NothingTyped DEF OnSosStart, OnSosEnd, OnTripEnd, Control
  <2> QED BY <1>5, <2>1 DEF OnSosStart, OnSosEnd, OnTripEnd, Control, Handled
<1>6. ASSUME NEW raw \in RawTrips, OnTripStart(raw) PROVE Handled
  <2>1. raw.eta \in RawNumbers
    BY DEF RawTrips
  <2>2. sent' = raw.eta /\ sent' \in RawNumbers /\ used' \in Nat
    BY <1>6, <2>1, ReceiveTyped DEF OnTripStart, Control, Receive
  <2>3. CASE rec.sock /\ ValidTrip(raw)
    <3>1. StartTrip(raw.eta.n)
      BY <1>6, <2>3 DEF OnTripStart, Control
    <3>2. raw.eta.n \in Int /\ raw.eta.is = "number"
      BY <2>1, <2>3, NumberTyped DEF ValidTrip, IsPositive
    <3> QED BY <2>2, <3>1, <3>2 DEF Handled
  <2>4. CASE ~(rec.sock /\ ValidTrip(raw))
    BY <1>6, <2>2, <2>4 DEF OnTripStart, Control, Handled
  <2> QED BY <2>3, <2>4
<1>7. ASSUME NEW raw \in RawExtensions, OnTripExtend(raw) PROVE Handled
  <2>1. raw.amount \in RawNumbers
    BY DEF RawExtensions
  <2>2. sent' \in RawNumbers /\ used' \in Nat
    BY <1>7, ReceiveTyped, NothingTyped DEF OnTripExtend, Control
  <2>3. CASE rec.sock /\ ValidExtension(raw)
    <3>1. ExtendTrip(By(raw))
      BY <1>7, <2>3 DEF OnTripExtend, Control, By
    <3>2. By(raw) \in Int
      BY <2>1, <2>3, NumberTyped DEF ValidExtension, By
    <3> QED BY <2>2, <3>1, <3>2 DEF Handled
  <2>4. CASE ~(rec.sock /\ ValidExtension(raw))
    BY <1>7, <2>2, <2>4 DEF OnTripExtend, Control, Handled
  <2> QED BY <2>3, <2>4
<1>8. CASE Overdue
  BY <1>8, ReceiveTyped, NothingTyped DEF Overdue, Handled
<1>9. CASE Crash
  BY <1>9 DEF Handled
<1> QED BY <1>1, <1>2, <1>3, <1>4, <1>5, <1>6, <1>7, <1>8, <1>9 DEF Next

LEMMA NextTyped == ASSUME Typed, [Next]_vars PROVE Typed'
<1>1. CASE UNCHANGED vars
  BY <1>1 DEF vars, Typed
<1>2. CASE Next
  <2>1. Handled
    BY <1>2, NextHandled
  <2>2. CASE Crash
    <3>1. rec' \in Rec /\ rec'.trip = 0
      BY <2>2 DEF Crash, NoRecord, Rec
    <3> QED BY <2>2, <3>1, ReceiveTyped, NothingTyped DEF Crash, Typed
  <2> QED BY <2>1, <2>2, ConnectTyped, DisconnectTyped, RefuseTyped, UpdateLocationTyped,
             StartSosTyped, EndSosTyped, StartTripTyped, ExtendTripTyped, EndTripTyped
             DEF Handled
<1> QED BY <1>1, <1>2

\* Every variable keeps its type, and every location anywhere is valid, for any
\* numbers, dates and bound.
THEOREM TypeCorrect == Spec => []TypeOK
<1>1. Init => Typed
  BY InitTyped
<1>2. Typed /\ [Next]_vars => Typed'
  BY NextTyped
<1> QED BY <1>1, <1>2, TypedIsTypeOK, PTL DEF Spec

LEMMA AlwaysTyped == Spec => []Typed
<1>1. Init => Typed
  BY InitTyped
<1>2. Typed /\ [Next]_vars => Typed'
  BY NextTyped
<1> QED BY <1>1, <1>2, PTL DEF Spec

-----------------------------------------------------------------------------
(* The arrival in the row *)

LEMMA ArrivalInit == Init => ArrivalKept
  BY DEF Init, NoRecord, ArrivalKept

LEMMA ConnectArrival ==
  ASSUME Typed, ArrivalKept, NEW identified, NEW raw, Connect(identified, raw)
  PROVE  ArrivalKept'
<1> DEFINE loc == ParseOptionalLocation(raw)
<1>1. CASE Refuse
  BY <1>1 DEF Refuse, ArrivalKept
<1>2. CASE ~Refuse /\ rec.in
  <2>1. rec' = Attached(rec, loc) /\ trips' = trips
    BY <1>2 DEF Connect
  <2>2. rec'.trip = rec.trip /\ rec'.eta = rec.eta
    BY <2>1 DEF Attached, Typed, Rec
  <2> QED BY <2>1, <2>2 DEF ArrivalKept
<1>3. CASE ~Refuse /\ ~rec.in
  <2>1. rec' = Built(loc) /\ trips' = trips
    BY <1>3 DEF Connect
  <2>2. rec'.trip = Restored.trip /\ rec'.eta = Restored.eta
    BY <2>1, RestoredTyped DEF Built, Rec
  <2>3. ASSUME Restored.trip # 0
        PROVE  trips[Restored.trip].eta = WholeMs(Restored.eta)
    <3>1. Restored.trip \in 1..Len(trips) /\ Restored.eta = trips[Restored.trip].eta
      BY <2>3, RestoredTyped DEF Typed
    <3> QED BY <3>1, RowOf DEF Typed
  <2> QED BY <2>1, <2>2, <2>3 DEF ArrivalKept
<1> QED BY <1>1, <1>2, <1>3

LEMMA StepArrival == ASSUME Typed, ArrivalKept, [Next]_vars PROVE ArrivalKept'
<1>1. CASE UNCHANGED vars
  BY <1>1 DEF vars, ArrivalKept
<1>2. ASSUME NEW identified, NEW raw, Connect(identified, raw) PROVE ArrivalKept'
  BY <1>2, ConnectArrival
<1>3. CASE rec'.trip = rec.trip /\ rec'.eta = rec.eta /\ trips' = trips
  BY <1>3 DEF ArrivalKept
<1>4. CASE Disconnect
  BY <1>3, <1>4 DEF Disconnect, Typed, Rec
<1>5. ASSUME NEW loc, UpdateLocation(loc) PROVE ArrivalKept'
  BY <1>3, <1>5 DEF UpdateLocation, Typed, Rec
<1>6. CASE StartSos
  BY <1>3, <1>6 DEF StartSos, Typed, Rec
<1>7. CASE rec'.trip = 0
  BY <1>7 DEF ArrivalKept
<1>8. CASE Refuse
  BY <1>3, <1>8 DEF Refuse
<1>9. CASE EndSos
  <2>1. CASE rec.sos
    <3>1. rec' = WithoutTrip([rec EXCEPT !.sos = FALSE, !.path = <<>>])
      BY <1>9, <2>1 DEF EndSos
    <3>2. rec'.trip = 0
      BY <3>1 DEF WithoutTrip, Typed, Rec
    <3> QED BY <1>7, <3>2
  <2>2. CASE ~rec.sos
    BY <1>3, <1>9, <2>2 DEF EndSos
  <2> QED BY <2>1, <2>2
<1>10. ASSUME NEW eta \in Int, StartTrip(eta) PROVE ArrivalKept'
  <2>1. CASE ~IsDate(eta)
    <3>1. rec' = rec /\ trips' = ClosedIfAny
      BY <1>10, <2>1 DEF StartTrip
    <3>2. rec.trip # 0 => rec.trip \in 1..Len(trips)
      BY DEF Typed
    <3> QED BY <3>1, <3>2, ClosedTyped DEF ArrivalKept
  <2>2. CASE IsDate(eta)
    <3> DEFINE new == [active |-> TRUE, eta |-> WholeMs(eta)]
    <3>1. trips' = Append(ClosedIfAny, new) /\ rec' = [rec EXCEPT !.trip = Len(trips'), !.eta = eta]
      BY <1>10, <2>2 DEF StartTrip
    <3>2. ClosedIfAny \in Seq(TripRow) /\ new \in TripRow
      BY ClosedTyped, WholeIsWhole DEF TripRow
    <3>3. trips'[Len(trips')] = new
      BY <3>1, <3>2
    <3>4. rec'.trip = Len(trips') /\ rec'.eta = eta
      BY <3>1 DEF Typed, Rec
    <3> QED BY <3>3, <3>4 DEF ArrivalKept
  <2> QED BY <2>1, <2>2
<1>11. ASSUME NEW by \in Int, ExtendTrip(by) PROVE ArrivalKept'
  <2>1. CASE rec.trip = 0
    BY <1>8, <1>11, <2>1 DEF ExtendTrip
  <2>2. CASE rec.trip # 0
    <3>1. rec.eta + by \in Int /\ rec' = [rec EXCEPT !.eta = rec.eta + by]
      BY <1>11, <2>2 DEF ExtendTrip, Typed, Rec
    <3>2. rec'.trip = rec.trip /\ rec'.eta = rec.eta + by
      BY <3>1 DEF Typed, Rec
    <3>3. ASSUME IsDate(rec'.eta) PROVE trips'[rec.trip].eta = WholeMs(rec'.eta)
      <4>1. trips' = [trips EXCEPT ![rec.trip].eta = WholeMs(rec'.eta)]
        BY <1>11, <2>2, <3>3 DEF ExtendTrip
      <4> QED BY <2>2, <3>1, <3>2, <4>1, MovedTyped
    <3> QED BY <3>2, <3>3 DEF ArrivalKept
  <2> QED BY <2>1, <2>2
<1>12. CASE EndTrip
  <2>1. CASE rec.trip = 0
    BY <1>8, <1>12, <2>1 DEF EndTrip
  <2>2. CASE rec.trip # 0
    BY <1>7, <1>12, <2>2, WithoutTripTyped DEF EndTrip, Typed
  <2> QED BY <2>1, <2>2
<1>13. CASE Crash
  BY <1>7, <1>13 DEF Crash, NoRecord
<1>14. CASE Next
  BY <1>14, NextHandled, <1>2, <1>4, <1>5, <1>6, <1>8, <1>9, <1>10, <1>11, <1>12, <1>13 DEF Handled
<1> QED BY <1>1, <1>14

\* The row of the trip in memory has its arrival, whatever was sent, refused or
\* lost in a restart.
THEOREM ArrivalIsKept == Spec => []ArrivalKept
<1>1. Init => ArrivalKept
  BY ArrivalInit
<1>2. Typed /\ ArrivalKept /\ [Next]_vars => ArrivalKept'
  BY StepArrival
<1> QED BY <1>1, <1>2, AlwaysTyped, PTL DEF Spec

-----------------------------------------------------------------------------
(* The alarm *)

\* An SOS raised with this path may have gone unannounced.
Excused(path) == path # <<>> /\ ~IsDate(path[1].time)

\* The row needs the same, because a restart takes the SOS from there.
SosInv ==
  /\ rec.sos /\ ~room.sos => Excused(rec.path)
  /\ row.sos /\ ~room.sos => Excused(row.path)

LEMMA SosInit == Init => SosInv
  BY DEF Init, NoRecord, SosInv

LEMMA ConnectSos ==
  ASSUME Typed, SosInv, NEW identified, NEW raw \in RawLocations, Connect(identified, raw)
  PROVE  SosInv'
<1> DEFINE loc == ParseOptionalLocation(raw)
<1>1. CASE Refuse
  BY <1>1 DEF Refuse, SosInv
<1>2. CASE ~Refuse
  <2>1. room'.sos = room.sos /\ row' = row
    BY <1>2 DEF Connect, Shown, Typed
  <2>2. CASE rec.in
    <3>1. rec' = Attached(rec, loc)
      BY <1>2, <2>2 DEF Connect
    <3>2. rec'.sos = rec.sos
          /\ rec'.path = IF loc # NoPlace /\ rec.sos THEN Append(rec.path, loc) ELSE rec.path
      BY <3>1 DEF Attached, Typed, Rec
    <3>3. rec.path # <<>> => rec'.path # <<>> /\ rec'.path[1] = rec.path[1]
      <4>1. rec.path \in Seq(Places) /\ loc \in Places \cup {NoPlace}
        BY OptionalTyped DEF Typed, Rec
      <4>2. CASE loc # NoPlace /\ rec.sos
        BY <3>2, <4>1, <4>2, Longer
      <4>3. CASE ~(loc # NoPlace /\ rec.sos)
        BY <3>2, <4>3
      <4> QED BY <4>2, <4>3
    <3> QED BY <2>1, <3>2, <3>3 DEF SosInv, Excused
  <2>3. CASE ~rec.in
    <3>1. rec' = Built(loc)
      BY <1>2, <2>3 DEF Connect
    <3>2. rec'.sos = row.sos /\ rec'.path = row.path
      BY <3>1, RestoredTyped DEF Built, Rec
    <3> QED BY <2>1, <3>2 DEF SosInv
  <2> QED BY <2>2, <2>3
<1> QED BY <1>1, <1>2

LEMMA UpdateSos ==
  ASSUME Typed, SosInv, NEW loc \in Places, UpdateLocation(loc) PROVE SosInv'
<1>1. rec'.sos = rec.sos /\ rec'.path = IF rec.sos THEN Append(rec.path, loc) ELSE rec.path
  BY DEF UpdateLocation, Typed, Rec
<1>2. rec.path # <<>> => rec'.path # <<>> /\ rec'.path[1] = rec.path[1]
  BY <1>1, Longer DEF Typed, Rec
<1>3. room'.sos = room.sos
  BY DEF UpdateLocation, Shown, Typed
<1>4. row'.sos = row.sos /\ row'.path = IF rec.sos THEN rec'.path ELSE row.path
  BY DEF UpdateLocation, Typed
<1> QED BY <1>1, <1>2, <1>3, <1>4 DEF SosInv, Excused

LEMMA StartSosSos == ASSUME Typed, SosInv, StartSos PROVE SosInv'
<1>1. CASE rec.sos
  BY <1>1 DEF StartSos, SosInv
<1>2. CASE ~rec.sos
  <2> DEFINE path == IF rec.loc = NoPlace THEN <<>> ELSE <<rec.loc>>
  <2>1. rec' = [rec EXCEPT !.sos = TRUE, !.path = path] /\ row' = [row EXCEPT !.sos = TRUE, !.path = rec'.path]
    BY <1>2 DEF StartSos
  <2>2. rec'.path = path /\ row'.path = path
    BY <2>1 DEF Typed, Rec
  <2>3. CASE rec.loc # NoPlace /\ ~IsDate(rec.loc.time)
    <3>1. path = <<rec.loc>>
      BY <2>3
    <3>2. Excused(path)
      BY <2>3, <3>1 DEF Excused
    <3> QED BY <2>2, <3>2 DEF SosInv
  <2>4. CASE ~(rec.loc # NoPlace /\ ~IsDate(rec.loc.time))
    <3>1. room'.sos
      BY <1>2, <2>4 DEF StartSos, Typed
    <3> QED BY <3>1 DEF SosInv
  <2> QED BY <2>3, <2>4
<1> QED BY <1>1, <1>2

LEMMA EndSosSos == ASSUME Typed, SosInv, EndSos PROVE SosInv'
<1>1. CASE ~rec.sos
  BY <1>1 DEF EndSos, SosInv
<1>2. CASE rec.sos
  <2>1. ~row'.sos
    BY <1>2 DEF EndSos, Typed
  <2>2. ~rec'.sos
    BY <1>2 DEF EndSos, WithoutTrip, Typed, Rec
  <2> QED BY <2>1, <2>2 DEF SosInv
<1> QED BY <1>1, <1>2

LEMMA StepSos == ASSUME Typed, SosInv, [Next]_vars PROVE SosInv'
<1>1. CASE rec'.sos = rec.sos /\ rec'.path = rec.path /\ row'.sos = row.sos /\ row'.path = row.path
           /\ room' = room
  BY <1>1 DEF SosInv
<1>2. CASE UNCHANGED vars
  BY <1>1, <1>2 DEF vars
<1>3. CASE Disconnect
  BY <1>1, <1>3 DEF Disconnect, Typed, Rec
<1>4. CASE Refuse
  BY <1>1, <1>4 DEF Refuse
<1>5. ASSUME NEW eta, StartTrip(eta) PROVE SosInv'
  BY <1>1, <1>5 DEF StartTrip, Typed, Rec
<1>6. ASSUME NEW by, ExtendTrip(by) PROVE SosInv'
  BY <1>1, <1>4, <1>6 DEF ExtendTrip, Typed, Rec
<1>7. CASE EndTrip
  BY <1>1, <1>4, <1>7 DEF EndTrip, WithoutTrip, Typed, Rec
<1>8. CASE Crash
  BY <1>8 DEF Crash, NoRecord, SosInv
<1>9. CASE Next
  BY <1>9, NextHandled, <1>3, <1>4, <1>5, <1>6, <1>7, <1>8, ConnectSos, UpdateSos, StartSosSos,
     EndSosSos DEF Handled
<1> QED BY <1>2, <1>9

\* An SOS that was raised and not announced was raised at a time that is no Date,
\* restarts and later calls included.
THEOREM SosIsAnnounced == Spec => []SosAnnounced
<1>1. Init => SosInv
  BY SosInit
<1>2. Typed /\ SosInv /\ [Next]_vars => SosInv'
  BY StepSos
<1>3. SosInv => SosAnnounced
  BY DEF SosInv, Excused, SosAnnounced
<1> QED BY <1>1, <1>2, <1>3, AlwaysTyped, PTL DEF Spec

-----------------------------------------------------------------------------
(* The location the group sees *)

LEMMA RoomInit == Init => RoomSeesLocation
  BY DEF Init, NoRecord, RoomSeesLocation

LEMMA StepRoom == ASSUME Typed, RoomSeesLocation, [Next]_vars PROVE RoomSeesLocation'
<1>1. CASE rec'.in = rec.in /\ rec'.loc = rec.loc /\ room'.loc = room.loc
  BY <1>1 DEF RoomSeesLocation
<1>2. CASE UNCHANGED vars
  BY <1>1, <1>2 DEF vars
<1>3. CASE Disconnect
  BY <1>1, <1>3 DEF Disconnect, Typed, Rec
<1>4. CASE Refuse
  BY <1>1, <1>4 DEF Refuse
<1>5. ASSUME NEW eta, StartTrip(eta) PROVE RoomSeesLocation'
  BY <1>1, <1>5 DEF StartTrip, Typed, Rec
<1>6. ASSUME NEW by, ExtendTrip(by) PROVE RoomSeesLocation'
  BY <1>1, <1>4, <1>6 DEF ExtendTrip, Typed, Rec
<1>7. CASE EndTrip
  BY <1>1, <1>4, <1>7 DEF EndTrip, WithoutTrip, Typed, Rec
<1>8. CASE Crash
  BY <1>8 DEF Crash, NoRecord, RoomSeesLocation
<1>9. CASE StartSos
  BY <1>1, <1>9 DEF StartSos, Typed, Rec
<1>10. CASE EndSos
  BY <1>1, <1>10 DEF EndSos, WithoutTrip, Typed, Rec
<1>11. ASSUME NEW identified, NEW raw, Connect(identified, raw) PROVE RoomSeesLocation'
  <2>1. CASE Refuse
    BY <1>4, <2>1
  <2>2. CASE ~Refuse
    <3>1. room' = Shown(rec'.loc)
      BY <1>11, <2>2 DEF Connect
    <3> QED BY <3>1 DEF Shown, RoomSeesLocation, Typed
  <2> QED BY <2>1, <2>2
<1>12. ASSUME NEW loc, UpdateLocation(loc) PROVE RoomSeesLocation'
  <2>1. rec'.loc = loc
    BY <1>12 DEF UpdateLocation, Typed, Rec
  <2>2. CASE IsDate(loc.time)
    BY <1>12, <2>1, <2>2 DEF UpdateLocation, Shown, RoomSeesLocation, Typed
  <2>3. CASE ~IsDate(loc.time)
    BY <2>1, <2>3 DEF RoomSeesLocation
  <2> QED BY <2>2, <2>3
<1>13. CASE Next
  BY <1>13, NextHandled, <1>3, <1>4, <1>5, <1>6, <1>7, <1>8, <1>9, <1>10, <1>11, <1>12 DEF Handled
<1> QED BY <1>2, <1>13

\* The group was last shown the location of the record, but for times that are no
\* Date.
THEOREM RoomAlwaysSees == Spec => []RoomSeesLocation
<1>1. Init => RoomSeesLocation
  BY RoomInit
<1>2. Typed /\ RoomSeesLocation /\ [Next]_vars => RoomSeesLocation'
  BY StepRoom
<1> QED BY <1>1, <1>2, AlwaysTyped, PTL DEF Spec

-----------------------------------------------------------------------------
(* Refusals *)

\* What a refusal may have changed.
Refusal ==
  answer' = "refused" =>
    \/ UNCHANGED <<rec, row, trips, room>>
    \/ /\ rec'.loc # NoPlace /\ ~IsDate(rec'.loc.time)
       /\ UNCHANGED <<rec.trip, rec.eta, row.last, trips, room>>
    \/ /\ rec'.eta # rec.eta /\ ~IsDate(rec'.eta)
       /\ UNCHANGED <<rec.loc, rec.path, row, trips, room>>
    \/ /\ sent'.is = "number" /\ ~IsDate(sent'.n)
       /\ UNCHANGED <<rec, row, room>> /\ trips' = Closed

LEMMA StepRefusal == ASSUME Typed, Next PROVE Refusal
<1>1. CASE Refuse
  BY <1>1 DEF Refuse, Refusal
<1>2. CASE answer' # "refused"
  BY <1>2 DEF Refusal
<1>3. ASSUME NEW identified, NEW raw, Connect(identified, raw) PROVE Refusal
  <2>1. Refuse \/ answer' = "done"
    BY <1>3 DEF Connect
  <2> QED BY <1>1, <1>2, <2>1
<1>4. CASE Disconnect \/ EndSos \/ Crash
  BY <1>2, <1>4 DEF Disconnect, EndSos, Crash
<1>5. ASSUME NEW loc \in Places, UpdateLocation(loc) PROVE Refusal
  <2>1. /\ rec'.loc = loc /\ rec'.trip = rec.trip /\ rec'.eta = rec.eta
        /\ row'.last = row.last /\ trips' = trips
    BY <1>5 DEF UpdateLocation, Typed, Rec
  <2>2. answer' = "refused" => ~IsDate(loc.time) /\ room' = room
    BY <1>5 DEF UpdateLocation
  <2>3. loc # NoPlace
    BY DEF Places, NoPlace
  <2> QED BY <2>1, <2>2, <2>3 DEF Refusal
<1>6. CASE StartSos
  <2>1. CASE rec.sos
    BY <1>2, <1>6, <2>1 DEF StartSos
  <2>2. CASE ~rec.sos
    <3>1. /\ rec'.loc = rec.loc /\ rec'.trip = rec.trip /\ rec'.eta = rec.eta
          /\ row'.last = row.last /\ trips' = trips
      BY <1>6, <2>2 DEF StartSos, Typed, Rec
    <3>2. answer' = "refused" => rec.loc # NoPlace /\ ~IsDate(rec.loc.time) /\ room' = room
      BY <1>6, <2>2 DEF StartSos
    <3> QED BY <3>1, <3>2 DEF Refusal
  <2> QED BY <2>1, <2>2
<1>7. ASSUME NEW eta \in Int, StartTrip(eta), sent'.is = "number", sent'.n = eta PROVE Refusal
  <2>1. CASE IsDate(eta)
    <3>1. answer' = "done"
      BY <1>7, <2>1 DEF StartTrip
    <3> QED BY <1>2, <3>1
  <2>2. CASE ~IsDate(eta)
    BY <1>7, <2>2 DEF StartTrip, ClosedIfAny, Refusal
  <2> QED BY <2>1, <2>2
<1>8. ASSUME NEW by \in Int, ExtendTrip(by) PROVE Refusal
  <2>1. CASE rec.trip = 0
    <3>1. Refuse
      BY <1>8, <2>1 DEF ExtendTrip
    <3> QED BY <1>1, <3>1
  <2>2. CASE rec.trip # 0 /\ IsDate(rec'.eta)
    <3>1. answer' = "done"
      BY <1>8, <2>2 DEF ExtendTrip
    <3> QED BY <1>2, <3>1
  <2>3. CASE rec.trip # 0 /\ ~IsDate(rec'.eta)
    <3>1. /\ rec' = [rec EXCEPT !.eta = rec.eta + by]
          /\ UNCHANGED <<row, trips, room>>
      BY <1>8, <2>3 DEF ExtendTrip
    <3>2. rec'.loc = rec.loc /\ rec'.path = rec.path
      BY <3>1 DEF Typed, Rec
    <3>3. CASE rec'.eta = rec.eta
      <4>1. rec' = rec
        BY <3>1, <3>3 DEF Typed, Rec
      <4> QED BY <3>1, <4>1 DEF Refusal
    <3>4. CASE rec'.eta # rec.eta
      BY <2>3, <3>1, <3>2, <3>4 DEF Refusal
    <3> QED BY <3>3, <3>4
  <2> QED BY <2>1, <2>2, <2>3
<1>9. CASE EndTrip
  BY <1>1, <1>2, <1>9 DEF EndTrip
<1> QED BY NextHandled, <1>1, <1>3, <1>4, <1>5, <1>6, <1>7, <1>8, <1>9 DEF Handled

\* A refusal leaves a change behind only where a time is no Date, and then only
\* the one it names.
THEOREM RefusalsChangeNothing == Spec => RefusedChangesNothing
<1>1. Typed /\ [Next]_vars => [Refusal]_vars
  BY StepRefusal
<1>2. []Typed /\ [][Next]_vars => [][Refusal]_vars
  BY <1>1, PTL
<1>3. [][Refusal]_vars => RefusedChangesNothing
  BY DEF Refusal, RefusedChangesNothing
<1> QED BY <1>2, <1>3, AlwaysTyped, PTL DEF Spec

=============================================================================
