----------------------------- MODULE LiveInputs -----------------------------
(***************************************************************************)
(* What clients send to TrackingGateway and LocationController, and what   *)
(* its values do in LiveSessionService (src/realtime): the handshake, the  *)
(* messages of the tracking socket and the HTTP fallback, with numbers that*)
(* may be out of range, of another type, or no time that a Date can hold.  *)
(*                                                                         *)
(* The user is the only member of the group and one handler runs at a time,*)
(* so a handler is one step; a query throws only where it is given a time  *)
(* that is no Date.  Interleavings and other failures are in LiveMember and*)
(* LiveGroups, and so is what the sweep does besides the overdue alarm.    *)
(***************************************************************************)
EXTENDS Integers, Sequences

CONSTANTS
  Numbers,     \* the numbers that payloads hold, in halves of a millisecond
  Earliest,    \* the first and the last time that both Date and the database
  Latest,      \*   take, in the same unit
  MaxMessages  \* bound: messages, connections, overdue trips and restarts

ASSUME InputNumbers == Numbers \subseteq Int
ASSUME InputDates == Earliest \in Int /\ Latest \in Nat /\ Earliest <= 0
ASSUME InputBound == MaxMessages \in Nat

VARIABLES
  rec,     \* the user's LiveMember record
  row,     \* its GroupMember row and User.sos
  trips,   \* its Trip rows, in the order of creation
  room,    \* what the group was told: the last location, the SOS
  answer,  \* of the last step: "none", "done", "refused"
  sent,    \* history: the arrival in the last message; no guard reads it
  used     \* how much of the bound is spent

vars == <<rec, row, trips, room, answer, sent, used>>

-----------------------------------------------------------------------------
(* Values *)

\* A value that is a number, one that converts to a number, or something else.
Nothing == [is |-> "junk", n |-> 0]
RawNumbers == [is : {"number", "text"}, n : Numbers] \cup {Nothing}

\* The pair of lat and lng, by the worse of the two: numbers in range, in range
\* but so small that they print with an exponent, out of range, something that
\* converts to numbers in range, or something else.
RawPlaces == {"in", "tiny", "out", "text", "junk"}

\* What is no object at all has junk in every field.
RawLocations == [at : RawPlaces, time : RawNumbers]
RawTrips == [at : RawPlaces, eta : RawNumbers]
RawExtensions == [increase : {"yes", "no", "junk"}, amount : RawNumbers]

NoPlace == [at |-> "none", time |-> 0]
Places == [at : {"in", "tiny"}, time : {n \in Numbers : n > 0}]

\* new Date(n) drops the fraction, towards zero.
WholeMs(n) == IF n < 0 THEN -(2 * ((-n) \div 2)) ELSE 2 * (n \div 2)
IsDate(n) == Earliest <= WholeMs(n) /\ n <= Latest

\* `in` says that the session is live; trip 0 is none, and eta then nothing.
NoRecord ==
  [in |-> FALSE, sock |-> FALSE, loc |-> NoPlace, sos |-> FALSE, path |-> <<>>,
   trip |-> 0, eta |-> 0]

Init ==
  /\ rec = NoRecord
  /\ row = [last |-> NoPlace, path |-> <<>>, sos |-> FALSE]
  /\ trips = <<>>
  /\ room = [loc |-> NoPlace, sos |-> FALSE]
  /\ answer = "none" /\ sent = Nothing /\ used = 0

-----------------------------------------------------------------------------
(* Reading what was sent *)

IsPositive(raw) == raw.is = "number" /\ raw.n > 0
IsPlace(at) == at \in {"in", "tiny"}

ValidLocation(raw) == IsPlace(raw.at) /\ IsPositive(raw.time)
ParseLocation(raw) == [at |-> raw.at, time |-> raw.time.n]

\* Mutant: what the query holds is taken as it is.
AnyOptionalLocation(raw) == [at |-> raw.at, time |-> raw.time.n]

\* A location of the handshake that is missing or not valid is no location.
ParseOptionalLocation(raw) == IF ValidLocation(raw) THEN ParseLocation(raw) ELSE NoPlace

ValidTrip(raw) == IsPlace(raw.at) /\ IsPositive(raw.eta)
ValidExtension(raw) == raw.increase # "junk" /\ IsPositive(raw.amount)

\* ValidationPipe converts to numbers first; IsLatitude and IsLongitude do not
\* read an exponent.
Converted(raw) ==
  [at |-> IF raw.at = "text" THEN "in" ELSE raw.at,
   time |-> IF raw.time.is = "text" THEN [raw.time EXCEPT !.is = "number"] ELSE raw.time]
ValidDto(dto) == dto.at = "in" /\ IsPositive(dto.time)

\* The fields of a handshake: missing, an empty string, not a string (sent
\* twice), or a string that is right or wrong.
Fields == {"missing", "empty", "several", "wrong", "right"}
Nullish(a, b) == IF a = "missing" THEN b ELSE a
NonEmpty(a) == IF a \in {"wrong", "right"} THEN a ELSE "missing"
HandshakeToken(h) ==
  IF NonEmpty(h.auth) # "missing" THEN h.auth ELSE NonEmpty(Nullish(h.authToken, h.token))
HandshakeGroupId(h) == NonEmpty(Nullish(h.groupId, h.groupID))

Handshakes ==
  [auth : Fields, authToken : Fields, token : Fields, groupId : Fields, groupID : Fields]

\* The token is verified, and its user is a member of the group.
Identified == {HandshakeToken(h) = "right" /\ HandshakeGroupId(h) = "right" : h \in Handshakes}

-----------------------------------------------------------------------------
(* Steps *)

Receive(arrival) == used < MaxMessages /\ used' = used + 1 /\ sent' = arrival

Refuse == answer' = "refused" /\ UNCHANGED <<rec, row, trips, room>>

\* The record a session is built with, from the rows: one trip at most is active
\* when handlers run alone.
Restored ==
  LET active == {i \in DOMAIN trips : trips[i].active}
      trip == IF active = {} THEN 0 ELSE CHOOSE i \in active : TRUE
  IN  [NoRecord EXCEPT !.in = TRUE, !.loc = row.last, !.sos = row.sos, !.path = row.path,
                       !.trip = trip, !.eta = IF trip = 0 THEN 0 ELSE trips[trip].eta]

Attached(m, loc) ==
  [m EXCEPT !.sock = TRUE, !.loc = IF loc = NoPlace THEN @ ELSE loc,
            !.path = IF loc # NoPlace /\ m.sos THEN Append(@, loc) ELSE @]

Built(loc) ==
  [Restored EXCEPT !.sock = TRUE, !.loc = IF loc = NoPlace THEN @ ELSE loc]

Shown(loc) == IF loc = NoPlace THEN room ELSE [room EXCEPT !.loc = loc]

\* Mutant: the location is told when the handshake has one.
ConnectUnshown(identified, raw) ==
  /\ Receive(Nothing) /\ ~rec.sock /\ identified
  /\ rec' = LET loc == ParseOptionalLocation(raw)
            IN  IF rec.in THEN Attached(rec, loc) ELSE Built(loc)
  /\ room' = Shown(ParseOptionalLocation(raw))
  /\ answer' = "done"
  /\ UNCHANGED <<row, trips>>

Connect(identified, raw) ==
  /\ Receive(Nothing) /\ ~rec.sock
  /\ \/ ~identified /\ Refuse
     \/ /\ identified
        /\ rec' = LET loc == ParseOptionalLocation(raw)
                  IN  IF rec.in THEN Attached(rec, loc) ELSE Built(loc)
        /\ room' = Shown(rec'.loc)
        /\ answer' = "done"
        /\ UNCHANGED <<row, trips>>

Disconnect ==
  /\ rec.sock
  /\ rec' = [rec EXCEPT !.sock = FALSE]
  /\ row' = IF rec.loc = NoPlace THEN row ELSE [row EXCEPT !.last = rec.loc]
  /\ answer' = "none" /\ sent' = Nothing
  /\ UNCHANGED <<trips, room, used>>

\* The record changes first; logLocation throws on a time that is no Date.
UpdateLocation(loc) ==
  /\ rec' = [rec EXCEPT !.loc = loc, !.path = IF rec.sos THEN Append(@, loc) ELSE @]
  /\ row' = IF rec.sos THEN [row EXCEPT !.path = rec'.path] ELSE row
  /\ IF (rec.sos \/ rec.trip # 0) /\ ~IsDate(loc.time)
     THEN answer' = "refused" /\ UNCHANGED room
     ELSE answer' = "done" /\ room' = Shown(loc)
  /\ UNCHANGED trips

\* Mutant: an SOS is announced when there is a location to log.
StartSosLocated ==
  /\ ~rec.sos
  /\ rec' = [rec EXCEPT !.sos = TRUE, !.path = IF rec.loc = NoPlace THEN <<>> ELSE <<rec.loc>>]
  /\ row' = [row EXCEPT !.sos = TRUE, !.path = rec'.path]
  /\ IF rec.loc = NoPlace \/ ~IsDate(rec.loc.time)
     THEN answer' = "refused" /\ UNCHANGED room
     ELSE answer' = "done" /\ room' = [room EXCEPT !.sos = TRUE]
  /\ UNCHANGED trips

\* Flag and path are saved; logging where the user is may then throw, before
\* the group is told.
StartSos ==
  IF rec.sos THEN answer' = "done" /\ UNCHANGED <<rec, row, trips, room>>
  ELSE /\ rec' = [rec EXCEPT !.sos = TRUE,
                             !.path = IF rec.loc = NoPlace THEN <<>> ELSE <<rec.loc>>]
       /\ row' = [row EXCEPT !.sos = TRUE, !.path = rec'.path]
       /\ IF rec.loc # NoPlace /\ ~IsDate(rec.loc.time)
          THEN answer' = "refused" /\ UNCHANGED room
          ELSE answer' = "done" /\ room' = [room EXCEPT !.sos = TRUE]
       /\ UNCHANGED trips

Closed == [trips EXCEPT ![rec.trip].active = FALSE]
ClosedIfAny == IF rec.trip = 0 THEN trips ELSE Closed
WithoutTrip(m) == [m EXCEPT !.trip = 0, !.eta = 0]

EndSos ==
  /\ answer' = "done"
  /\ IF ~rec.sos THEN UNCHANGED <<rec, row, trips, room>>
     ELSE /\ rec' = WithoutTrip([rec EXCEPT !.sos = FALSE, !.path = <<>>])
          /\ row' = [row EXCEPT !.sos = FALSE, !.path = <<>>]
          /\ trips' = ClosedIfAny
          /\ room' = [room EXCEPT !.sos = FALSE]

\* The previous trip is closed before the next is created, which throws when
\* the arrival is no Date: the record then names the closed one.
StartTrip(eta) ==
  /\ IF IsDate(eta)
     THEN /\ trips' = Append(ClosedIfAny, [active |-> TRUE, eta |-> WholeMs(eta)])
          /\ rec' = [rec EXCEPT !.trip = Len(trips'), !.eta = eta]
          /\ answer' = "done"
     ELSE /\ trips' = ClosedIfAny
          /\ answer' = "refused" /\ UNCHANGED rec
  /\ UNCHANGED <<row, room>>

\* Mutant: the row is moved by the amount instead of set to the sum.
ExtendTripByRow(by) ==
  /\ rec.trip # 0
  /\ rec' = [rec EXCEPT !.eta = @ + by]
  /\ IF IsDate(rec'.eta)
     THEN /\ trips' = [trips EXCEPT ![rec.trip].eta = WholeMs(@ + by)]
          /\ answer' = "done"
     ELSE answer' = "refused" /\ UNCHANGED trips
  /\ UNCHANGED <<row, room>>

\* The arrival in memory moves first.
ExtendTrip(by) ==
  IF rec.trip = 0 THEN Refuse
  ELSE /\ rec' = [rec EXCEPT !.eta = @ + by]
       /\ IF IsDate(rec'.eta)
          THEN trips' = [trips EXCEPT ![rec.trip].eta = WholeMs(rec'.eta)] /\ answer' = "done"
          ELSE answer' = "refused" /\ UNCHANGED trips
       /\ UNCHANGED <<row, room>>

EndTrip ==
  IF rec.trip = 0 THEN Refuse
  ELSE /\ trips' = Closed
       /\ rec' = WithoutTrip(rec)
       /\ answer' = "done"
       /\ UNCHANGED <<row, room>>

-----------------------------------------------------------------------------
(* Messages *)

\* TrackingGateway.control: a socket whose connection has not been accepted,
\* or not yet, is refused; what is thrown becomes a refusal.
Control(arrival, valid, action) ==
  Receive(arrival) /\ IF rec.sock /\ valid THEN action ELSE Refuse

OnLocation(raw) == Control(Nothing, ValidLocation(raw), UpdateLocation(ParseLocation(raw)))
OnSosStart == Control(Nothing, TRUE, StartSos)
OnSosEnd == Control(Nothing, TRUE, EndSos)

\* Mutant: the previous trip is ended before the payload is looked at.
OnTripStartLate(raw) ==
  /\ Receive(raw.eta) /\ rec.sock
  /\ IF ValidTrip(raw) THEN StartTrip(raw.eta.n)
     ELSE trips' = ClosedIfAny /\ answer' = "refused" /\ UNCHANGED <<rec, row, room>>

OnTripStart(raw) == Control(raw.eta, ValidTrip(raw), StartTrip(raw.eta.n))
OnTripExtend(raw) ==
  Control(Nothing, ValidExtension(raw),
          ExtendTrip(IF raw.increase = "yes" THEN raw.amount.n ELSE -raw.amount.n))
OnTripEnd == Control(Nothing, TRUE, EndTrip)

\* POST /tracking/location: needs the record, not the socket.
SendLocation(raw) ==
  /\ Receive(Nothing)
  /\ IF rec.in /\ ValidDto(Converted(raw))
     THEN UpdateLocation(ParseLocation(Converted(raw))) ELSE Refuse

\* The sweep finds the trip overdue; what is thrown is logged.
Overdue ==
  /\ Receive(Nothing) /\ rec.trip # 0 /\ ~rec.sos
  /\ StartSos

\* Only the rows survive.
Crash ==
  /\ Receive(Nothing)
  /\ rec' = NoRecord
  /\ answer' = "none"
  /\ UNCHANGED <<row, trips, room>>

Next ==
  \/ \E identified \in Identified, raw \in RawLocations : Connect(identified, raw)
  \/ Disconnect
  \/ \E raw \in RawLocations : OnLocation(raw)
  \/ \E raw \in RawLocations : SendLocation(raw)
  \/ OnSosStart
  \/ OnSosEnd
  \/ \E raw \in RawTrips : OnTripStart(raw)
  \/ \E raw \in RawExtensions : OnTripExtend(raw)
  \/ OnTripEnd
  \/ Overdue
  \/ Crash

Spec == Init /\ [][Next]_vars

-----------------------------------------------------------------------------
(* Properties *)

\* Every variable has its type; whichever way a location came in (handshake,
\* message, HTTP), the record, the path, the rows and the group only ever have
\* valid ones, and an arrival that is a whole number of milliseconds in a row.
TypeOK ==
  /\ rec \in [in : BOOLEAN, sock : BOOLEAN, loc : Places \cup {NoPlace}, sos : BOOLEAN,
              path : Seq(Places), trip : 0..Len(trips), eta : Int]
  /\ row \in [last : Places \cup {NoPlace}, path : Seq(Places), sos : BOOLEAN]
  /\ trips \in Seq([active : BOOLEAN, eta : {n \in Int : WholeMs(n) = n}])
  /\ room \in [loc : Places \cup {NoPlace}, sos : BOOLEAN]
  /\ answer \in {"none", "done", "refused"}
  /\ sent \in RawNumbers
  /\ used \in Nat

\* The trip row of the record has its arrival, less the fraction, as long as
\* that is a Date: extensions that ran out of range and came back, refused
\* replacements and restarts included (startTrip, extendTrip).
ArrivalKept ==
  rec.trip # 0 /\ IsDate(rec.eta) => trips[rec.trip].eta = WholeMs(rec.eta)

\* An SOS that is up was announced, unless the user's location when it was
\* raised has a time that is no Date: startSos then throws between saving it
\* and telling the group, and later calls return early.
SosAnnounced ==
  rec.sos /\ ~room.sos => rec.path # <<>> /\ ~IsDate(rec.path[1].time)

\* The group was last shown where the user is, unless the time of that location
\* is no Date: during an SOS or a trip updateLocation then keeps the location
\* and throws before the broadcast.
RoomSeesLocation ==
  rec.in /\ rec.loc # NoPlace /\ IsDate(rec.loc.time) => room.loc = rec.loc

\* What is refused changes nothing, unless a time in it, or one it leads to, is no
\* Date: updateLocation has then stored the location and startSos the SOS,
\* extendTrip has moved the arrival in memory, startTrip has closed the previous
\* trip; nothing else has changed, and the group was told nothing.
RefusedChangesNothing ==
  [][answer' = "refused" =>
       \/ UNCHANGED <<rec, row, trips, room>>
       \/ /\ rec'.loc # NoPlace /\ ~IsDate(rec'.loc.time)
          /\ UNCHANGED <<rec.trip, rec.eta, row.last, trips, room>>
       \/ /\ rec'.eta # rec.eta /\ ~IsDate(rec'.eta)
          /\ UNCHANGED <<rec.loc, rec.path, row, trips, room>>
       \/ /\ sent'.is = "number" /\ ~IsDate(sent'.n)
          /\ UNCHANGED <<rec, row, room>> /\ trips' = Closed]_vars

=============================================================================
