----------------------------- MODULE LiveMember -----------------------------
(***************************************************************************)
(* One user's LiveMember record inside one group's live session            *)
(* (src/realtime/services/live-session.service.ts), the database rows that *)
(* shadow it, and what one other member's screen (the "peer") shows of it. *)
(*                                                                         *)
(* Node runs one handler at a time and switches only at an `await`.  A     *)
(* handler is therefore a chain of atomic segments.  Each awaited database *)
(* or notification call has two steps here: the operation takes effect     *)
(* (the Commit actions: the database may order two of them either way) and *)
(* the handler resumes (the action named after the segment it runs).  A    *)
(* slot of `call` holds a suspended handler: where it is suspended and the *)
(* values it captured before.                                              *)
(*                                                                         *)
(* `audit` and `clash` are history variables: they are never read by a     *)
(* guard.                                                                  *)
(***************************************************************************)
EXTENDS Integers, Sequences, FiniteSets

CONSTANTS
  Clients,   \* slots for handlers started by sockets and HTTP requests
  Sweeps,    \* slots for passes of the @Interval sweep, which may overlap
  Objs,      \* identities of the LiveGroup objects that hold the record
  Trips,     \* ids of trip rows
  Locs,      \* locations a client may report
  Etas,      \* arrival times a client may ask for
  None,      \* the code's null
  Kinds,     \* the client operations this instance issues
  MaxCalls,  \* bound: client operations issued
  MaxFails,  \* bound: awaited operations that throw
  MaxCrashes,\* bound: process restarts
  MaxTime,   \* bound: the clock
  Lead       \* TRIP_REMINDER_LEAD_MS, in clock units

Slots == Clients \cup Sweeps

ASSUME SlotsAssumption == Clients \cap Sweeps = {}
ASSUME NoneAssumption == None \notin Objs \cup Trips \cup Locs \cup Etas
ASSUME TimeAssumption == Etas \subseteq Nat /\ Lead \in Nat /\ MaxTime \in Nat
ASSUME BoundAssumption == MaxCalls \in Nat /\ MaxFails \in Nat /\ MaxCrashes \in Nat

VARIABLES
  heap,    \* Objs -> the user's record in that LiveGroup object
  cur,     \* the object LiveSessionService.groups maps the group to, or None
  row,     \* the user's rows: user.sos, groupMember.path and .lastLocation
  trips,   \* the user's trip rows in this group
  view,    \* the peer: in the room or not, the sos and arrival it was last told
  sockets, \* the user's tracking sockets that may still send or disconnect
  call,    \* Slots -> suspended handler
  now,     \* the clock
  used,    \* how much of each bound is spent
  audit,   \* history: rises of the SOS flag, armed reminders, what was announced
  clash    \* history: concerns on which handlers overlapped or failed

vars == <<heap, cur, row, trips, view, sockets, call, now, used, audit, clash>>

-----------------------------------------------------------------------------
(* State *)

Paths == Seq(Locs)
Maybe(S) == S \cup {None}

\* `in` says that the group's members array holds the user.  `socket` is
\* socketId !== null, `eta` is destination?.estimatedArrival.  `rise` and
\* `arm` number the SOS and the reminder for the history variable.
MemberType ==
  [in : BOOLEAN, socket : BOOLEAN, loc : Maybe(Locs), sos : BOOLEAN,
   path : Paths, trip : Maybe(Trips), eta : Maybe(Etas), offline : BOOLEAN,
   inactive : BOOLEAN, reminded : BOOLEAN, rise : Nat, arm : Nat]

Absent ==
  [in |-> FALSE, socket |-> FALSE, loc |-> None, sos |-> FALSE, path |-> <<>>,
   trip |-> None, eta |-> None, offline |-> FALSE, inactive |-> FALSE,
   reminded |-> FALSE, rise |-> 0, arm |-> 0]

RowType == [sos : BOOLEAN, path : Paths, loc : Maybe(Locs)]
EmptyRow == [sos |-> FALSE, path |-> <<>>, loc |-> None]

TripType == [st : {"none", "ACTIVE", "COMPLETED", "CANCELLED"}, eta : Maybe(Etas)]
ActiveTrips == {t \in Trips : trips[t].st = "ACTIVE"}

ViewType == [on : BOOLEAN, sos : BOOLEAN, eta : Maybe(Etas)]
Unseen == [on |-> FALSE, sos |-> FALSE, eta |-> None]

SosPcs  == {"sos_flag", "sos_path", "sos_log", "sos_notify"}
SafePcs == {"safe_flag", "safe_path", "safe_trip", "safe_notify"}
Pcs == {"idle", "loc_path", "loc_log", "trip_close", "trip_create", "ext_eta",
        "end_close", "con_member", "con_group", "con_trips", "dis_save",
        "sw_visit", "sw_remind", "sw_inactive", "sw_snapshot", "sw_end"}
         \cup SosPcs \cup SafePcs

CallType ==
  [pc : Pcs, ran : BOOLEAN, obj : Maybe(Objs), grp : Maybe(Objs),
   trip : Maybe(Trips), eta : Maybe(Etas), path : Paths, loc : Maybe(Locs),
   row : RowType, n : Nat, now : Nat, self : BOOLEAN]

NoCall ==
  [pc |-> "idle", ran |-> FALSE, obj |-> None, grp |-> None, trip |-> None,
   eta |-> None, path |-> <<>>, loc |-> None, row |-> EmptyRow, n |-> 0,
   now |-> 0, self |-> FALSE]

NoUse == [calls |-> 0, fails |-> 0, crashes |-> 0]
Blank == [rises |-> 0, arms |-> 0, alarms |-> {}, reminders |-> {}, repeats |-> FALSE]

\* Either no session exists yet, or the session is live with the user and the
\* peer connected; the member has not reported a location.
Fresh == [Absent EXCEPT !.in = TRUE, !.socket = TRUE]

Init ==
  /\ row = EmptyRow
  /\ trips = [t \in Trips |-> [st |-> "none", eta |-> None]]
  /\ call = [s \in Slots |-> NoCall]
  /\ now = 0 /\ used = NoUse /\ audit = Blank /\ clash = {}
  /\ \/ /\ cur = None /\ view = Unseen /\ sockets = 0
        /\ heap = [o \in Objs |-> Absent]
     \/ /\ cur \in Objs /\ view = [Unseen EXCEPT !.on = TRUE] /\ sockets = 1
        /\ heap = [o \in Objs |-> IF o = cur THEN Fresh ELSE Absent]

-----------------------------------------------------------------------------
(* Suspended handlers *)

At(s, pc) == call[s].pc = pc
Resumes(s, pc) == At(s, pc) /\ call[s].ran

\* The part of the state a handler suspended at pc is about to change.
Concerns(pc) ==
  (IF pc \in {"trip_close", "trip_create", "ext_eta", "end_close", "safe_trip",
              "con_group", "con_trips"} THEN {"trip"} ELSE {})
  \cup (IF pc \in SosPcs \cup SafePcs \cup {"con_group", "con_trips"}
        THEN {"sos"} ELSE {})
  \cup (IF pc \in {"loc_path", "sos_flag", "sos_path", "safe_flag", "safe_path",
                   "sw_snapshot", "con_group", "con_trips"} THEN {"path"} ELSE {})

InFlight(S) == UNION {Concerns(call[s].pc) : s \in S}

\* Suspend slot s in state c, noting the concerns another handler already has.
Await(s, c) ==
  /\ call' = [call EXCEPT ![s] = c]
  /\ clash' = clash \cup (Concerns(c.pc) \cap InFlight(Slots \ {s}))

Return(s) == call' = [call EXCEPT ![s] = NoCall] /\ UNCHANGED clash

\* A call whose awaited operation leaves no trace here has nothing to commit.
Untracked(c) == [c EXCEPT !.ran = TRUE]

Issue(s, kind) ==
  /\ s \in Clients /\ At(s, "idle") /\ kind \in Kinds
  /\ used.calls < MaxCalls
  /\ used' = [used EXCEPT !.calls = @ + 1]

\* requireMember: the group has a live session and it holds the user.
RequireMember == cur # None /\ heap[cur].in

\* A control message needs an authenticated socket (TrackingGateway.control).
Control(s, kind) == Issue(s, kind) /\ sockets > 0 /\ RequireMember

Tell(sos, eta) ==
  view' = IF view.on THEN [view EXCEPT !.sos = sos, !.eta = eta] ELSE view

-----------------------------------------------------------------------------
(* Location updates *)

\* Recording a location; only a member in SOS collects a path.
Located(m, l) ==
  [m EXCEPT !.loc = l, !.offline = FALSE, !.inactive = FALSE,
            !.path = IF m.sos THEN Append(m.path, l) ELSE m.path]

\* The end of updateLocation: log the point when it belongs to an SOS or a
\* trip, then tell the room.
LogOrTell(s, m, c) ==
  IF (m.sos \/ m.trip # None) /\ c.pc # "loc_log"
  THEN Await(s, Untracked([c EXCEPT !.pc = "loc_log"])) /\ UNCHANGED view
  ELSE Return(s) /\ Tell(m.sos, view.eta)

\* The HTTP fallback reaches this handler without a socket.
UpdateLocation(s, l) ==
  /\ Issue(s, "location") /\ RequireMember
  /\ LET m == Located(heap[cur], l)
         c == [NoCall EXCEPT !.obj = cur]
     IN  /\ heap' = [heap EXCEPT ![cur] = m]
         /\ IF m.sos
            THEN /\ Await(s, [c EXCEPT !.pc = "loc_path", !.path = m.path])
                 /\ UNCHANGED view
            ELSE LogOrTell(s, m, c)
  /\ UNCHANGED <<cur, row, trips, sockets, now, audit>>

LocationResumes(s) ==
  /\ Resumes(s, "loc_path") \/ Resumes(s, "loc_log")
  /\ LogOrTell(s, heap[call[s].obj], call[s])
  /\ UNCHANGED <<heap, cur, row, trips, sockets, now, used, audit>>

-----------------------------------------------------------------------------
(* Raising the SOS: a client asks for it, or a sweep finds a trip overdue *)

\* Mutant: startSos without its early return.
NeverRaised(m) == m.in /\ FALSE

AlreadyRaised(m) == m.sos

Raised(m, n) ==
  [m EXCEPT !.sos = TRUE, !.rise = n,
            !.path = IF m.loc = None THEN <<>> ELSE <<m.loc>>]

\* The first segment of startSos on the record of the live session, for the
\* handler in slot s whose captured state is c and whose heap is h.
Raise(s, h, c) ==
  LET m == h[cur]
      n == IF m.sos THEN m.rise ELSE audit.rises + 1
  IN  /\ heap' = [h EXCEPT ![cur] = Raised(m, n)]
      /\ audit' = [audit EXCEPT !.rises = IF m.sos THEN @ ELSE @ + 1]
      /\ Await(s, [c EXCEPT !.pc = "sos_flag", !.ran = FALSE, !.obj = cur, !.n = n])

StartSos(s) ==
  /\ Control(s, "sos")
  /\ IF AlreadyRaised(heap[cur])
     THEN Return(s) /\ UNCHANGED <<heap, audit>>
     ELSE Raise(s, heap, NoCall)
  /\ UNCHANGED <<cur, row, trips, view, sockets, now>>

SosFlagged(s) ==
  /\ Resumes(s, "sos_flag")
  /\ Await(s, [call[s] EXCEPT !.pc = "sos_path", !.ran = FALSE,
                              !.path = heap[call[s].obj].path])
  /\ UNCHANGED <<heap, cur, row, trips, view, sockets, now, used, audit>>

\* Mutant: a member without a location is never announced.
SosPathSavedQuietly(s) ==
  /\ Resumes(s, "sos_path")
  /\ IF heap[call[s].obj].loc # None
     THEN Await(s, Untracked([call[s] EXCEPT !.pc = "sos_log"]))
     ELSE Return(s)
  /\ UNCHANGED <<heap, cur, row, trips, view, sockets, now, used, audit>>

SosPathSaved(s) ==
  /\ Resumes(s, "sos_path")
  /\ Await(s, IF heap[call[s].obj].loc # None
              THEN Untracked([call[s] EXCEPT !.pc = "sos_log"])
              ELSE [call[s] EXCEPT !.pc = "sos_notify", !.ran = FALSE])
  /\ UNCHANGED <<heap, cur, row, trips, view, sockets, now, used, audit>>

SosLogged(s) ==
  /\ Resumes(s, "sos_log")
  /\ Await(s, [call[s] EXCEPT !.pc = "sos_notify", !.ran = FALSE])
  /\ UNCHANGED <<heap, cur, row, trips, view, sockets, now, used, audit>>

-----------------------------------------------------------------------------
(* Lowering the SOS, which also cancels the trip *)

\* Mutant: resetTrip forgets the destination.
ResetTripIdOnly(m) == [m EXCEPT !.trip = None, !.reminded = FALSE]

ResetTrip(m) == [m EXCEPT !.trip = None, !.eta = None, !.reminded = FALSE]

\* Mutant: endSos saves the empty path and not the flag.
EndSosUnsaved(s) ==
  /\ Control(s, "safe")
  /\ IF heap[cur].sos
     THEN /\ heap' = [heap EXCEPT ![cur].sos = FALSE, ![cur].path = <<>>]
          /\ Await(s, [NoCall EXCEPT !.pc = "safe_path", !.obj = cur])
     ELSE Return(s) /\ UNCHANGED heap
  /\ UNCHANGED <<cur, row, trips, view, sockets, now, audit>>

EndSos(s) ==
  /\ Control(s, "safe")
  /\ IF heap[cur].sos
     THEN /\ heap' = [heap EXCEPT ![cur].sos = FALSE, ![cur].path = <<>>]
          /\ Await(s, [NoCall EXCEPT !.pc = "safe_flag", !.obj = cur])
     ELSE Return(s) /\ UNCHANGED heap
  /\ UNCHANGED <<cur, row, trips, view, sockets, now, audit>>

SafeFlagged(s) ==
  /\ Resumes(s, "safe_flag")
  /\ Await(s, [call[s] EXCEPT !.pc = "safe_path", !.ran = FALSE, !.path = <<>>])
  /\ UNCHANGED <<heap, cur, row, trips, view, sockets, now, used, audit>>

SafePathSaved(s) ==
  /\ Resumes(s, "safe_path")
  /\ LET c == call[s]
         t == heap[c.obj].trip
     IN  Await(s, IF t # None
                  THEN [c EXCEPT !.pc = "safe_trip", !.ran = FALSE, !.trip = t]
                  ELSE Untracked([c EXCEPT !.pc = "safe_notify"]))
  /\ UNCHANGED <<heap, cur, row, trips, view, sockets, now, used, audit>>

SafeTripClosed(s) ==
  /\ Resumes(s, "safe_trip")
  /\ heap' = [heap EXCEPT ![call[s].obj] = ResetTrip(heap[call[s].obj])]
  /\ Tell(view.sos, None)
  /\ Await(s, Untracked([call[s] EXCEPT !.pc = "safe_notify"]))
  /\ UNCHANGED <<cur, row, trips, sockets, now, used, audit>>

SafeNotified(s) ==
  /\ Resumes(s, "safe_notify")
  /\ Tell(FALSE, view.eta)
  /\ Return(s)
  /\ UNCHANGED <<heap, cur, row, trips, sockets, now, used, audit>>

-----------------------------------------------------------------------------
(* Trips *)

\* A new reminder may be sent from here on.
Armed(m, n) == [m EXCEPT !.reminded = FALSE, !.arm = n]

\* Mutant: the previous trip is replaced and its row left ACTIVE.
StartTripUnclosed(s, eta) ==
  /\ Control(s, "trip")
  /\ Await(s, [NoCall EXCEPT !.pc = "trip_create", !.obj = cur, !.eta = eta])
  /\ UNCHANGED <<heap, cur, row, trips, view, sockets, now, audit>>

\* Mutant: the record takes its trip id before the row is created.
StartTripEarly(s, eta) ==
  /\ Control(s, "trip")
  /\ \E t \in Trips : trips[t].st = "none" /\ heap' = [heap EXCEPT ![cur].trip = t]
  /\ Await(s, [NoCall EXCEPT !.pc = "trip_create", !.obj = cur, !.eta = eta])
  /\ UNCHANGED <<cur, row, trips, view, sockets, now, audit>>

StartTrip(s, eta) ==
  /\ Control(s, "trip")
  /\ LET t == heap[cur].trip
         c == [NoCall EXCEPT !.obj = cur, !.eta = eta]
     IN  Await(s, IF t # None
                  THEN [c EXCEPT !.pc = "trip_close", !.trip = t]
                  ELSE [c EXCEPT !.pc = "trip_create"])
  /\ UNCHANGED <<heap, cur, row, trips, view, sockets, now, audit>>

PreviousTripClosed(s) ==
  /\ Resumes(s, "trip_close")
  /\ Await(s, [call[s] EXCEPT !.pc = "trip_create", !.ran = FALSE, !.trip = None])
  /\ UNCHANGED <<heap, cur, row, trips, view, sockets, now, used, audit>>

TripCreated(s) ==
  /\ Resumes(s, "trip_create")
  /\ LET c == call[s]
         n == audit.arms + 1
     IN  /\ heap' = [heap EXCEPT ![c.obj] =
                       Armed([heap[c.obj] EXCEPT !.trip = c.trip, !.eta = c.eta], n)]
         /\ audit' = [audit EXCEPT !.arms = n]
         /\ Tell(view.sos, c.eta)
  /\ Return(s)
  /\ UNCHANGED <<cur, row, trips, sockets, now, used>>

\* Any different arrival time: `increase` and `amount` are the client's.
ExtendTrip(s, eta) ==
  /\ Control(s, "extend")
  /\ LET m == heap[cur]
         n == audit.arms + 1
     IN  /\ m.trip # None /\ m.eta # None /\ eta # m.eta
         /\ heap' = [heap EXCEPT ![cur] = Armed([m EXCEPT !.eta = eta], n)]
         /\ audit' = [audit EXCEPT !.arms = n]
         /\ Await(s, [NoCall EXCEPT !.pc = "ext_eta", !.obj = cur,
                                    !.trip = m.trip, !.eta = eta])
  /\ UNCHANGED <<cur, row, trips, view, sockets, now>>

\* Dereferences the destination again; without one it throws (no broadcast).
TripExtended(s) ==
  /\ Resumes(s, "ext_eta")
  /\ LET eta == heap[call[s].obj].eta
     IN  IF eta # None THEN Tell(view.sos, eta) ELSE UNCHANGED view
  /\ Return(s)
  /\ UNCHANGED <<heap, cur, row, trips, sockets, now, used, audit>>

EndTrip(s) ==
  /\ Control(s, "end") /\ heap[cur].trip # None
  /\ Await(s, [NoCall EXCEPT !.pc = "end_close", !.obj = cur, !.trip = heap[cur].trip])
  /\ UNCHANGED <<heap, cur, row, trips, view, sockets, now, audit>>

TripEnded(s) ==
  /\ Resumes(s, "end_close")
  /\ heap' = [heap EXCEPT ![call[s].obj] = ResetTrip(heap[call[s].obj])]
  /\ Tell(view.sos, None)
  /\ Return(s)
  /\ UNCHANGED <<cur, row, trips, sockets, now, used, audit>>

-----------------------------------------------------------------------------
(* Connecting: join the live session, or rebuild it from the database *)

\* `self` tells the user's own socket from the peer's; l is the location in
\* the handshake, if any.
Connect(s, self, l) ==
  /\ Issue(s, "connect")
  /\ self \/ (l = None /\ ~view.on)
  /\ Await(s, Untracked([NoCall EXCEPT !.pc = "con_member", !.self = self, !.loc = l]))
  /\ UNCHANGED <<heap, cur, row, trips, view, sockets, now, audit>>

Attached(m, l) ==
  LET a == [m EXCEPT !.socket = TRUE, !.offline = FALSE, !.inactive = FALSE]
  IN  IF l = None THEN a
      ELSE [a EXCEPT !.loc = l, !.path = IF m.sos THEN Append(m.path, l) ELSE m.path]

\* A member the session does not hold joins with nothing but a location.
\* Mutant: the pushed record has no path array.
NewcomerPathless(l) == [Fresh EXCEPT !.loc = l, !.path = None]

Newcomer(l) == [Fresh EXCEPT !.loc = l]

\* What the database says and a Newcomer record does not.
Forgotten ==
  (IF row.sos THEN {"sos"} ELSE {})
  \cup (IF ActiveTrips # {} THEN {"trip"} ELSE {})
  \cup (IF row.path # <<>> THEN {"path"} ELSE {})

\* Greets the connected socket: the peer gets the member's state, the room a
\* LOCATION_UPDATE when the user connects with a known location.
Welcome(self, m) ==
  IF self THEN IF m.loc # None THEN Tell(m.sos, view.eta) ELSE UNCHANGED view
  ELSE view' = [on |-> TRUE, sos |-> m.in /\ m.sos, eta |-> IF m.in THEN m.eta ELSE None]

AttachMember(s) ==
  /\ Resumes(s, "con_member") /\ cur # None
  /\ LET c == call[s]
         m == IF ~c.self THEN heap[cur]
              ELSE IF heap[cur].in THEN Attached(heap[cur], c.loc)
              ELSE Newcomer(c.loc)
     IN  /\ heap' = [heap EXCEPT ![cur] = m]
         /\ clash' = clash \cup (IF c.self /\ ~heap[cur].in THEN Forgotten ELSE {})
         /\ Welcome(c.self, m)
         /\ sockets' = IF c.self THEN sockets + 1 ELSE sockets
  /\ call' = [call EXCEPT ![s] = NoCall]
  /\ UNCHANGED <<cur, row, trips, now, used, audit>>

BuildSession(s) ==
  /\ Resumes(s, "con_member") /\ cur = None
  /\ Await(s, [call[s] EXCEPT !.pc = "con_group", !.ran = FALSE])
  /\ UNCHANGED <<heap, cur, row, trips, view, sockets, now, used, audit>>

GroupRead(s) ==
  /\ Resumes(s, "con_group")
  /\ Await(s, [call[s] EXCEPT !.pc = "con_trips", !.ran = FALSE])
  /\ UNCHANGED <<heap, cur, row, trips, view, sockets, now, used, audit>>

\* The record buildGroupSession makes of the rows read into c.
RestoredParts(c, n, sos, path) ==
  [in       |-> c.self \/ c.row.loc # None,
   socket   |-> c.self,
   loc      |-> IF c.self /\ c.loc # None THEN c.loc ELSE c.row.loc,
   sos      |-> sos,
   path     |-> path,
   trip     |-> c.trip,
   eta      |-> c.eta,
   offline  |-> ~c.self,
   inactive |-> ~c.self,
   reminded |-> FALSE,
   rise     |-> 0,
   arm      |-> n]

\* Mutants: the SOS, or the path, is not restored.
RestoredSafe(c, n) == RestoredParts(c, n, FALSE, c.row.path)
RestoredPathless(c, n) == RestoredParts(c, n, c.row.sos, <<>>)

\* A member with no location is dropped unless it is the one connecting.
Restored(c, n) == RestoredParts(c, n, c.row.sos, c.row.path)

InUse == {cur} \cup UNION {{call[s].obj, call[s].grp} : s \in Slots}

\* Some other handler goes on working on an object of an earlier session.
Stranded(s) == \E t \in Slots \ {s} : call[t].obj # None

\* Some pass may yet save a record of an earlier session, which another pass,
\* late itself, dropped although the user was not offline.
Lingering ==
  \E t \in Sweeps :
    /\ call[t].pc \notin {"idle", "sw_end"}
    /\ heap[call[t].grp].in /\ ~heap[call[t].grp].offline

SessionBuilt(s) ==
  /\ Resumes(s, "con_trips")
  /\ \E o \in Objs \ InUse :
       LET c == call[s]
           n == IF c.eta = None THEN audit.arms ELSE audit.arms + 1
           r == Restored(c, n)
           m == IF r.in THEN r ELSE Absent
       IN  /\ heap' = [heap EXCEPT ![o] = m]
           /\ cur' = o
           /\ audit' = [audit EXCEPT !.arms = n]
           /\ Welcome(c.self, m)
           /\ sockets' = IF c.self THEN sockets + 1 ELSE sockets
  /\ call' = [call EXCEPT ![s] = NoCall]
  /\ clash' = clash \cup (IF Stranded(s) THEN {"trip", "sos", "path"} ELSE {})
                    \cup (IF Lingering THEN {"path"} ELSE {})
  /\ UNCHANGED <<row, trips, now, used>>

\* One of the user's sockets closes: socketId is cleared whichever it was.
Disconnect(s) ==
  /\ Issue(s, "disconnect") /\ sockets > 0
  /\ sockets' = sockets - 1
  /\ IF RequireMember
     THEN /\ heap' = [heap EXCEPT ![cur].socket = FALSE]
          /\ IF heap[cur].loc # None
             THEN Await(s, [NoCall EXCEPT !.pc = "dis_save", !.loc = heap[cur].loc])
             ELSE Return(s)
     ELSE Return(s) /\ UNCHANGED heap
  /\ UNCHANGED <<cur, row, trips, view, now, audit>>

LocationSaved(s) ==
  /\ Resumes(s, "dis_save")
  /\ Return(s)
  /\ UNCHANGED <<heap, cur, row, trips, view, sockets, now, used, audit>>

PeerDisconnect ==
  /\ view.on /\ view' = Unseen
  /\ UNCHANGED <<heap, cur, row, trips, sockets, call, now, used, audit, clash>>

-----------------------------------------------------------------------------
(* The sweep *)

\* A pass starts with the clock it will use throughout.  Other groups and
\* members may be processed, and awaited, before and after this one.
SweepStart(s) ==
  /\ s \in Sweeps /\ At(s, "idle") /\ cur # None
  /\ Await(s, [NoCall EXCEPT !.pc = "sw_visit", !.grp = cur, !.now = now])
  /\ UNCHANGED <<heap, cur, row, trips, view, sockets, now, used, audit>>

EndOfVisit(c) == [NoCall EXCEPT !.pc = "sw_end", !.grp = c.grp]

\* A silent, disconnected member goes offline and is saved.  Whether its
\* location is old enough is the client's: locations carry the client's clock.
OfflineCheck(s, old) ==
  LET c == call[s]
      m == heap[c.grp]
  IN  IF old /\ ~m.offline
      THEN /\ heap' = [heap EXCEPT ![c.grp].offline = TRUE]
           /\ Await(s, [EndOfVisit(c) EXCEPT !.pc = "sw_snapshot", !.loc = m.loc,
                                             !.path = m.path])
      ELSE Await(s, EndOfVisit(c)) /\ UNCHANGED heap

\* The half of processMember after the trip was looked at.
Presence(s) ==
  LET c == call[s]
      m == heap[c.grp]
  IN  IF m.loc = None \/ m.socket
      THEN Await(s, EndOfVisit(c)) /\ UNCHANGED heap
      ELSE \E old \in BOOLEAN :
             \/ OfflineCheck(s, old) /\ (old => m.inactive)
             \/ /\ ~m.inactive
                /\ heap' = [heap EXCEPT ![c.grp].inactive = TRUE]
                /\ Await(s, Untracked([EndOfVisit(c) EXCEPT !.pc = "sw_inactive"]))

ReminderDue(m, t) == ~m.reminded /\ m.eta < t + Lead

Overdue(eta, t) == eta < t

\* Past the reminder: the arrival in c was read before it was awaited.
AlarmCheck(s, c) ==
  IF Overdue(c.eta, c.now)
  THEN IF ~RequireMember
       THEN Await(s, EndOfVisit(c)) /\ UNCHANGED <<heap, audit>>
       ELSE IF AlreadyRaised(heap[cur])
            THEN Presence(s) /\ UNCHANGED audit
            ELSE Raise(s, heap, c)
  ELSE Presence(s) /\ UNCHANGED audit

Reminded(m) == [m EXCEPT !.reminded = TRUE]

\* Mutant: only the pass that sends the reminder looks at the arrival.
SweepVisitOnce(s) ==
  /\ At(s, "sw_visit")
  /\ LET m == heap[call[s].grp]
         c == [call[s] EXCEPT !.eta = m.eta]
     IN  IF ~m.in
         THEN Await(s, EndOfVisit(c)) /\ UNCHANGED heap
         ELSE IF m.eta # None /\ ~m.sos /\ ReminderDue(m, c.now)
         THEN /\ heap' = [heap EXCEPT ![c.grp] = Reminded(m)]
              /\ Await(s, [c EXCEPT !.pc = "sw_remind", !.n = m.arm])
         ELSE Presence(s)
  /\ UNCHANGED <<cur, row, trips, view, sockets, now, used, audit>>

SweepVisit(s) ==
  /\ At(s, "sw_visit")
  /\ LET m == heap[call[s].grp]
         c == [call[s] EXCEPT !.eta = m.eta]
     IN  IF ~m.in
         THEN Await(s, EndOfVisit(c)) /\ UNCHANGED <<heap, audit>>
         ELSE IF m.eta = None \/ m.sos
         THEN Presence(s) /\ UNCHANGED audit
         ELSE IF ReminderDue(m, c.now)
         THEN /\ heap' = [heap EXCEPT ![c.grp] = Reminded(m)]
              /\ Await(s, [c EXCEPT !.pc = "sw_remind", !.n = m.arm])
              /\ UNCHANGED audit
         ELSE AlarmCheck(s, c)
  /\ UNCHANGED <<cur, row, trips, view, sockets, now, used>>

SweepReminded(s) ==
  /\ Resumes(s, "sw_remind")
  /\ AlarmCheck(s, call[s])
  /\ UNCHANGED <<cur, row, trips, view, sockets, now, used>>

\* startSos ends by telling the room; a sweep goes on with its member.
SosNotified(s) ==
  /\ Resumes(s, "sos_notify")
  /\ Tell(TRUE, view.eta)
  /\ IF s \in Sweeps THEN Presence(s) ELSE Return(s) /\ UNCHANGED heap
  /\ UNCHANGED <<cur, row, trips, sockets, now, used, audit>>

SweepNoticed(s) ==
  /\ Resumes(s, "sw_inactive")
  /\ \E old \in BOOLEAN : OfflineCheck(s, old)
  /\ UNCHANGED <<cur, row, trips, view, sockets, now, used, audit>>

SnapshotSaved(s) ==
  /\ Resumes(s, "sw_snapshot")
  /\ Await(s, EndOfVisit(call[s]))
  /\ UNCHANGED <<heap, cur, row, trips, view, sockets, now, used, audit>>

\* The session is dropped, by group id, when every member is offline.  The
\* other members may or may not be; a connected peer is not.
SweepEnd(s) ==
  /\ At(s, "sw_end")
  /\ LET m == heap[call[s].grp]
     IN  \/ UNCHANGED cur
         \/ (m.in => m.offline) /\ ~view.on /\ cur' = None
  /\ Return(s)
  /\ UNCHANGED <<heap, row, trips, view, sockets, now, used, audit>>

-----------------------------------------------------------------------------
(* Awaited operations taking effect, failing, and the process stopping *)

Commit(s, pcs) ==
  /\ call[s].pc \in pcs /\ ~call[s].ran
  /\ call' = [call EXCEPT ![s].ran = TRUE]
  /\ UNCHANGED <<heap, cur, view, sockets, now, used, clash>>

CommitFlag(s) ==
  /\ Commit(s, {"sos_flag", "safe_flag"})
  /\ row' = [row EXCEPT !.sos = At(s, "sos_flag")]
  /\ UNCHANGED <<trips, audit>>

CommitPath(s) ==
  /\ Commit(s, {"loc_path", "sos_path", "safe_path"})
  /\ row' = [row EXCEPT !.path = call[s].path]
  /\ UNCHANGED <<trips, audit>>

CommitLastLocation(s) ==
  /\ Commit(s, {"dis_save"})
  /\ row' = [row EXCEPT !.loc = call[s].loc]
  /\ UNCHANGED <<trips, audit>>

CommitSnapshot(s) ==
  /\ Commit(s, {"sw_snapshot"})
  /\ row' = [row EXCEPT !.loc = call[s].loc, !.path = call[s].path]
  /\ UNCHANGED <<trips, audit>>

\* closeTrip writes the status whatever the row's status was.
CommitClose(s) ==
  /\ Commit(s, {"trip_close", "safe_trip", "end_close"})
  /\ trips' = [trips EXCEPT ![call[s].trip].st =
                 IF At(s, "end_close") THEN "COMPLETED" ELSE "CANCELLED"]
  /\ UNCHANGED <<row, audit>>

CommitCreate(s) ==
  /\ At(s, "trip_create") /\ ~call[s].ran
  /\ \E t \in Trips :
       /\ trips[t].st = "none"
       /\ trips' = [trips EXCEPT ![t] = [st |-> "ACTIVE", eta |-> call[s].eta]]
       /\ call' = [call EXCEPT ![s].ran = TRUE, ![s].trip = t]
  /\ UNCHANGED <<heap, cur, row, view, sockets, now, used, audit, clash>>

CommitArrival(s) ==
  /\ Commit(s, {"ext_eta"})
  /\ trips' = [trips EXCEPT ![call[s].trip].eta = call[s].eta]
  /\ UNCHANGED <<row, audit>>

CommitAlarm(s) ==
  /\ Commit(s, {"sos_notify"})
  /\ audit' = [audit EXCEPT !.alarms = @ \cup {call[s].n},
                            !.repeats = @ \/ call[s].n \in audit.alarms]
  /\ UNCHANGED <<row, trips>>

CommitReminder(s) ==
  /\ Commit(s, {"sw_remind"})
  /\ audit' = [audit EXCEPT !.reminders = @ \cup {call[s].n},
                            !.repeats = @ \/ call[s].n \in audit.reminders]
  /\ UNCHANGED <<row, trips>>

CommitGroupRead(s) ==
  /\ At(s, "con_group") /\ ~call[s].ran
  /\ call' = [call EXCEPT ![s].ran = TRUE, ![s].row = row]
  /\ UNCHANGED <<heap, cur, row, trips, view, sockets, now, used, audit, clash>>

\* Of several ACTIVE rows the map by user keeps the last one read.
CommitTripsRead(s) ==
  /\ At(s, "con_trips") /\ ~call[s].ran
  /\ \E t \in IF ActiveTrips = {} THEN {None} ELSE ActiveTrips :
       call' = [call EXCEPT ![s].ran = TRUE, ![s].trip = t,
                            ![s].eta = IF t = None THEN None ELSE trips[t].eta]
  /\ UNCHANGED <<heap, cur, row, trips, view, sockets, now, used, audit, clash>>

\* The awaited call throws, before or after its effect: a client's handler
\* ends with an error answer, a sweep logs it and leaves the member.
Fail(s) ==
  /\ call[s].pc \notin {"idle", "sw_visit", "sw_end"}
  /\ used.fails < MaxFails
  /\ used' = [used EXCEPT !.fails = @ + 1]
  /\ call' = [call EXCEPT ![s] = IF s \in Sweeps THEN EndOfVisit(@) ELSE NoCall]
  /\ clash' = clash \cup
       IF call[s].pc \in {"con_group", "con_trips"} THEN {} ELSE Concerns(call[s].pc)
  /\ UNCHANGED <<heap, cur, row, trips, view, sockets, now, audit>>

\* Only the database survives.  Its rows are what the next session is built
\* from, so every disagreement but a second ACTIVE trip is forgotten.
Crash ==
  /\ used.crashes < MaxCrashes
  /\ used' = [used EXCEPT !.crashes = @ + 1]
  /\ heap' = [o \in Objs |-> Absent]
  /\ call' = [s \in Slots |-> NoCall]
  /\ cur' = None /\ view' = Unseen /\ sockets' = 0
  /\ clash' = IF \E t, u \in ActiveTrips : t # u THEN {"trip"} ELSE {}
  /\ UNCHANGED <<row, trips, now, audit>>

Tick ==
  /\ now < MaxTime /\ now' = now + 1
  /\ UNCHANGED <<heap, cur, row, trips, view, sockets, call, used, audit, clash>>

-----------------------------------------------------------------------------
(* Specification *)

ClientStarts(s) ==
  \/ \E l \in Locs : UpdateLocation(s, l)
  \/ StartSos(s)
  \/ EndSos(s)
  \/ \E eta \in Etas : StartTrip(s, eta)
  \/ \E eta \in Etas : ExtendTrip(s, eta)
  \/ EndTrip(s)
  \/ \E self \in BOOLEAN, l \in Maybe(Locs) : Connect(s, self, l)
  \/ Disconnect(s)

\* A handler suspended on a committed operation resumes.
Continue(s) ==
  \/ LocationResumes(s)
  \/ SosFlagged(s)
  \/ SosPathSaved(s)
  \/ SosLogged(s)
  \/ SosNotified(s)
  \/ SafeFlagged(s)
  \/ SafePathSaved(s)
  \/ SafeTripClosed(s)
  \/ SafeNotified(s)
  \/ PreviousTripClosed(s)
  \/ TripCreated(s)
  \/ TripExtended(s)
  \/ TripEnded(s)
  \/ AttachMember(s)
  \/ BuildSession(s)
  \/ GroupRead(s)
  \/ SessionBuilt(s)
  \/ LocationSaved(s)
  \/ SweepVisit(s)
  \/ SweepReminded(s)
  \/ SweepNoticed(s)
  \/ SnapshotSaved(s)
  \/ SweepEnd(s)

\* The database or the notification service acts on a pending operation.
Effect(s) ==
  \/ CommitFlag(s)
  \/ CommitPath(s)
  \/ CommitLastLocation(s)
  \/ CommitSnapshot(s)
  \/ CommitClose(s)
  \/ CommitCreate(s)
  \/ CommitArrival(s)
  \/ CommitAlarm(s)
  \/ CommitReminder(s)
  \/ CommitGroupRead(s)
  \/ CommitTripsRead(s)

Next ==
  \/ \E s \in Clients : ClientStarts(s)
  \/ \E s \in Sweeps : SweepStart(s)
  \/ \E s \in Slots : Continue(s)
  \/ \E s \in Slots : Effect(s)
  \/ \E s \in Slots : Fail(s)
  \/ PeerDisconnect
  \/ Crash
  \/ Tick

Spec == Init /\ [][Next]_vars

\* The interval timer keeps firing, and every awaited operation is answered.
Fairness ==
  /\ \A s \in Sweeps : WF_vars(SweepStart(s))
  /\ \A s \in Slots : WF_vars(Continue(s)) /\ WF_vars(Effect(s))

FairSpec == Spec /\ Fairness

-----------------------------------------------------------------------------
(* Properties *)

SweepPcs == {"sw_visit", "sw_remind", "sw_inactive", "sw_snapshot", "sw_end"}
TripPcs == {"trip_close", "trip_create", "ext_eta", "end_close"}

\* What the handler in slot s, suspended in state c, has captured.
CallOK(s, c) ==
  /\ IF s \in Sweeps THEN c.pc \in {"idle"} \cup SosPcs \cup SweepPcs
     ELSE c.pc \notin SweepPcs
  /\ c.pc \in SosPcs \cup SafePcs \cup TripPcs \cup {"loc_path", "loc_log"}
       => c.obj \in Objs
  /\ s \in Sweeps /\ c.pc # "idle" => c.grp \in Objs
  /\ c.pc \in {"trip_close", "trip_create", "ext_eta"} => c.eta \in Etas
  /\ c.pc \in {"trip_close", "ext_eta", "end_close", "safe_trip"} => c.trip \in Trips
  /\ c.pc = "trip_create" /\ c.ran => c.trip \in Trips

\* Every variable has its type, and every suspended handler what it will use.
TypeOK ==
  /\ heap \in [Objs -> MemberType]
  /\ cur \in Maybe(Objs)
  /\ row \in RowType
  /\ trips \in [Trips -> TripType]
  /\ view \in ViewType
  /\ sockets \in Nat
  /\ call \in [Slots -> CallType]
  /\ now \in Nat
  /\ used \in [calls : Nat, fails : Nat, crashes : Nat]
  /\ audit \in [rises : Nat, arms : Nat, alarms : SUBSET Nat,
                reminders : SUBSET Nat, repeats : BOOLEAN]
  /\ clash \in SUBSET {"trip", "sos", "path"}
  /\ \A s \in Slots : CallOK(s, call[s])

Live == cur # None /\ heap[cur].in

\* The session is live, no handler is about to change the concern, and none
\* that did overlapped another or failed since the last restart.
Settled(concern) == Live /\ concern \notin clash \cup InFlight(Slots)

\* Once trip handlers have run, one at a time, the trip rows, the record and
\* the peer agree: the only ACTIVE row is the record's trip, with the arrival
\* the record holds and the peer was told.  Covers startTrip, extendTrip,
\* endTrip, the cancellation in endSos, and buildGroupSession after a restart.
TripAgreement ==
  Settled("trip") =>
    LET m == heap[cur]
    IN  /\ ActiveTrips = {m.trip} \ {None}
        /\ m.trip # None => trips[m.trip].eta = m.eta
        /\ view.on => view.eta = m.eta

\* Likewise for the SOS: user.sos, member.sos and what the peer was told
\* agree, whether a client or a sweep raised it (startSos, endSos).
SosAgreement ==
  Settled("sos") =>
    /\ row.sos = heap[cur].sos
    /\ view.on => view.sos = heap[cur].sos

\* Likewise the saved path is a prefix of the path in memory: a reconnecting
\* member extends the path without saving it (attachMember), nothing else does.
\* A session built while a late pass may yet save an earlier object of the user
\* (Lingering) is excluded: there the older path is saved over the newer.
PathAgreement ==
  Settled("path") =>
    /\ Len(row.path) <= Len(heap[cur].path)
    /\ row.path = SubSeq(heap[cur].path, 1, Len(row.path))

\* The group is alerted at most once for each time the SOS is raised, and the
\* user reminded at most once for each time a trip is started, extended or
\* restored, however clients and sweeps overlap: the flags of startSos and
\* processMember are tested and set before anything is awaited.
NoRepeats == ~audit.repeats

\* A record never has a trip without an arrival time or the reverse, in any
\* session object, although startTrip, extendTrip, endTrip and endSos write
\* the two after awaiting different operations.
CoupledTrip == \A o \in Objs : heap[o].trip = None <=> heap[o].eta = None

\* No handler waits to close or extend a trip row that does not exist: Prisma
\* would throw and the record would keep the trip for good (closeTrip).
TripRowsExist ==
  /\ \A o \in Objs : heap[o].trip # None => trips[heap[o].trip].st # "none"
  /\ \A s \in Slots : call[s].trip # None => trips[call[s].trip].st # "none"

\* Only a user connected to the tracking socket has a location accepted: what
\* location.controller.ts says of the HTTP fallback.
LocationNeedsSocket ==
  [][\A s \in Clients, l \in Locs : UpdateLocation(s, l) => sockets > 0]_vars

\* A client or a sweep still has to alarm the group about this trip.
OverdueTrip ==
  Live /\ heap[cur].eta # None /\ ~heap[cur].sos /\ Overdue(heap[cur].eta, now)

\* A trip past its arrival time does not stay that way while the session
\* lives: a sweep raises the SOS, unless the trip is extended or ended.
OverdueRaisesSos == OverdueTrip ~> ~OverdueTrip

\* No alarm is forgotten: every SOS that was raised has been announced to the
\* group, or some handler of startSos is still on its way to announce it, with
\* or without a location, lowered meanwhile or not, on a dropped session or
\* not; unless an awaited call threw or the process stopped.
NoRiseForgotten ==
  used.fails = 0 /\ used.crashes = 0 =>
    \A n \in 1..audit.rises :
      \/ n \in audit.alarms
      \/ \E s \in Slots : call[s].pc \in SosPcs /\ call[s].n = n

=============================================================================
