-------------------------- MODULE LiveMember_proofs --------------------------
(* Theorems about LiveMember, for every value of its constants. *)
EXTENDS LiveMember, TLAPS

-----------------------------------------------------------------------------
(* The records handlers write have their types. *)

LEMMA PathTyped ==
  /\ <<>> \in Paths
  /\ \A l \in Locs : <<l>> \in Paths /\ \A p \in Paths : Append(p, l) \in Paths
<1>1. <<>> \in Paths
  BY DEF Paths
<1>2. ASSUME NEW l \in Locs PROVE <<l>> \in Paths
  BY DEF Paths
<1>3. ASSUME NEW l \in Locs, NEW p \in Paths PROVE Append(p, l) \in Paths
  BY DEF Paths
<1>4. QED
  BY <1>1, <1>2, <1>3

LEMMA NoCallTyped == NoCall \in CallType
BY PathTyped DEF NoCall, CallType, Pcs, Maybe, RowType, EmptyRow

LEMMA MemberTyped == Absent \in MemberType /\ Fresh \in MemberType
BY PathTyped DEF Absent, Fresh, MemberType, Maybe

LEMMA LocatedTyped ==
  ASSUME NEW m \in MemberType, NEW l \in Locs
  PROVE  Located(m, l) \in MemberType
BY PathTyped DEF Located, MemberType, Maybe

LEMMA RaisedTyped ==
  ASSUME NEW m \in MemberType, NEW n \in Nat
  PROVE  Raised(m, n) \in MemberType
BY PathTyped DEF Raised, MemberType, Maybe

LEMMA ResetTyped ==
  ASSUME NEW m \in MemberType
  PROVE  ResetTrip(m) \in MemberType
BY DEF ResetTrip, MemberType, Maybe

LEMMA AttachedTyped ==
  ASSUME NEW m \in MemberType, NEW l \in Maybe(Locs)
  PROVE  Attached(m, l) \in MemberType /\ Newcomer(l) \in MemberType
<1>1. Newcomer(l) \in MemberType
  BY MemberTyped DEF Newcomer, MemberType, Maybe
<1> DEFINE a == [m EXCEPT !.socket = TRUE, !.offline = FALSE, !.inactive = FALSE]
<1>2. a \in MemberType
  BY DEF MemberType
<1>3. ASSUME NEW p \in Paths PROVE [a EXCEPT !.loc = l, !.path = p] \in MemberType
  BY <1>2 DEF MemberType
<1>4. (IF m.sos THEN Append(m.path, l) ELSE m.path) \in Paths \/ l = None
  BY PathTyped DEF MemberType, Maybe
<1>5. Attached(m, l) \in MemberType
  BY <1>2, <1>3, <1>4 DEF Attached
<1>6. QED
  BY <1>1, <1>5

LEMMA RestoredTyped ==
  ASSUME NEW c \in CallType, NEW n \in Nat
  PROVE  Restored(c, n) \in MemberType
BY DEF Restored, RestoredParts, CallType, RowType, MemberType, Maybe

-----------------------------------------------------------------------------
(* How the shared pieces of a step type the state after it. *)

ClashType == SUBSET {"trip", "sos", "path"}

\* The conjuncts of TypeOK' that speak of the slots.
CallsOK ==
  /\ call' \in [Slots -> CallType] /\ clash' \in ClashType
  /\ \A t \in Slots : CallOK(t, call'[t])

LEMMA SlotTyped ==
  ASSUME TypeOK, NEW s \in Slots, NEW c \in CallType, CallOK(s, c),
         call' = [call EXCEPT ![s] = c], clash' \in ClashType
  PROVE  CallsOK
BY DEF TypeOK, CallsOK

LEMMA AwaitTyped ==
  ASSUME TypeOK, NEW s \in Slots, NEW c \in CallType, CallOK(s, c), Await(s, c)
  PROVE  CallsOK
<1>1. clash' \in ClashType
  BY DEF TypeOK, Await, Concerns, ClashType
<1>2. QED
  BY <1>1, SlotTyped DEF Await

LEMMA IdleOK == \A s \in Slots : CallOK(s, NoCall)
BY DEF CallOK, NoCall, SosPcs, SafePcs, TripPcs, SweepPcs

LEMMA ReturnTyped ==
  ASSUME TypeOK, NEW s \in Slots, Return(s)
  PROVE  CallsOK
BY NoCallTyped, IdleOK, SlotTyped DEF TypeOK, Return, ClashType

LEMMA TellTyped ==
  ASSUME TypeOK, NEW sos \in BOOLEAN, NEW eta \in Maybe(Etas), Tell(sos, eta)
  PROVE  view' \in ViewType
BY DEF TypeOK, Tell, ViewType

LEMMA HeapTyped ==
  ASSUME TypeOK, NEW o \in Objs, NEW m \in MemberType, heap' = [heap EXCEPT ![o] = m]
  PROVE  heap' \in [Objs -> MemberType]
BY DEF TypeOK

LEMMA IssueTyped ==
  ASSUME TypeOK, NEW s, NEW kind, Issue(s, kind)
  PROVE  used' \in [calls : Nat, fails : Nat, crashes : Nat]
BY DEF TypeOK, Issue

LEMMA StateTyped ==
  ASSUME TypeOK
  PROVE  /\ \A o \in Objs : heap[o] \in MemberType
         /\ \A s \in Slots : call[s] \in CallType /\ CallOK(s, call[s])
         /\ cur # None => cur \in Objs
BY DEF TypeOK, Maybe

LEMMA ClientSlot ==
  ASSUME NEW s, NEW kind, Issue(s, kind)
  PROVE  s \in Slots /\ s \notin Sweeps
BY SlotsAssumption DEF Issue, Slots

-----------------------------------------------------------------------------
(* Type correctness, one lemma per action. *)

LEMMA UpdateLocationTyped ==
  ASSUME TypeOK, NEW s \in Slots, NEW l \in Locs, UpdateLocation(s, l)
  PROVE  TypeOK'
<1> DEFINE m == Located(heap[cur], l)
           c == [NoCall EXCEPT !.obj = cur]
           d == [c EXCEPT !.pc = "loc_path", !.path = m.path]
           e == Untracked([c EXCEPT !.pc = "loc_log"])
<1>1. cur \in Objs /\ s \notin Sweeps
  BY ClientSlot, StateTyped DEF UpdateLocation, RequireMember
<1>2. m \in MemberType
  BY <1>1, LocatedTyped, StateTyped
<1>3. c \in CallType
  BY <1>1, NoCallTyped DEF CallType, Maybe
<1> HIDE DEF c
<1>11. m.path \in Paths
  BY <1>2 DEF MemberType
<1>12. d \in CallType
  BY <1>11, <1>3 DEF CallType, Pcs
<1>10. e \in CallType
  BY <1>3 DEF CallType, Pcs, Untracked
<1> USE DEF c
<1>4. CallOK(s, d) /\ CallOK(s, e)
  BY <1>1 DEF NoCall, Untracked, CallOK, SosPcs, SafePcs, TripPcs, SweepPcs
<1>5. heap' \in [Objs -> MemberType]
  BY <1>1, <1>2, HeapTyped DEF UpdateLocation
<1>6. CallsOK
  BY <1>10, <1>12, <1>4, AwaitTyped, ReturnTyped DEF UpdateLocation, LogOrTell
<1>7. view' \in ViewType
  BY <1>2, TellTyped DEF UpdateLocation, LogOrTell, TypeOK, MemberType, ViewType
<1>8. used' \in [calls : Nat, fails : Nat, crashes : Nat]
  BY IssueTyped DEF UpdateLocation
<1>9. QED
  BY <1>5, <1>6, <1>7, <1>8 DEF UpdateLocation, TypeOK, CallsOK, ClashType

LEMMA LocationResumesTyped ==
  ASSUME TypeOK, NEW s \in Slots, LocationResumes(s)
  PROVE  TypeOK'
<1> DEFINE m == heap[call[s].obj]
           e == Untracked([call[s] EXCEPT !.pc = "loc_log"])
<1>1. m \in MemberType
  BY StateTyped DEF LocationResumes, Resumes, At, CallOK
<1>2. e \in CallType
  BY ZenonT(40), StateTyped DEF CallType, Pcs, Untracked
<1>3. CallOK(s, e)
  BY StateTyped DEF LocationResumes, Resumes, At, CallType, Untracked, CallOK,
                    SosPcs, SafePcs, TripPcs, SweepPcs
<1>4. CallsOK
  BY <1>2, <1>3, AwaitTyped, ReturnTyped DEF LocationResumes, LogOrTell
<1>5. view' \in ViewType
  BY <1>1, TellTyped DEF LocationResumes, LogOrTell, TypeOK, MemberType, ViewType
<1>6. QED
  BY <1>4, <1>5 DEF LocationResumes, TypeOK, CallsOK, ClashType

LEMMA RaiseTyped ==
  ASSUME TypeOK, NEW s \in Slots, NEW c \in CallType, cur \in Objs,
         s \in Sweeps => c.grp \in Objs, Raise(s, heap, c)
  PROVE  /\ heap' \in [Objs -> MemberType]
         /\ audit' \in [rises : Nat, arms : Nat, alarms : SUBSET Nat,
                        reminders : SUBSET Nat, repeats : BOOLEAN]
         /\ CallsOK
<1> DEFINE m == heap[cur]
           n == IF m.sos THEN m.rise ELSE audit.rises + 1
           d == [c EXCEPT !.pc = "sos_flag", !.ran = FALSE, !.obj = cur, !.n = n]
<1>1. m \in MemberType
  BY StateTyped
<1>2. n \in Nat
  BY <1>1 DEF MemberType, TypeOK
<1>3. heap' \in [Objs -> MemberType]
  <2>1. heap' = [heap EXCEPT ![cur] = Raised(m, n)]
    BY DEF Raise
  <2>2. Raised(m, n) \in MemberType
    BY <1>1, <1>2, RaisedTyped
  <2>3. QED
    BY <2>1, <2>2, HeapTyped
<1>4. ASSUME NEW k \in Nat
      PROVE  [c EXCEPT !.pc = "sos_flag", !.ran = FALSE, !.obj = cur, !.n = k] \in CallType
  BY DEF CallType, Pcs, SosPcs, Maybe
<1>5. CallOK(s, d)
  BY DEF CallType, CallOK, SosPcs, SafePcs, TripPcs, SweepPcs
<1>6. CallsOK
  BY <1>2, <1>4, <1>5, AwaitTyped DEF Raise
<1>7. QED
  BY <1>3, <1>6 DEF Raise, TypeOK

LEMMA StartSosTyped ==
  ASSUME TypeOK, NEW s \in Slots, StartSos(s)
  PROVE  TypeOK'
<1>1. cur \in Objs /\ s \notin Sweeps
  BY ClientSlot, StateTyped DEF StartSos, Control, RequireMember
<1>2. used' \in [calls : Nat, fails : Nat, crashes : Nat]
  BY IssueTyped DEF StartSos, Control
<1>3. CASE AlreadyRaised(heap[cur])
  <2>1. CallsOK
    BY <1>3, ReturnTyped DEF StartSos
  <2>2. QED
    BY <1>2, <1>3, <2>1 DEF StartSos, TypeOK, CallsOK, ClashType
<1>4. CASE ~AlreadyRaised(heap[cur])
  <2>1. Raise(s, heap, NoCall)
    BY <1>4 DEF StartSos
  <2>2. QED
    BY <1>1, <1>2, <2>1, RaiseTyped, NoCallTyped DEF StartSos, TypeOK, CallsOK, ClashType
<1>5. QED
  BY <1>3, <1>4

LEMMA StartSosResumesTyped ==
  ASSUME TypeOK, NEW s \in Slots, SosFlagged(s) \/ SosPathSaved(s) \/ SosLogged(s)
  PROVE  TypeOK'
<1> DEFINE p == heap[call[s].obj].path
           d == [call[s] EXCEPT !.pc = "sos_path", !.ran = FALSE, !.path = p]
           e == Untracked([call[s] EXCEPT !.pc = "sos_log"])
           f == [call[s] EXCEPT !.pc = "sos_notify", !.ran = FALSE]
<1>1. call[s].pc \in SosPcs /\ heap[call[s].obj] \in MemberType
  BY StateTyped DEF SosFlagged, SosPathSaved, SosLogged, Resumes, At, CallOK, SosPcs
<1>2. p \in Paths
  BY <1>1 DEF MemberType
<1>3. d \in CallType
  BY ZenonT(40), <1>2, StateTyped DEF CallType, Pcs, SosPcs
<1>4. e \in CallType /\ f \in CallType
  BY ZenonT(40), StateTyped DEF CallType, Pcs, SosPcs, Untracked
<1>5. CallOK(s, d) /\ CallOK(s, e) /\ CallOK(s, f)
  BY <1>1, StateTyped DEF CallType, Untracked, CallOK, SosPcs, SafePcs, TripPcs, SweepPcs
<1>6. CallsOK
  BY <1>3, <1>4, <1>5, AwaitTyped DEF SosFlagged, SosPathSaved, SosLogged
<1>7. QED
  BY <1>6 DEF SosFlagged, SosPathSaved, SosLogged, TypeOK, CallsOK, ClashType

LEMMA EndSosTyped ==
  ASSUME TypeOK, NEW s \in Slots, EndSos(s)
  PROVE  TypeOK'
<1> DEFINE d == [NoCall EXCEPT !.pc = "safe_flag", !.obj = cur]
<1>1. cur \in Objs /\ s \notin Sweeps
  BY ClientSlot, StateTyped DEF EndSos, Control, RequireMember
<1>2. d \in CallType
  BY <1>1, NoCallTyped DEF CallType, Pcs, SafePcs, Maybe
<1>3. CallOK(s, d)
  BY <1>1 DEF NoCall, CallOK, SosPcs, SafePcs, TripPcs, SweepPcs
<1>4. CallsOK
  BY <1>2, <1>3, AwaitTyped, ReturnTyped DEF EndSos
<1>5. heap' \in [Objs -> MemberType]
  <2>1. [heap[cur] EXCEPT !.sos = FALSE, !.path = <<>>] \in MemberType
    BY <1>1, StateTyped, PathTyped DEF MemberType
  <2>2. heap' = heap \/ heap' = [heap EXCEPT ![cur] = [heap[cur] EXCEPT !.sos = FALSE, !.path = <<>>]]
    BY <1>1, StateTyped DEF EndSos, TypeOK, MemberType
  <2>3. QED
    BY <1>1, <2>1, <2>2, HeapTyped DEF TypeOK
<1>6. used' \in [calls : Nat, fails : Nat, crashes : Nat]
  BY IssueTyped DEF EndSos, Control
<1>7. QED
  BY <1>4, <1>5, <1>6 DEF EndSos, TypeOK, CallsOK, ClashType

LEMMA EndSosResumesTyped ==
  ASSUME TypeOK, NEW s \in Slots,
         SafeFlagged(s) \/ SafePathSaved(s) \/ SafeTripClosed(s) \/ SafeNotified(s)
  PROVE  TypeOK'
<1> DEFINE t == heap[call[s].obj].trip
           d == [call[s] EXCEPT !.pc = "safe_path", !.ran = FALSE, !.path = <<>>]
           e == [call[s] EXCEPT !.pc = "safe_trip", !.ran = FALSE, !.trip = t]
           f == Untracked([call[s] EXCEPT !.pc = "safe_notify"])
<1>1. /\ call[s].pc \in SafePcs /\ call[s].obj \in Objs /\ s \notin Sweeps
      /\ heap[call[s].obj] \in MemberType
  BY StateTyped DEF SafeFlagged, SafePathSaved, SafeTripClosed, SafeNotified, Resumes, At,
                    CallOK, SosPcs, SafePcs, SweepPcs
<1>2. t \in Maybe(Trips)
  BY <1>1 DEF MemberType
<1>3. d \in CallType
  BY ZenonT(40), StateTyped, PathTyped DEF CallType, Pcs, SafePcs
<1>4. e \in CallType
  BY ZenonT(40), <1>2, StateTyped DEF CallType, Pcs, SafePcs
<1>5. f \in CallType
  BY ZenonT(40), StateTyped DEF CallType, Pcs, SafePcs, Untracked
<1>6. CallOK(s, d) /\ (t # None => CallOK(s, e)) /\ CallOK(s, f)
  BY <1>1, <1>2, StateTyped
  DEF CallType, Untracked, CallOK, SosPcs, SafePcs, TripPcs, SweepPcs, Maybe
<1>7. CallsOK
  BY <1>3, <1>4, <1>5, <1>6, AwaitTyped, ReturnTyped
  DEF SafeFlagged, SafePathSaved, SafeTripClosed, SafeNotified
<1>8. heap' \in [Objs -> MemberType]
  BY <1>1, ResetTyped, HeapTyped
  DEF SafeFlagged, SafePathSaved, SafeTripClosed, SafeNotified, TypeOK
<1>9. view' \in ViewType
  BY TellTyped DEF SafeFlagged, SafePathSaved, SafeTripClosed, SafeNotified,
                   TypeOK, ViewType, Maybe
<1>10. QED
  BY <1>7, <1>8, <1>9 DEF SafeFlagged, SafePathSaved, SafeTripClosed, SafeNotified,
                          TypeOK, CallsOK, ClashType

LEMMA StartTripTyped ==
  ASSUME TypeOK, NEW s \in Slots, NEW eta \in Etas, StartTrip(s, eta)
  PROVE  TypeOK'
<1> DEFINE t == heap[cur].trip
           d == [NoCall EXCEPT !.pc = "trip_close", !.obj = cur, !.eta = eta, !.trip = t]
           e == [NoCall EXCEPT !.pc = "trip_create", !.obj = cur, !.eta = eta]
<1>1. cur \in Objs /\ s \notin Sweeps
  BY ClientSlot, StateTyped DEF StartTrip, Control, RequireMember
<1>2. t \in Maybe(Trips)
  BY <1>1, StateTyped DEF MemberType
<1>3. d \in CallType
  BY <1>1, <1>2, NoCallTyped DEF CallType, Pcs, Maybe
<1>4. e \in CallType
  BY <1>1, NoCallTyped DEF CallType, Pcs, Maybe
<1>5. (t # None => CallOK(s, d)) /\ CallOK(s, e)
  BY <1>1, <1>2 DEF NoCall, CallOK, SosPcs, SafePcs, TripPcs, SweepPcs, Maybe
<1>6. Await(s, IF t # None THEN d ELSE e)
  BY DEF StartTrip, NoCall
<1>7. CallsOK
  BY <1>3, <1>4, <1>5, <1>6, AwaitTyped
<1>8. used' \in [calls : Nat, fails : Nat, crashes : Nat]
  BY IssueTyped DEF StartTrip, Control
<1>9. QED
  BY <1>7, <1>8 DEF StartTrip, TypeOK, CallsOK, ClashType

LEMMA PreviousTripClosedTyped ==
  ASSUME TypeOK, NEW s \in Slots, PreviousTripClosed(s)
  PROVE  TypeOK'
<1> DEFINE d == [call[s] EXCEPT !.pc = "trip_create", !.ran = FALSE, !.trip = None]
<1>1. d \in CallType
  BY ZenonT(40), StateTyped DEF CallType, Pcs, Maybe
<1>2. CallOK(s, d)
  BY StateTyped DEF PreviousTripClosed, Resumes, At, CallType, CallOK,
                    SosPcs, SafePcs, TripPcs, SweepPcs
<1>3. CallsOK
  BY <1>1, <1>2, AwaitTyped DEF PreviousTripClosed
<1>4. QED
  BY <1>3 DEF PreviousTripClosed, TypeOK, CallsOK, ClashType

\* Binding a trip and an arrival to a record.
LEMMA ArmedTyped ==
  ASSUME NEW m \in MemberType, NEW t \in Trips, NEW eta \in Etas, NEW n \in Nat
  PROVE  /\ Armed([m EXCEPT !.trip = t, !.eta = eta], n) \in MemberType
         /\ Armed([m EXCEPT !.eta = eta], n) \in MemberType
BY DEF Armed, MemberType, Maybe

LEMMA TripCreatedTyped ==
  ASSUME TypeOK, NEW s \in Slots, TripCreated(s)
  PROVE  TypeOK'
<1> DEFINE c == call[s]
<1>1. c.obj \in Objs /\ c.trip \in Trips /\ c.eta \in Etas
  BY StateTyped DEF TripCreated, Resumes, At, CallOK, TripPcs
<1>2. audit.arms + 1 \in Nat
  BY DEF TypeOK
<1>3. heap' \in [Objs -> MemberType]
  BY <1>1, <1>2, ArmedTyped, HeapTyped, StateTyped DEF TripCreated
<1>4. CallsOK
  BY ReturnTyped DEF TripCreated
<1>5. view' \in ViewType
  BY <1>1, TellTyped DEF TripCreated, TypeOK, ViewType, Maybe
<1>6. QED
  BY <1>2, <1>3, <1>4, <1>5 DEF TripCreated, TypeOK, CallsOK, ClashType

LEMMA ExtendTripTyped ==
  ASSUME TypeOK, NEW s \in Slots, NEW eta \in Etas, ExtendTrip(s, eta)
  PROVE  TypeOK'
<1> DEFINE t == heap[cur].trip
           d == [NoCall EXCEPT !.pc = "ext_eta", !.obj = cur, !.trip = t, !.eta = eta]
<1>1. cur \in Objs /\ s \notin Sweeps
  BY ClientSlot, StateTyped DEF ExtendTrip, Control, RequireMember
<1>2. t \in Trips
  BY <1>1, StateTyped DEF ExtendTrip, MemberType, Maybe
<1>3. d \in CallType
  BY <1>1, <1>2, NoCallTyped DEF CallType, Pcs, Maybe
<1>4. CallOK(s, d)
  BY <1>1, <1>2 DEF NoCall, CallOK, SosPcs, SafePcs, TripPcs, SweepPcs
<1>5. CallsOK
  BY <1>3, <1>4, AwaitTyped DEF ExtendTrip
<1>6. audit.arms + 1 \in Nat
  BY DEF TypeOK
<1>7. heap' \in [Objs -> MemberType]
  BY <1>1, <1>2, <1>6, ArmedTyped, HeapTyped, StateTyped DEF ExtendTrip
<1>8. used' \in [calls : Nat, fails : Nat, crashes : Nat]
  BY IssueTyped DEF ExtendTrip, Control
<1>9. QED
  BY <1>5, <1>6, <1>7, <1>8 DEF ExtendTrip, TypeOK, CallsOK, ClashType

LEMMA EndTripTyped ==
  ASSUME TypeOK, NEW s \in Slots, EndTrip(s)
  PROVE  TypeOK'
<1> DEFINE t == heap[cur].trip
           d == [NoCall EXCEPT !.pc = "end_close", !.obj = cur, !.trip = t]
<1>1. cur \in Objs /\ s \notin Sweeps
  BY ClientSlot, StateTyped DEF EndTrip, Control, RequireMember
<1>2. t \in Trips
  BY <1>1, StateTyped DEF EndTrip, MemberType, Maybe
<1>3. d \in CallType
  BY <1>1, <1>2, NoCallTyped DEF CallType, Pcs, Maybe
<1>4. CallOK(s, d)
  BY <1>1, <1>2 DEF NoCall, CallOK, SosPcs, SafePcs, TripPcs, SweepPcs
<1>5. CallsOK
  BY <1>3, <1>4, AwaitTyped DEF EndTrip
<1>6. used' \in [calls : Nat, fails : Nat, crashes : Nat]
  BY IssueTyped DEF EndTrip, Control
<1>7. QED
  BY <1>5, <1>6 DEF EndTrip, TypeOK, CallsOK, ClashType

LEMMA TripChangedTyped ==
  ASSUME TypeOK, NEW s \in Slots, TripExtended(s) \/ TripEnded(s)
  PROVE  TypeOK'
<1>1. call[s].obj \in Objs /\ heap[call[s].obj] \in MemberType
  BY StateTyped DEF TripExtended, TripEnded, Resumes, At, CallOK, TripPcs
<1>2. heap' \in [Objs -> MemberType]
  BY <1>1, ResetTyped, HeapTyped DEF TripExtended, TripEnded, TypeOK
<1>3. view' \in ViewType
  BY <1>1, TellTyped DEF TripExtended, TripEnded, TypeOK, ViewType, MemberType, Maybe
<1>4. CallsOK
  BY ReturnTyped DEF TripExtended, TripEnded
<1>5. QED
  BY <1>2, <1>3, <1>4 DEF TripExtended, TripEnded, TypeOK, CallsOK, ClashType

LEMMA ConnectTyped ==
  ASSUME TypeOK, NEW s \in Slots, NEW self \in BOOLEAN, NEW l \in Maybe(Locs),
         Connect(s, self, l)
  PROVE  TypeOK'
<1> DEFINE d == Untracked([NoCall EXCEPT !.pc = "con_member", !.self = self, !.loc = l])
<1>1. s \notin Sweeps
  BY ClientSlot DEF Connect
<1>2. d \in CallType
  BY NoCallTyped DEF CallType, Pcs, Untracked
<1>3. CallOK(s, d)
  BY <1>1 DEF NoCall, Untracked, CallOK, SosPcs, SafePcs, TripPcs, SweepPcs
<1>4. CallsOK
  BY <1>2, <1>3, AwaitTyped DEF Connect
<1>5. used' \in [calls : Nat, fails : Nat, crashes : Nat]
  BY IssueTyped DEF Connect
<1>6. QED
  BY <1>4, <1>5 DEF Connect, TypeOK, CallsOK, ClashType

LEMMA WelcomeTyped ==
  ASSUME TypeOK, NEW self \in BOOLEAN, NEW m \in MemberType, Welcome(self, m)
  PROVE  view' \in ViewType
<1>1. CASE self
  BY <1>1, TellTyped DEF Welcome, TypeOK, ViewType, MemberType
<1>2. CASE ~self
  <2> DEFINE sos == m.in /\ m.sos
             eta == IF m.in THEN m.eta ELSE None
  <2>1. sos \in BOOLEAN /\ eta \in Maybe(Etas)
    BY DEF MemberType, Maybe
  <2>2. view' = [on |-> TRUE, sos |-> sos, eta |-> eta]
    BY <1>2 DEF Welcome
  <2> HIDE DEF sos, eta
  <2>3. QED
    BY <2>1, <2>2 DEF ViewType
<1>3. QED
  BY <1>1, <1>2

LEMMA AttachMemberTyped ==
  ASSUME TypeOK, NEW s \in Slots, AttachMember(s)
  PROVE  TypeOK'
<1> DEFINE c == call[s]
           m == IF ~c.self THEN heap[cur]
                ELSE IF heap[cur].in THEN Attached(heap[cur], c.loc)
                ELSE Newcomer(c.loc)
<1>1. cur \in Objs /\ heap[cur] \in MemberType
  BY StateTyped DEF AttachMember
<1>2. c.loc \in Maybe(Locs) /\ c.self \in BOOLEAN
  BY StateTyped DEF CallType
<1>3. m \in MemberType
  BY <1>1, <1>2, AttachedTyped
<1>4. heap' \in [Objs -> MemberType]
  BY <1>1, <1>3, HeapTyped DEF AttachMember
<1>5. view' \in ViewType
  BY <1>2, <1>3, WelcomeTyped DEF AttachMember
<1>6. clash' \in ClashType
  BY DEF AttachMember, Forgotten, TypeOK, ClashType
<1>7. CallsOK
  BY <1>6, NoCallTyped, IdleOK, SlotTyped DEF AttachMember
<1>8. QED
  BY <1>4, <1>5, <1>7 DEF AttachMember, TypeOK, CallsOK, ClashType

LEMMA BuildSessionTyped ==
  ASSUME TypeOK, NEW s \in Slots, BuildSession(s) \/ GroupRead(s)
  PROVE  TypeOK'
<1> DEFINE d == [call[s] EXCEPT !.pc = "con_group", !.ran = FALSE]
           e == [call[s] EXCEPT !.pc = "con_trips", !.ran = FALSE]
<1>1. d \in CallType /\ e \in CallType
  BY ZenonT(40), StateTyped DEF CallType, Pcs
<1>2. CallOK(s, d) /\ CallOK(s, e)
  BY StateTyped DEF BuildSession, GroupRead, Resumes, At, CallType, CallOK,
                    SosPcs, SafePcs, TripPcs, SweepPcs
<1>3. CallsOK
  BY <1>1, <1>2, AwaitTyped DEF BuildSession, GroupRead
<1>4. QED
  BY <1>3 DEF BuildSession, GroupRead, TypeOK, CallsOK, ClashType

LEMMA SessionBuiltTyped ==
  ASSUME TypeOK, NEW s \in Slots, SessionBuilt(s)
  PROVE  TypeOK'
<1> DEFINE c == call[s]
           n == IF c.eta = None THEN audit.arms ELSE audit.arms + 1
           r == Restored(c, n)
           m == IF r.in THEN r ELSE Absent
<1>1. c \in CallType /\ n \in Nat
  BY StateTyped DEF TypeOK
<1>2. m \in MemberType
  BY <1>1, RestoredTyped, MemberTyped
<1>3. PICK o \in Objs \ InUse :
        /\ heap' = [heap EXCEPT ![o] = m] /\ cur' = o
        /\ audit' = [audit EXCEPT !.arms = n] /\ Welcome(c.self, m)
        /\ sockets' = IF c.self THEN sockets + 1 ELSE sockets
  BY DEF SessionBuilt
<1>4. heap' \in [Objs -> MemberType]
  BY <1>2, <1>3, HeapTyped
<1>5. view' \in ViewType
  BY <1>1, <1>2, <1>3, WelcomeTyped DEF CallType
<1>6. clash' \in ClashType
  BY DEF SessionBuilt, TypeOK, ClashType
<1>7. CallsOK
  BY <1>6, NoCallTyped, IdleOK, SlotTyped DEF SessionBuilt
<1> HIDE DEF n, m
<1>8. /\ sockets' \in Nat /\ cur' \in Maybe(Objs)
      /\ audit' \in [rises : Nat, arms : Nat, alarms : SUBSET Nat,
                     reminders : SUBSET Nat, repeats : BOOLEAN]
  BY <1>1, <1>3 DEF TypeOK, Maybe
<1>9. QED
  BY <1>4, <1>5, <1>7, <1>8 DEF SessionBuilt, TypeOK, CallsOK, ClashType

LEMMA DisconnectTyped ==
  ASSUME TypeOK, NEW s \in Slots, Disconnect(s)
  PROVE  TypeOK'
<1> DEFINE d == [NoCall EXCEPT !.pc = "dis_save", !.loc = heap[cur].loc]
<1>1. s \notin Sweeps
  BY ClientSlot DEF Disconnect
<1>2. ASSUME RequireMember
      PROVE  /\ cur \in Objs /\ d \in CallType /\ CallOK(s, d)
             /\ [heap[cur] EXCEPT !.socket = FALSE] \in MemberType
  <2>1. cur \in Objs /\ heap[cur] \in MemberType
    BY <1>2, StateTyped DEF RequireMember
  <2>2. heap[cur].loc \in Maybe(Locs) /\ [heap[cur] EXCEPT !.socket = FALSE] \in MemberType
    BY <2>1 DEF MemberType
  <2>3. d \in CallType
    BY <2>2, NoCallTyped DEF CallType, Pcs
  <2>4. CallOK(s, d)
    BY <1>1 DEF NoCall, CallOK, SosPcs, SafePcs, TripPcs, SweepPcs
  <2>5. QED
    BY <2>1, <2>2, <2>3, <2>4
<1>3. CallsOK
  BY <1>2, AwaitTyped, ReturnTyped DEF Disconnect
<1>4. heap' \in [Objs -> MemberType]
  <2>1. CASE RequireMember
    BY <1>2, <2>1, HeapTyped DEF Disconnect
  <2>2. CASE ~RequireMember
    BY <2>2 DEF Disconnect, TypeOK
  <2>3. QED
    BY <2>1, <2>2
<1>5. used' \in [calls : Nat, fails : Nat, crashes : Nat] /\ sockets' \in Nat
  BY IssueTyped DEF Disconnect, TypeOK
<1>6. QED
  BY <1>3, <1>4, <1>5 DEF Disconnect, TypeOK, CallsOK, ClashType

LEMMA LocationSavedTyped ==
  ASSUME TypeOK, NEW s \in Slots, LocationSaved(s)
  PROVE  TypeOK'
BY ReturnTyped DEF LocationSaved, TypeOK, CallsOK, ClashType

-----------------------------------------------------------------------------
(* Type correctness of the sweep's actions. *)

LEMMA EndOfVisitTyped ==
  ASSUME NEW c \in CallType, c.grp \in Objs, NEW s \in Sweeps
  PROVE  EndOfVisit(c) \in CallType /\ CallOK(s, EndOfVisit(c))
<1>1. EndOfVisit(c) \in CallType
  BY NoCallTyped DEF EndOfVisit, CallType, Pcs
<1>2. CallOK(s, EndOfVisit(c))
  BY DEF EndOfVisit, NoCall, CallOK, SosPcs, SafePcs, TripPcs, SweepPcs
<1>3. QED
  BY <1>1, <1>2

\* What a step of a sweep that only flags the member keeps typed.
LEMMA OfflineTyped ==
  ASSUME TypeOK, NEW s \in Sweeps, call[s].pc # "idle", NEW old \in BOOLEAN,
         OfflineCheck(s, old)
  PROVE  heap' \in [Objs -> MemberType] /\ CallsOK
<1> DEFINE c == call[s]
           m == heap[c.grp]
           e == EndOfVisit(c)
           d == [e EXCEPT !.pc = "sw_snapshot", !.loc = m.loc, !.path = m.path]
<1>1. s \in Slots /\ c \in CallType /\ c.grp \in Objs /\ m \in MemberType
  BY StateTyped DEF Slots, CallOK
<1>2. e \in CallType /\ CallOK(s, e) /\ e.grp = c.grp
  BY <1>1, EndOfVisitTyped DEF EndOfVisit, NoCall
<1>3. m.loc \in Maybe(Locs) /\ m.path \in Paths
  BY <1>1 DEF MemberType
<1>4. [m EXCEPT !.offline = TRUE] \in MemberType
  BY <1>1 DEF MemberType
<1>5. d \in CallType /\ CallOK(s, d)
  <2> HIDE DEF e
  <2>1. d \in CallType
    BY <1>2, <1>3 DEF CallType, Pcs
  <2>2. CallOK(s, d)
    BY <1>1, <1>2 DEF CallType, CallOK, SosPcs, SafePcs, TripPcs, SweepPcs
  <2>3. QED
    BY <2>1, <2>2
<1>6. CASE old /\ ~m.offline
  <2>1. heap' = [heap EXCEPT ![c.grp] = [m EXCEPT !.offline = TRUE]] /\ Await(s, d)
    BY <1>1, <1>6 DEF OfflineCheck
  <2>2. QED
    BY <1>1, <1>4, <1>5, <2>1, HeapTyped, AwaitTyped
<1>7. CASE ~(old /\ ~m.offline)
  <2>1. heap' = heap /\ Await(s, e)
    BY <1>7 DEF OfflineCheck
  <2>2. QED
    BY <1>1, <1>2, <2>1, AwaitTyped DEF TypeOK
<1>8. QED
  BY <1>6, <1>7

LEMMA PresenceTyped ==
  ASSUME TypeOK, NEW s \in Sweeps, call[s].pc # "idle", Presence(s)
  PROVE  heap' \in [Objs -> MemberType] /\ CallsOK
<1> DEFINE c == call[s]
           m == heap[c.grp]
           e == EndOfVisit(c)
           d == Untracked([e EXCEPT !.pc = "sw_inactive"])
<1>1. s \in Slots /\ c \in CallType /\ c.grp \in Objs /\ m \in MemberType
  BY StateTyped DEF Slots, CallOK
<1>2. e \in CallType /\ CallOK(s, e) /\ e.grp = c.grp
  BY <1>1, EndOfVisitTyped DEF EndOfVisit, NoCall
<1>3. [m EXCEPT !.inactive = TRUE] \in MemberType
  BY <1>1 DEF MemberType
<1>4. d \in CallType /\ CallOK(s, d)
  <2> HIDE DEF e
  <2>1. d \in CallType
    BY <1>2 DEF CallType, Pcs, Untracked
  <2>2. CallOK(s, d)
    BY <1>1, <1>2 DEF CallType, Untracked, CallOK, SosPcs, SafePcs, TripPcs, SweepPcs
  <2>3. QED
    BY <2>1, <2>2
<1>5. CASE heap' = heap /\ Await(s, e)
  BY <1>1, <1>2, <1>5, AwaitTyped DEF TypeOK
<1>6. CASE heap' = [heap EXCEPT ![c.grp] = [m EXCEPT !.inactive = TRUE]] /\ Await(s, d)
  BY <1>1, <1>3, <1>4, <1>6, HeapTyped, AwaitTyped
<1>7. CASE \E old \in BOOLEAN : OfflineCheck(s, old)
  BY <1>7, OfflineTyped
<1>8. QED
  BY <1>1, <1>5, <1>6, <1>7 DEF Presence

AuditType ==
  [rises : Nat, arms : Nat, alarms : SUBSET Nat, reminders : SUBSET Nat, repeats : BOOLEAN]

LEMMA AlarmCheckTyped ==
  ASSUME TypeOK, NEW s \in Sweeps, call[s].pc # "idle", NEW c \in CallType,
         c.grp \in Objs, AlarmCheck(s, c)
  PROVE  heap' \in [Objs -> MemberType] /\ CallsOK /\ audit' \in AuditType
<1>1. s \in Slots
  BY DEF Slots
<1>2. CASE Presence(s) /\ UNCHANGED audit
  BY <1>2, PresenceTyped DEF TypeOK, AuditType
<1>3. CASE Await(s, EndOfVisit(c)) /\ UNCHANGED <<heap, audit>>
  BY <1>1, <1>3, EndOfVisitTyped, AwaitTyped DEF TypeOK, AuditType
<1>4. CASE RequireMember /\ Raise(s, heap, c)
  <2>1. cur \in Objs
    BY <1>4, StateTyped DEF RequireMember
  <2>2. QED
    BY <1>1, <1>4, <2>1, RaiseTyped DEF AuditType
<1>5. QED
  BY <1>2, <1>3, <1>4 DEF AlarmCheck

LEMMA SweepStartTyped ==
  ASSUME TypeOK, NEW s \in Sweeps, SweepStart(s)
  PROVE  TypeOK'
<1> DEFINE d == [NoCall EXCEPT !.pc = "sw_visit", !.grp = cur, !.now = now]
<1>1. s \in Slots /\ cur \in Objs
  BY StateTyped DEF SweepStart, Slots
<1>2. d \in CallType
  BY <1>1, NoCallTyped DEF CallType, Pcs, Maybe, TypeOK
<1>3. CallOK(s, d)
  BY <1>1 DEF NoCall, CallOK, SosPcs, SafePcs, TripPcs, SweepPcs
<1>4. CallsOK
  BY <1>1, <1>2, <1>3, AwaitTyped DEF SweepStart
<1>5. QED
  BY <1>4 DEF SweepStart, TypeOK, CallsOK, ClashType

LEMMA SweepSlot ==
  ASSUME TypeOK, NEW s \in Slots, call[s].pc \in SweepPcs
  PROVE  /\ s \in Sweeps /\ call[s].pc # "idle"
         /\ call[s] \in CallType /\ call[s].grp \in Objs
BY StateTyped DEF CallOK, SweepPcs

LEMMA SweepVisitTyped ==
  ASSUME TypeOK, NEW s \in Slots, SweepVisit(s)
  PROVE  TypeOK'
<1> DEFINE m == heap[call[s].grp]
           c == [call[s] EXCEPT !.eta = m.eta]
           d == [c EXCEPT !.pc = "sw_remind", !.n = m.arm]
<1>1. /\ s \in Sweeps /\ call[s].pc # "idle" /\ call[s].pc = "sw_visit"
      /\ call[s] \in CallType /\ call[s].grp \in Objs /\ m \in MemberType
  BY SweepSlot, StateTyped DEF SweepVisit, At, SweepPcs
<1>2. m.eta \in Maybe(Etas) /\ m.arm \in Nat /\ Reminded(m) \in MemberType
  BY <1>1 DEF MemberType, Reminded
<1>3. c \in CallType /\ c.grp = call[s].grp
  BY <1>1, <1>2 DEF CallType
<1>4. d \in CallType
  <2> HIDE DEF c
  <2>1. QED
    BY <1>2, <1>3 DEF CallType, Pcs
<1>5. CallOK(s, d)
  BY <1>1, <1>3 DEF CallType, CallOK, SosPcs, SafePcs, TripPcs, SweepPcs
<1>6. heap' \in [Objs -> MemberType] /\ CallsOK /\ audit' \in AuditType
  <2>1. CASE Await(s, EndOfVisit(c)) /\ UNCHANGED <<heap, audit>>
    BY <1>1, <1>3, <2>1, EndOfVisitTyped, AwaitTyped DEF TypeOK, AuditType
  <2>2. CASE Presence(s) /\ UNCHANGED audit
    BY <1>1, <2>2, PresenceTyped DEF TypeOK, AuditType
  <2>3. CASE heap' = [heap EXCEPT ![c.grp] = Reminded(m)] /\ Await(s, d) /\ UNCHANGED audit
    BY <1>1, <1>2, <1>3, <1>4, <1>5, <2>3, HeapTyped, AwaitTyped DEF TypeOK, AuditType
  <2>4. CASE AlarmCheck(s, c)
    BY <1>1, <1>3, <2>4, AlarmCheckTyped
  <2>5. QED
    BY <2>1, <2>2, <2>3, <2>4 DEF SweepVisit
<1>7. QED
  BY <1>6 DEF SweepVisit, TypeOK, CallsOK, ClashType, AuditType

LEMMA SweepResumesTyped ==
  ASSUME TypeOK, NEW s \in Slots, SweepReminded(s) \/ SweepNoticed(s) \/ SnapshotSaved(s)
  PROVE  TypeOK'
<1>1. /\ s \in Sweeps /\ call[s].pc # "idle"
      /\ call[s] \in CallType /\ call[s].grp \in Objs
  BY SweepSlot DEF SweepReminded, SweepNoticed, SnapshotSaved, Resumes, At, SweepPcs
<1>2. CASE SweepReminded(s)
  BY <1>1, <1>2, AlarmCheckTyped DEF SweepReminded, TypeOK, CallsOK, ClashType, AuditType
<1>3. CASE SweepNoticed(s)
  BY <1>1, <1>3, OfflineTyped DEF SweepNoticed, TypeOK, CallsOK, ClashType
<1>4. CASE SnapshotSaved(s)
  BY <1>1, <1>4, EndOfVisitTyped, AwaitTyped DEF SnapshotSaved, TypeOK, CallsOK, ClashType
<1>5. QED
  BY <1>2, <1>3, <1>4

LEMMA SweepEndTyped ==
  ASSUME TypeOK, NEW s \in Slots, SweepEnd(s)
  PROVE  TypeOK'
BY ReturnTyped DEF SweepEnd, TypeOK, CallsOK, ClashType, Maybe

LEMMA SosNotifiedTyped ==
  ASSUME TypeOK, NEW s \in Slots, SosNotified(s)
  PROVE  TypeOK'
<1>1. view' \in ViewType
  BY TellTyped DEF SosNotified, TypeOK, ViewType
<1>2. CASE s \in Sweeps
  BY <1>1, <1>2, PresenceTyped DEF SosNotified, Resumes, At, TypeOK, CallsOK, ClashType
<1>3. CASE s \notin Sweeps
  BY <1>1, <1>3, ReturnTyped DEF SosNotified, TypeOK, CallsOK, ClashType
<1>4. QED
  BY <1>2, <1>3

-----------------------------------------------------------------------------
(* Type correctness of effects, failures and the environment. *)

LEMMA RanTyped ==
  ASSUME TypeOK, NEW s \in Slots, NEW pcs, Commit(s, pcs), "trip_create" \notin pcs
  PROVE  CallsOK
<1> DEFINE d == [call[s] EXCEPT !.ran = TRUE]
<1>1. d \in CallType
  BY StateTyped DEF CallType
<1>2. CallOK(s, d)
  BY StateTyped DEF Commit, CallType, CallOK
<1>3. QED
  BY <1>1, <1>2, SlotTyped DEF Commit, TypeOK, ClashType

LEMMA CommitRowTyped ==
  ASSUME TypeOK, NEW s \in Slots,
         CommitFlag(s) \/ CommitPath(s) \/ CommitLastLocation(s) \/ CommitSnapshot(s)
  PROVE  TypeOK'
<1>1. CallsOK
  BY RanTyped DEF CommitFlag, CommitPath, CommitLastLocation, CommitSnapshot
<1>2. call[s].path \in Paths /\ call[s].loc \in Maybe(Locs)
  BY StateTyped DEF CallType
<1>3. row' \in RowType
  BY <1>2 DEF CommitFlag, CommitPath, CommitLastLocation, CommitSnapshot, At, TypeOK, RowType
<1>4. QED
  BY <1>1, <1>3 DEF CommitFlag, CommitPath, CommitLastLocation, CommitSnapshot, Commit,
                    TypeOK, CallsOK, ClashType

LEMMA CommitTripTyped ==
  ASSUME TypeOK, NEW s \in Slots, CommitClose(s) \/ CommitArrival(s)
  PROVE  TypeOK'
<1>1. CallsOK
  BY RanTyped DEF CommitClose, CommitArrival
<1>2. CASE CommitClose(s)
  <2>1. trips' \in [Trips -> TripType]
    BY ZenonT(40), <1>2 DEF CommitClose, TypeOK, TripType
  <2>2. QED
    BY <1>1, <1>2, <2>1 DEF CommitClose, Commit, TypeOK, CallsOK, ClashType
<1>3. CASE CommitArrival(s)
  <2>1. call[s].eta \in Maybe(Etas)
    BY StateTyped DEF CallType
  <2>2. trips' \in [Trips -> TripType]
    BY ZenonT(40), <1>3, <2>1 DEF CommitArrival, TypeOK, TripType
  <2>3. QED
    BY <1>1, <1>3, <2>2 DEF CommitArrival, Commit, TypeOK, CallsOK, ClashType
<1>4. QED
  BY <1>2, <1>3

LEMMA CommitCreateTyped ==
  ASSUME TypeOK, NEW s \in Slots, CommitCreate(s)
  PROVE  TypeOK'
<1>1. PICK t \in Trips :
        /\ trips' = [trips EXCEPT ![t] = [st |-> "ACTIVE", eta |-> call[s].eta]]
        /\ call' = [call EXCEPT ![s].ran = TRUE, ![s].trip = t]
  BY DEF CommitCreate
<1> DEFINE d == [call[s] EXCEPT !.ran = TRUE, !.trip = t]
<1>2. call' = [call EXCEPT ![s] = d]
  BY <1>1, StateTyped DEF TypeOK, CallType
<1>3. d \in CallType
  BY StateTyped DEF CallType, Maybe
<1>4. CallOK(s, d)
  BY StateTyped DEF CommitCreate, At, CallType, CallOK, SosPcs, SafePcs, TripPcs, SweepPcs
<1>5. CallsOK
  BY <1>2, <1>3, <1>4, SlotTyped DEF CommitCreate, TypeOK, ClashType
<1>6. [st |-> "ACTIVE", eta |-> call[s].eta] \in TripType
  BY StateTyped DEF TripType, CallType
<1>7. trips' \in [Trips -> TripType]
  BY <1>1, <1>6 DEF TypeOK
<1>8. QED
  BY <1>5, <1>7 DEF CommitCreate, TypeOK, CallsOK, ClashType

LEMMA CommitNoticeTyped ==
  ASSUME TypeOK, NEW s \in Slots, CommitAlarm(s) \/ CommitReminder(s)
  PROVE  TypeOK'
<1>1. CallsOK
  BY RanTyped DEF CommitAlarm, CommitReminder
<1>2. call[s].n \in Nat
  BY StateTyped DEF CallType
<1>3. audit' \in AuditType
  <2> DEFINE n == call[s].n
             a == audit.repeats \/ n \in audit.alarms
             r == audit.repeats \/ n \in audit.reminders
  <2>1. audit \in AuditType
    BY DEF TypeOK, AuditType
  <2>2. a \in BOOLEAN /\ r \in BOOLEAN
    BY DEF AuditType
  <2>3. audit.alarms \cup {n} \in SUBSET Nat /\ audit.reminders \cup {n} \in SUBSET Nat
    BY <1>2, <2>1 DEF AuditType
  <2>4. \/ audit' = [audit EXCEPT !.alarms = audit.alarms \cup {n}, !.repeats = a]
        \/ audit' = [audit EXCEPT !.reminders = audit.reminders \cup {n}, !.repeats = r]
    BY <2>1 DEF CommitAlarm, CommitReminder, AuditType
  <2> HIDE DEF a, r
  <2>5. QED
    BY <2>1, <2>2, <2>3, <2>4 DEF AuditType
<1>4. QED
  BY <1>1, <1>3 DEF CommitAlarm, CommitReminder, Commit, TypeOK, CallsOK, ClashType, AuditType

LEMMA CommitReadTyped ==
  ASSUME TypeOK, NEW s \in Slots, CommitGroupRead(s) \/ CommitTripsRead(s)
  PROVE  TypeOK'
<1>1. CASE CommitGroupRead(s)
  <2> DEFINE d == [call[s] EXCEPT !.ran = TRUE, !.row = row]
  <2>1. call' = [call EXCEPT ![s] = d]
    BY <1>1, StateTyped DEF CommitGroupRead, TypeOK, CallType
  <2>2. d \in CallType
    BY ZenonT(40), StateTyped DEF TypeOK, CallType
  <2>3. CallOK(s, d)
    BY <1>1, StateTyped DEF CommitGroupRead, At, CallType, CallOK
  <2>4. CallsOK
    BY <1>1, <2>1, <2>2, <2>3, SlotTyped DEF CommitGroupRead, TypeOK, ClashType
  <2>5. QED
    BY <1>1, <2>4 DEF CommitGroupRead, TypeOK, CallsOK, ClashType
<1>2. CASE CommitTripsRead(s)
  <2>1. PICK t \in Maybe(Trips) :
          /\ t # None => t \in Trips
          /\ call' = [call EXCEPT ![s].ran = TRUE, ![s].trip = t,
                                  ![s].eta = IF t = None THEN None ELSE trips[t].eta]
    BY <1>2 DEF CommitTripsRead, ActiveTrips, Maybe
  <2> DEFINE e == IF t = None THEN None ELSE trips[t].eta
             d == [call[s] EXCEPT !.ran = TRUE, !.trip = t, !.eta = e]
  <2>2. call' = [call EXCEPT ![s] = d]
    BY <2>1, StateTyped DEF TypeOK, CallType
  <2>3. e \in Maybe(Etas)
    BY <2>1 DEF TypeOK, TripType, Maybe
  <2> HIDE DEF e
  <2>4. d \in CallType
    BY <2>3, StateTyped DEF CallType
  <2>5. CallOK(s, d)
    BY <1>2, StateTyped
    DEF CommitTripsRead, At, CallType, CallOK, SosPcs, SafePcs, TripPcs, SweepPcs
  <2>6. CallsOK
    BY <1>2, <2>2, <2>4, <2>5, SlotTyped DEF CommitTripsRead, TypeOK, ClashType
  <2>7. QED
    BY <1>2, <2>6 DEF CommitTripsRead, TypeOK, CallsOK, ClashType
<1>3. QED
  BY <1>1, <1>2

LEMMA FailTyped ==
  ASSUME TypeOK, NEW s \in Slots, Fail(s)
  PROVE  TypeOK'
<1> DEFINE d == IF s \in Sweeps THEN EndOfVisit(call[s]) ELSE NoCall
<1>1. d \in CallType /\ CallOK(s, d)
  BY StateTyped, EndOfVisitTyped, NoCallTyped, IdleOK DEF Fail, CallOK
<1>2. call' = [call EXCEPT ![s] = d] /\ clash' \in ClashType
  BY DEF Fail, Concerns, TypeOK, ClashType
<1>3. CallsOK
  BY <1>1, <1>2, SlotTyped
<1>4. used' \in [calls : Nat, fails : Nat, crashes : Nat]
  BY DEF Fail, TypeOK
<1>5. QED
  BY <1>3, <1>4 DEF Fail, TypeOK, CallsOK, ClashType

LEMMA EnvironmentTyped ==
  ASSUME TypeOK, PeerDisconnect \/ Crash \/ Tick
  PROVE  TypeOK'
<1>1. Unseen \in ViewType
  BY DEF Unseen, ViewType, Maybe
<1>2. CASE PeerDisconnect
  BY <1>1, <1>2 DEF PeerDisconnect, TypeOK
<1>3. CASE Tick
  BY <1>3 DEF Tick, TypeOK
<1>4. CASE Crash
  <2>1. /\ heap' \in [Objs -> MemberType] /\ call' \in [Slots -> CallType]
        /\ \A s \in Slots : CallOK(s, call'[s])
    BY <1>4, MemberTyped, NoCallTyped, IdleOK DEF Crash
  <2>2. /\ used' \in [calls : Nat, fails : Nat, crashes : Nat]
        /\ cur' \in Maybe(Objs) /\ clash' \in ClashType
    BY <1>4 DEF Crash, TypeOK, Maybe, ClashType
  <2>3. QED
    BY <1>1, <1>4, <2>1, <2>2 DEF Crash, TypeOK, ClashType
<1>5. QED
  BY <1>2, <1>3, <1>4

-----------------------------------------------------------------------------
LEMMA InitTyped == Init => TypeOK
<1> SUFFICES ASSUME Init PROVE TypeOK
  OBVIOUS
<1>1. EmptyRow \in RowType /\ Unseen \in ViewType /\ [Unseen EXCEPT !.on = TRUE] \in ViewType
  BY PathTyped DEF EmptyRow, RowType, Unseen, ViewType, Maybe
<1>6. [st |-> "none", eta |-> None] \in TripType
  BY DEF TripType, Maybe
<1>7. row \in RowType /\ view \in ViewType /\ trips \in [Trips -> TripType]
  BY <1>1, <1>6 DEF Init
<1>2. heap \in [Objs -> MemberType] /\ cur \in Maybe(Objs) /\ sockets \in Nat
  BY MemberTyped DEF Init, Maybe
<1>3. call \in [Slots -> CallType] /\ \A s \in Slots : CallOK(s, call[s])
  BY NoCallTyped, IdleOK DEF Init
<1>4. audit \in AuditType /\ used \in [calls : Nat, fails : Nat, crashes : Nat]
  BY DEF Init, Blank, NoUse, AuditType
<1>5. QED
  BY <1>7, <1>2, <1>3, <1>4 DEF Init, TypeOK, AuditType, ClashType

LEMMA NextTyped == TypeOK /\ [Next]_vars => TypeOK'
<1> SUFFICES ASSUME TypeOK, [Next]_vars PROVE TypeOK'
  OBVIOUS
<1>1. ASSUME NEW s \in Clients, ClientStarts(s) PROVE TypeOK'
  <2>1. s \in Slots
    BY DEF Slots
  <2>2. CASE \E l \in Locs : UpdateLocation(s, l)
    BY <2>1, <2>2, UpdateLocationTyped
  <2>3. CASE StartSos(s) \/ EndSos(s) \/ EndTrip(s) \/ Disconnect(s)
    BY <2>1, <2>3, StartSosTyped, EndSosTyped, EndTripTyped, DisconnectTyped
  <2>4. CASE \E eta \in Etas : StartTrip(s, eta) \/ ExtendTrip(s, eta)
    BY <2>1, <2>4, StartTripTyped, ExtendTripTyped
  <2>5. CASE \E self \in BOOLEAN, l \in Maybe(Locs) : Connect(s, self, l)
    BY <2>1, <2>5, ConnectTyped
  <2>6. QED
    BY <1>1, <2>2, <2>3, <2>4, <2>5 DEF ClientStarts
<1>2. ASSUME NEW s \in Slots, Continue(s) PROVE TypeOK'
  BY <1>2, LocationResumesTyped, StartSosResumesTyped, SosNotifiedTyped,
     EndSosResumesTyped, PreviousTripClosedTyped, TripCreatedTyped, TripChangedTyped,
     AttachMemberTyped, BuildSessionTyped, SessionBuiltTyped, LocationSavedTyped,
     SweepVisitTyped, SweepResumesTyped, SweepEndTyped
  DEF Continue
<1>3. ASSUME NEW s \in Slots, Effect(s) PROVE TypeOK'
  BY <1>3, CommitRowTyped, CommitTripTyped, CommitCreateTyped, CommitNoticeTyped,
     CommitReadTyped
  DEF Effect
<1>4. CASE UNCHANGED vars
  BY <1>4 DEF vars, TypeOK
<1>5. QED
  BY <1>1, <1>2, <1>3, <1>4, SweepStartTyped, FailTyped, EnvironmentTyped DEF Next

\* Every variable keeps its type, and a suspended handler always holds the
\* object, trip and arrival time its next segment dereferences.
THEOREM TypeCorrect == Spec => []TypeOK
<1>1. QED
  BY InitTyped, NextTyped, PTL DEF Spec

-----------------------------------------------------------------------------
(* The invariants *)

\* A suspended startSos that has not yet alerted the group, and a suspended
\* processMember that has not yet reminded the user.
Unannounced(c) == c.pc \in SosPcs /\ ~(c.pc = "sos_notify" /\ c.ran)
Reminding(c) == c.pc = "sw_remind" /\ ~c.ran

\* Each rise of the flag has one handler to announce it, and it has not yet.
AlarmInv ==
  /\ \A n \in audit.alarms : n <= audit.rises
  /\ \A s \in Slots : Unannounced(call[s]) =>
       call[s].n <= audit.rises /\ call[s].n \notin audit.alarms
  /\ \A s, t \in Slots :
       s # t /\ Unannounced(call[s]) /\ Unannounced(call[t]) => call[s].n # call[t].n

\* Each armed reminder is held by one object, and either its flag is still
\* down and nobody sends it, or one sweep may be sending it.
ReminderInv ==
  /\ \A n \in audit.reminders : n <= audit.arms
  /\ \A o \in Objs : heap[o].arm <= audit.arms
  /\ \A o, p \in Objs :
       o # p /\ heap[o].eta # None /\ heap[p].eta # None => heap[o].arm # heap[p].arm
  /\ \A o \in Objs : heap[o].eta # None /\ ~heap[o].reminded =>
       /\ heap[o].arm \notin audit.reminders
       /\ \A s \in Slots : Reminding(call[s]) => call[s].n # heap[o].arm
  /\ \A s \in Slots : Reminding(call[s]) =>
       call[s].n <= audit.arms /\ call[s].n \notin audit.reminders
  /\ \A s, t \in Slots :
       s # t /\ Reminding(call[s]) /\ Reminding(call[t]) => call[s].n # call[t].n

AnnounceInv == NoRepeats /\ AlarmInv /\ ReminderInv

-----------------------------------------------------------------------------
(* What most steps do: they begin no announcement and re-arm no reminder. *)

CallsKept ==
  \A t \in Slots :
    /\ Unannounced(call'[t]) => Unannounced(call[t]) /\ call'[t].n = call[t].n
    /\ Reminding(call'[t]) => Reminding(call[t]) /\ call'[t].n = call[t].n

HeapKept ==
  \A o \in Objs :
    \/ /\ heap[o].eta # None /\ heap'[o].arm = heap[o].arm
       /\ heap[o].reminded => heap'[o].reminded
    \/ heap'[o].eta = None /\ heap'[o].arm <= audit.arms

LEMMA RemindersKept ==
  ASSUME TypeOK, AnnounceInv, HeapKept,
         audit'.arms = audit.arms, audit'.reminders = audit.reminders,
         \A t \in Slots : Reminding(call'[t]) =>
           Reminding(call[t]) /\ call'[t].n = call[t].n
  PROVE  ReminderInv'
<1>1. \A o \in Objs : heap[o] \in MemberType /\ heap[o].arm <= audit.arms
  BY StateTyped DEF AnnounceInv, ReminderInv
<1>2. \A o \in Objs : heap'[o].arm <= audit'.arms
  BY <1>1 DEF HeapKept
<1>3. \A o, p \in Objs :
        o # p /\ heap'[o].eta # None /\ heap'[p].eta # None => heap'[o].arm # heap'[p].arm
  BY DEF HeapKept, AnnounceInv, ReminderInv
<1>4. \A o \in Objs : heap'[o].eta # None /\ ~heap'[o].reminded =>
        heap[o].eta # None /\ ~heap[o].reminded /\ heap'[o].arm = heap[o].arm
  BY DEF HeapKept
<1>5. QED
  BY <1>2, <1>3, <1>4 DEF AnnounceInv, ReminderInv

LEMMA Kept ==
  ASSUME TypeOK, AnnounceInv, CallsKept, HeapKept, UNCHANGED audit
  PROVE  AnnounceInv'
<1>1. NoRepeats' /\ AlarmInv'
  BY DEF AnnounceInv, NoRepeats, AlarmInv, CallsKept
<1>2. QED
  BY <1>1, RemindersKept DEF AnnounceInv, CallsKept

\* A trip is bound to object o, or its arrival time moved: a new arming.
LEMMA Rearmed ==
  ASSUME TypeOK, AnnounceInv, CallsKept, NEW o \in Objs,
         heap'[o].arm = audit.arms + 1, \A p \in Objs \ {o} : heap'[p] = heap[p],
         audit' = [audit EXCEPT !.arms = audit.arms + 1]
  PROVE  AnnounceInv'
<1>1. /\ audit'.arms = audit.arms + 1 /\ audit'.reminders = audit.reminders
      /\ audit'.alarms = audit.alarms /\ audit'.rises = audit.rises
      /\ audit'.repeats = audit.repeats
      /\ audit.arms \in Nat /\ audit.reminders \in SUBSET Nat
  BY DEF TypeOK
<1>2. NoRepeats' /\ AlarmInv'
  BY <1>1 DEF AnnounceInv, NoRepeats, AlarmInv, CallsKept
<1>3. /\ \A p \in Objs : heap[p].arm \in Nat /\ heap[p].arm <= audit.arms
      /\ \A s \in Slots : call[s].n \in Nat
  BY StateTyped DEF AnnounceInv, ReminderInv, MemberType, CallType
<1>4. ReminderInv'
  <2>1. \A n \in audit'.reminders : n <= audit'.arms
    BY <1>1 DEF AnnounceInv, ReminderInv
  <2>2. \A p \in Objs : heap'[p].arm <= audit'.arms
    BY <1>1, <1>3
  <2>3. \A p, q \in Objs :
          p # q /\ heap'[p].eta # None /\ heap'[q].eta # None
            => heap'[p].arm # heap'[q].arm
    BY <1>3, <1>1 DEF AnnounceInv, ReminderInv
  <2>4. audit'.arms \notin audit.reminders
    BY <1>1 DEF AnnounceInv, ReminderInv
  <2>5. \A t \in Slots : Reminding(call'[t]) =>
          /\ Reminding(call[t]) /\ call'[t].n = call[t].n
          /\ call[t].n <= audit.arms /\ call[t].n \notin audit.reminders
    BY DEF CallsKept, AnnounceInv, ReminderInv
  <2>6. \A t \in Slots : Reminding(call'[t]) => call'[t].n # audit'.arms
    BY <1>1, <1>3, <2>5
  <2>7. \A p \in Objs : heap'[p].eta # None /\ ~heap'[p].reminded =>
          /\ heap'[p].arm \notin audit'.reminders
          /\ \A t \in Slots : Reminding(call'[t]) => call'[t].n # heap'[p].arm
    BY <1>1, <2>4, <2>5, <2>6 DEF AnnounceInv, ReminderInv
  <2>8. \A t \in Slots : Reminding(call'[t]) =>
          call'[t].n <= audit'.arms /\ call'[t].n \notin audit'.reminders
    BY <1>1, <1>3, <2>5
  <2>9. \A t, u \in Slots :
          t # u /\ Reminding(call'[t]) /\ Reminding(call'[u]) => call'[t].n # call'[u].n
    BY DEF CallsKept, AnnounceInv, ReminderInv
  <2>10. QED
    BY <2>1, <2>2, <2>3, <2>7, <2>8, <2>9 DEF ReminderInv
<1>5. QED
  BY <1>2, <1>4 DEF AnnounceInv

\* A session is built without a member whose trip was read: the number of its
\* arming goes unused.
LEMMA Skipped ==
  ASSUME TypeOK, AnnounceInv, CallsKept, NEW o \in Objs,
         heap'[o].eta = None, heap'[o].arm = 0, \A p \in Objs \ {o} : heap'[p] = heap[p],
         audit' = [audit EXCEPT !.arms = audit.arms + 1]
  PROVE  AnnounceInv'
<1>1. /\ audit'.arms = audit.arms + 1 /\ audit'.reminders = audit.reminders
      /\ audit'.alarms = audit.alarms /\ audit'.rises = audit.rises
      /\ audit'.repeats = audit.repeats
      /\ audit.arms \in Nat /\ audit.reminders \in SUBSET Nat
  BY DEF TypeOK
<1>2. NoRepeats' /\ AlarmInv'
  BY <1>1 DEF AnnounceInv, NoRepeats, AlarmInv, CallsKept
<1>3. /\ \A p \in Objs : heap[p].arm \in Nat
      /\ \A t \in Slots : call[t].n \in Nat
  BY StateTyped DEF MemberType, CallType
<1>4. ReminderInv'
  BY <1>1, <1>3 DEF AnnounceInv, ReminderInv, CallsKept
<1>5. QED
  BY <1>2, <1>4 DEF AnnounceInv

-----------------------------------------------------------------------------
(* Suspending and resuming a handler *)

LEMMA SlotKept ==
  ASSUME TypeOK, NEW s \in Slots, NEW c, call' = [call EXCEPT ![s] = c],
         Unannounced(c) => Unannounced(call[s]) /\ c.n = call[s].n,
         Reminding(c) => Reminding(call[s]) /\ c.n = call[s].n
  PROVE  CallsKept
BY DEF TypeOK, CallsKept

LEMMA QuietKept ==
  ASSUME TypeOK, NEW s \in Slots, NEW c, Await(s, c),
         c.pc \notin SosPcs, c.pc # "sw_remind"
  PROVE  CallsKept
BY SlotKept DEF Await, Unannounced, Reminding

LEMMA IdleKept ==
  ASSUME TypeOK, NEW s \in Slots, call' = [call EXCEPT ![s] = NoCall]
  PROVE  CallsKept
BY SlotKept DEF NoCall, Unannounced, Reminding, SosPcs

LEMMA ReturnKept ==
  ASSUME TypeOK, NEW s \in Slots, Return(s)
  PROVE  CallsKept
BY IdleKept DEF Return

LEMMA SameHeapKept ==
  ASSUME TypeOK, AnnounceInv, UNCHANGED heap
  PROVE  HeapKept
BY DEF HeapKept, AnnounceInv, ReminderInv

\* One record changes in a way that does not concern the reminder.
LEMMA RecordKept ==
  ASSUME TypeOK, AnnounceInv, NEW o \in Objs, NEW m, heap' = [heap EXCEPT ![o] = m],
         \/ m.eta = heap[o].eta /\ m.arm = heap[o].arm
              /\ (heap[o].reminded => m.reminded)
         \/ m.eta = None /\ m.arm <= audit.arms
  PROVE  HeapKept
BY DEF TypeOK, HeapKept, AnnounceInv, ReminderInv

LEMMA CurTyped ==
  ASSUME TypeOK, RequireMember
  PROVE  cur \in Objs /\ heap[cur] \in MemberType
BY StateTyped DEF RequireMember

\* Client handlers that neither raise the SOS nor bind a trip.
LEMMA ClientKept ==
  ASSUME TypeOK, AnnounceInv, NEW s \in Slots,
         \/ \E l \in Locs : UpdateLocation(s, l)
         \/ EndSos(s)
         \/ \E eta \in Etas : StartTrip(s, eta)
         \/ EndTrip(s)
         \/ \E self \in BOOLEAN, l \in Maybe(Locs) : Connect(s, self, l)
         \/ Disconnect(s)
  PROVE  CallsKept /\ HeapKept /\ UNCHANGED audit
<1>1. ASSUME NEW l \in Locs, UpdateLocation(s, l)
      PROVE  CallsKept /\ HeapKept /\ UNCHANGED audit
  <2> DEFINE m == Located(heap[cur], l)
  <2>1. cur \in Objs /\ heap[cur] \in MemberType
    BY <1>1, CurTyped DEF UpdateLocation
  <2>2. m.eta = heap[cur].eta /\ m.arm = heap[cur].arm /\ m.reminded = heap[cur].reminded
    BY <2>1 DEF Located, MemberType
  <2>3. heap' = [heap EXCEPT ![cur] = m] /\ UNCHANGED audit
    BY <1>1 DEF UpdateLocation
  <2>4. HeapKept
    <3> HIDE DEF m
    <3>1. QED
      BY <2>1, <2>2, <2>3, RecordKept
  <2>5. CallsKept
    BY <1>1, QuietKept, ReturnKept
    DEF UpdateLocation, LogOrTell, Untracked, NoCall, SosPcs
  <2>6. QED
    BY <2>3, <2>4, <2>5
<1>2. CASE EndSos(s)
  <2>1. cur \in Objs /\ heap[cur] \in MemberType
    BY <1>2, CurTyped DEF EndSos, Control
  <2>2. CallsKept
    BY <1>2, QuietKept, ReturnKept DEF EndSos, NoCall, SosPcs
  <2>3. HeapKept
    <3> DEFINE m == [heap[cur] EXCEPT !.sos = FALSE, !.path = <<>>]
    <3>1. m.eta = heap[cur].eta /\ m.arm = heap[cur].arm /\ m.reminded = heap[cur].reminded
      BY <2>1 DEF MemberType
    <3>2. heap' = heap \/ heap' = [heap EXCEPT ![cur] = m]
      BY <1>2, <2>1 DEF EndSos, TypeOK, MemberType
    <3> HIDE DEF m
    <3>3. QED
      BY <2>1, <3>1, <3>2, SameHeapKept, RecordKept
  <2>4. QED
    BY <1>2, <2>2, <2>3 DEF EndSos
<1>3. ASSUME NEW eta \in Etas, StartTrip(s, eta)
      PROVE  CallsKept /\ HeapKept /\ UNCHANGED audit
  BY <1>3, QuietKept, SameHeapKept DEF StartTrip, NoCall, SosPcs
<1>4. CASE EndTrip(s)
  BY <1>4, QuietKept, SameHeapKept DEF EndTrip, NoCall, SosPcs
<1>5. ASSUME NEW self \in BOOLEAN, NEW l \in Maybe(Locs), Connect(s, self, l)
      PROVE  CallsKept /\ HeapKept /\ UNCHANGED audit
  BY <1>5, QuietKept, SameHeapKept DEF Connect, Untracked, NoCall, SosPcs
<1>6. CASE Disconnect(s)
  <2>1. CallsKept
    BY <1>6, QuietKept, ReturnKept DEF Disconnect, NoCall, SosPcs
  <2>2. CASE RequireMember
    <3>1. cur \in Objs /\ heap[cur] \in MemberType
      BY <2>2, CurTyped
    <3>2. heap' = [heap EXCEPT ![cur] = [heap[cur] EXCEPT !.socket = FALSE]]
      BY <1>6, <2>2 DEF Disconnect
    <3>3. HeapKept
      BY <3>1, <3>2, RecordKept DEF MemberType
    <3>4. QED
      BY <1>6, <2>1, <3>3 DEF Disconnect
  <2>3. CASE ~RequireMember
    BY <1>6, <2>1, <2>3, SameHeapKept DEF Disconnect
  <2>4. QED
    BY <2>2, <2>3
<1>7. QED
  BY <1>1, <1>2, <1>3, <1>4, <1>5, <1>6

\* Segments that resume after a client's awaited operation and leave the
\* reminder alone, resetTrip included: it drops the trip.
LEMMA ResumeKept ==
  ASSUME TypeOK, AnnounceInv, NEW s \in Slots,
         \/ LocationResumes(s) \/ SosFlagged(s) \/ SosPathSaved(s) \/ SosLogged(s)
         \/ SafeFlagged(s) \/ SafePathSaved(s) \/ SafeTripClosed(s) \/ SafeNotified(s)
         \/ PreviousTripClosed(s) \/ TripExtended(s) \/ TripEnded(s)
         \/ BuildSession(s) \/ GroupRead(s) \/ LocationSaved(s)
  PROVE  CallsKept /\ HeapKept /\ UNCHANGED audit
<1>0. call[s] \in CallType
  BY StateTyped
<1>1. CASE LocationResumes(s)
  BY <1>0, <1>1, QuietKept, ReturnKept, SameHeapKept
  DEF LocationResumes, LogOrTell, Untracked, CallType, SosPcs
<1>2. CASE SosFlagged(s) \/ SosPathSaved(s) \/ SosLogged(s)
  <2>1. CallsKept
    BY <1>0, <1>2, SlotKept
    DEF SosFlagged, SosPathSaved, SosLogged, Resumes, At, Await, Untracked, CallType,
        Unannounced, Reminding, SosPcs
  <2>2. QED
    BY <1>2, <2>1, SameHeapKept DEF SosFlagged, SosPathSaved, SosLogged
<1>3. CASE SafeFlagged(s) \/ SafePathSaved(s) \/ SafeNotified(s)
  <2>1. CallsKept
    BY <1>0, <1>3, QuietKept, ReturnKept
    DEF SafeFlagged, SafePathSaved, SafeNotified, Untracked, CallType, SosPcs
  <2>2. QED
    BY <1>3, <2>1, SameHeapKept DEF SafeFlagged, SafePathSaved, SafeNotified
<1>4. CASE SafeTripClosed(s) \/ TripEnded(s)
  <2> DEFINE o == call[s].obj
             m == ResetTrip(heap[o])
  <2>1. o \in Objs /\ heap[o] \in MemberType
    BY <1>4, StateTyped DEF SafeTripClosed, TripEnded, Resumes, At, CallOK, SafePcs, TripPcs
  <2>2. m.eta = None /\ m.arm = heap[o].arm /\ m.arm <= audit.arms
    BY <2>1 DEF ResetTrip, MemberType, AnnounceInv, ReminderInv
  <2>3. heap' = [heap EXCEPT ![o] = m] /\ UNCHANGED audit
    BY <1>4 DEF SafeTripClosed, TripEnded
  <2>4. HeapKept
    <3> HIDE DEF m
    <3>1. QED
      BY <2>1, <2>2, <2>3, RecordKept
  <2>5. CallsKept
    BY <1>0, <1>4, QuietKept, ReturnKept
    DEF SafeTripClosed, TripEnded, Untracked, CallType, SosPcs
  <2>6. QED
    BY <2>3, <2>4, <2>5
<1>5. CASE PreviousTripClosed(s)
  BY <1>0, <1>5, QuietKept, SameHeapKept DEF PreviousTripClosed, CallType, SosPcs
<1>6. CASE TripExtended(s) \/ LocationSaved(s)
  BY <1>6, ReturnKept, SameHeapKept DEF TripExtended, LocationSaved
<1>7. CASE BuildSession(s) \/ GroupRead(s)
  BY <1>0, <1>7, QuietKept, SameHeapKept DEF BuildSession, GroupRead, CallType, SosPcs
<1>8. QED
  BY <1>1, <1>2, <1>3, <1>4, <1>5, <1>6, <1>7

LEMMA AttachKept ==
  ASSUME TypeOK, AnnounceInv, NEW s \in Slots, AttachMember(s)
  PROVE  CallsKept /\ HeapKept /\ UNCHANGED audit
<1> DEFINE c == call[s]
           m == IF ~c.self THEN heap[cur]
                ELSE IF heap[cur].in THEN Attached(heap[cur], c.loc)
                ELSE Newcomer(c.loc)
<1>1. cur \in Objs /\ heap[cur] \in MemberType
  BY StateTyped DEF AttachMember
<1>2. \/ m.eta = heap[cur].eta /\ m.arm = heap[cur].arm /\ m.reminded = heap[cur].reminded
      \/ m.eta = None /\ m.arm = 0
  BY <1>1 DEF Attached, Newcomer, Fresh, Absent, MemberType
<1>3. heap' = [heap EXCEPT ![cur] = m] /\ UNCHANGED audit
  BY DEF AttachMember
<1>4. 0 <= audit.arms
  BY DEF TypeOK
<1>5. HeapKept
  <2> HIDE DEF m
  <2>1. QED
    BY <1>1, <1>2, <1>3, <1>4, RecordKept
<1>6. CallsKept
  BY IdleKept DEF AttachMember
<1>7. QED
  BY <1>3, <1>5, <1>6

-----------------------------------------------------------------------------
(* Steps that arm a reminder *)

LEMMA TripCreatedInv ==
  ASSUME TypeOK, AnnounceInv, NEW s \in Slots, TripCreated(s)
  PROVE  AnnounceInv'
<1> DEFINE c == call[s]
           n == audit.arms + 1
           m == Armed([heap[c.obj] EXCEPT !.trip = c.trip, !.eta = c.eta], n)
<1>1. c.obj \in Objs /\ heap[c.obj] \in MemberType
  BY StateTyped DEF TripCreated, Resumes, At, CallOK, TripPcs
<1>2. m.arm = n
  BY <1>1 DEF Armed, MemberType
<1>3. heap' = [heap EXCEPT ![c.obj] = m] /\ audit' = [audit EXCEPT !.arms = n]
  BY DEF TripCreated
<1>4. CallsKept
  BY ReturnKept DEF TripCreated
<1> HIDE DEF m
<1>5. heap'[c.obj].arm = n /\ \A p \in Objs \ {c.obj} : heap'[p] = heap[p]
  BY <1>1, <1>2, <1>3 DEF TypeOK
<1>6. QED
  BY <1>1, <1>3, <1>4, <1>5, Rearmed

LEMMA ExtendTripInv ==
  ASSUME TypeOK, AnnounceInv, NEW s \in Slots, NEW eta \in Etas, ExtendTrip(s, eta)
  PROVE  AnnounceInv'
<1> DEFINE n == audit.arms + 1
           m == Armed([heap[cur] EXCEPT !.eta = eta], n)
<1>1. cur \in Objs /\ heap[cur] \in MemberType
  BY CurTyped DEF ExtendTrip, Control
<1>2. m.arm = n
  BY <1>1 DEF Armed, MemberType
<1>3. heap' = [heap EXCEPT ![cur] = m] /\ audit' = [audit EXCEPT !.arms = n]
  BY DEF ExtendTrip
<1>4. CallsKept
  BY QuietKept DEF ExtendTrip, NoCall, SosPcs
<1> HIDE DEF m
<1>5. heap'[cur].arm = n /\ \A p \in Objs \ {cur} : heap'[p] = heap[p]
  BY <1>1, <1>2, <1>3 DEF TypeOK
<1>6. QED
  BY <1>1, <1>3, <1>4, <1>5, Rearmed

LEMMA SessionBuiltInv ==
  ASSUME TypeOK, AnnounceInv, NEW s \in Slots, SessionBuilt(s)
  PROVE  AnnounceInv'
<1> DEFINE c == call[s]
           n == IF c.eta = None THEN audit.arms ELSE audit.arms + 1
           r == Restored(c, n)
           m == IF r.in THEN r ELSE Absent
<1>1. PICK o \in Objs : heap' = [heap EXCEPT ![o] = m] /\ audit' = [audit EXCEPT !.arms = n]
  BY DEF SessionBuilt
<1>2. CallsKept
  BY IdleKept DEF SessionBuilt
<1>3. audit.arms \in Nat /\ audit \in AuditType
  BY DEF TypeOK, AuditType
<1>4. r.eta = c.eta /\ r.arm = n
  BY DEF Restored, RestoredParts
<1>5. CASE c.eta # None /\ r.in
  <2>1. m.arm = audit.arms + 1 /\ n = audit.arms + 1
    BY <1>4, <1>5
  <2> HIDE DEF m, n
  <2>2. heap'[o].arm = audit.arms + 1 /\ \A p \in Objs \ {o} : heap'[p] = heap[p]
    BY <1>1, <2>1 DEF TypeOK
  <2>3. QED
    BY <1>1, <1>2, <2>1, <2>2, Rearmed
<1>6. CASE c.eta = None
  <2>1. m.eta = None /\ m.arm <= audit.arms /\ n = audit.arms
    BY <1>3, <1>4, <1>6 DEF Absent
  <2> HIDE DEF m, n
  <2>2. UNCHANGED audit
    BY <1>1, <1>3, <2>1 DEF AuditType
  <2>3. QED
    BY <1>1, <1>2, <2>1, <2>2, RecordKept, Kept
<1>7. CASE c.eta # None /\ ~r.in
  <2>1. m = Absent /\ n = audit.arms + 1
    BY <1>7
  <2> HIDE DEF m, n
  <2>2. heap'[o].eta = None /\ heap'[o].arm = 0 /\ \A p \in Objs \ {o} : heap'[p] = heap[p]
    BY <1>1, <2>1 DEF TypeOK, Absent
  <2>3. QED
    BY <1>1, <1>2, <1>3, <2>1, <2>2, Skipped
<1>8. QED
  BY <1>5, <1>6, <1>7

-----------------------------------------------------------------------------
(* Raising the SOS and announcing it *)

LEMMA RaiseInv ==
  ASSUME TypeOK, AnnounceInv, NEW s \in Slots, NEW c \in CallType, cur \in Objs,
         ~AlreadyRaised(heap[cur]), Raise(s, heap, c)
  PROVE  AnnounceInv'
<1> DEFINE n == audit.rises + 1
           d == [c EXCEPT !.pc = "sos_flag", !.ran = FALSE, !.obj = cur, !.n = n]
           m == Raised(heap[cur], n)
<1>1. heap[cur] \in MemberType /\ audit \in AuditType /\ n \in Nat
  BY StateTyped DEF TypeOK, AuditType
<1>2. heap' = [heap EXCEPT ![cur] = m] /\ call' = [call EXCEPT ![s] = d]
      /\ audit' = [audit EXCEPT !.rises = n]
  BY DEF Raise, AlreadyRaised, Await
<1>3. m.eta = heap[cur].eta /\ m.arm = heap[cur].arm /\ m.reminded = heap[cur].reminded
  BY <1>1 DEF Raised, MemberType
<1>4. d.n = n /\ d.pc = "sos_flag" /\ Unannounced(d) /\ ~Reminding(d)
  BY DEF CallType, Unannounced, Reminding, SosPcs
<1> HIDE DEF m, d
<1>5. HeapKept
  BY <1>1, <1>2, <1>3, RecordKept
<1>6. \A t \in Slots : call'[t] = IF t = s THEN d ELSE call[t]
  BY <1>2 DEF TypeOK
<1>7. ReminderInv'
  BY <1>1, <1>2, <1>4, <1>5, <1>6, RemindersKept DEF AuditType
<1>8. AlarmInv'
  <2>1. audit'.alarms = audit.alarms /\ audit'.rises = n /\ audit.rises \in Nat
        /\ audit.alarms \in SUBSET Nat
    BY <1>1, <1>2 DEF AuditType
  <2>2. \A t \in Slots : call[t].n \in Nat
    BY StateTyped DEF CallType
  <2>3. \A t \in Slots \ {s} : Unannounced(call'[t]) => call'[t].n # n
    BY <1>6, <2>1, <2>2 DEF AnnounceInv, AlarmInv
  <2>4. n \notin audit.alarms
    BY <2>1 DEF AnnounceInv, AlarmInv
  <2>5. QED
    BY <1>4, <1>6, <2>1, <2>2, <2>3, <2>4 DEF AnnounceInv, AlarmInv
<1>9. NoRepeats'
  BY <1>1, <1>2 DEF AnnounceInv, NoRepeats, AuditType
<1>10. QED
  BY <1>7, <1>8, <1>9 DEF AnnounceInv

LEMMA StartSosInv ==
  ASSUME TypeOK, AnnounceInv, NEW s \in Slots, StartSos(s)
  PROVE  AnnounceInv'
<1>1. CASE AlreadyRaised(heap[cur])
  <2>1. CallsKept /\ HeapKept /\ UNCHANGED audit
    BY <1>1, ReturnKept, SameHeapKept DEF StartSos
  <2>2. QED
    BY <2>1, Kept
<1>2. CASE ~AlreadyRaised(heap[cur])
  BY <1>2, CurTyped, NoCallTyped, RaiseInv DEF StartSos, Control
<1>3. QED
  BY <1>1, <1>2

LEMMA CommitAlarmInv ==
  ASSUME TypeOK, AnnounceInv, NEW s \in Slots, CommitAlarm(s)
  PROVE  AnnounceInv'
<1> DEFINE n == call[s].n
<1>1. /\ Unannounced(call[s]) /\ call[s] \in CallType /\ audit \in AuditType
  BY StateTyped DEF CommitAlarm, Commit, Unannounced, SosPcs, TypeOK, AuditType
<1>2. n \notin audit.alarms /\ n <= audit.rises
  BY <1>1 DEF AnnounceInv, AlarmInv
<1>3. /\ audit'.alarms = audit.alarms \cup {n} /\ audit'.rises = audit.rises
      /\ audit'.repeats = (audit.repeats \/ n \in audit.alarms)
      /\ audit'.arms = audit.arms /\ audit'.reminders = audit.reminders
  BY <1>1 DEF CommitAlarm, AuditType
<1>4. \A t \in Slots : call'[t] = IF t = s THEN [call[s] EXCEPT !.ran = TRUE] ELSE call[t]
  BY DEF CommitAlarm, Commit, TypeOK
<1>5. ~Unannounced(call'[s]) /\ ~Reminding(call'[s])
  BY <1>1, <1>4 DEF CommitAlarm, Commit, CallType, Unannounced, Reminding
<1>6. NoRepeats'
  BY <1>2, <1>3 DEF AnnounceInv, NoRepeats
<1>7. AlarmInv'
  BY <1>1, <1>2, <1>3, <1>4, <1>5 DEF AnnounceInv, AlarmInv
<1>8. HeapKept
  BY SameHeapKept DEF CommitAlarm, Commit
<1>9. ReminderInv'
  BY <1>3, <1>4, <1>5, <1>8, RemindersKept
<1>10. QED
  BY <1>6, <1>7, <1>9 DEF AnnounceInv

-----------------------------------------------------------------------------
(* Reminding the user *)

LEMMA CommitReminderInv ==
  ASSUME TypeOK, AnnounceInv, NEW s \in Slots, CommitReminder(s)
  PROVE  AnnounceInv'
<1> DEFINE n == call[s].n
<1>1. Reminding(call[s]) /\ call[s] \in CallType /\ audit \in AuditType
  BY StateTyped DEF CommitReminder, Commit, Reminding, TypeOK, AuditType
<1>2. n \notin audit.reminders /\ n <= audit.arms
  BY <1>1 DEF AnnounceInv, ReminderInv
<1>3. /\ audit'.reminders = audit.reminders \cup {n} /\ audit'.arms = audit.arms
      /\ audit'.repeats = (audit.repeats \/ n \in audit.reminders)
      /\ audit'.alarms = audit.alarms /\ audit'.rises = audit.rises
  BY <1>1 DEF CommitReminder, AuditType
<1>4. \A t \in Slots : call'[t] = IF t = s THEN [call[s] EXCEPT !.ran = TRUE] ELSE call[t]
  BY DEF CommitReminder, Commit, TypeOK
<1>5. ~Unannounced(call'[s]) /\ ~Reminding(call'[s])
  BY <1>1, <1>4 DEF CallType, Unannounced, Reminding, SosPcs
<1>6. NoRepeats'
  BY <1>2, <1>3 DEF AnnounceInv, NoRepeats
<1>7. AlarmInv'
  BY <1>3, <1>4, <1>5 DEF AnnounceInv, AlarmInv
<1>8. heap' = heap
  BY DEF CommitReminder, Commit
<1>9. ReminderInv'
  BY <1>1, <1>2, <1>3, <1>4, <1>5, <1>8 DEF AnnounceInv, ReminderInv
<1>10. QED
  BY <1>6, <1>7, <1>9 DEF AnnounceInv

LEMMA RemindInv ==
  ASSUME TypeOK, AnnounceInv, NEW s \in Slots, NEW o \in Objs, NEW d,
         heap[o].eta # None, ~heap[o].reminded,
         d.pc = "sw_remind", d.n = heap[o].arm,
         heap' = [heap EXCEPT ![o] = Reminded(heap[o])],
         call' = [call EXCEPT ![s] = d], UNCHANGED audit
  PROVE  AnnounceInv'
<1>1. heap[o] \in MemberType
  BY StateTyped
<1>2. heap'[o].eta = heap[o].eta /\ heap'[o].arm = heap[o].arm /\ heap'[o].reminded
  BY <1>1 DEF Reminded, MemberType, TypeOK
<1>3. \A p \in Objs \ {o} : heap'[p] = heap[p]
  BY DEF TypeOK
<1>4. \A t \in Slots : call'[t] = IF t = s THEN d ELSE call[t]
  BY DEF TypeOK
<1>5. ~Unannounced(d)
  BY DEF Unannounced, SosPcs
<1>6. NoRepeats' /\ AlarmInv'
  BY <1>4, <1>5 DEF AnnounceInv, NoRepeats, AlarmInv
<1>7. ReminderInv'
  <2>1. \A p \in Objs : heap'[p].arm <= audit'.arms
    BY <1>2, <1>3 DEF AnnounceInv, ReminderInv
  <2>2. \A p, q \in Objs :
          p # q /\ heap'[p].eta # None /\ heap'[q].eta # None => heap'[p].arm # heap'[q].arm
    BY <1>2, <1>3 DEF AnnounceInv, ReminderInv
  <2>3. \A p \in Objs : heap'[p].eta # None /\ ~heap'[p].reminded =>
          /\ heap'[p].arm \notin audit'.reminders
          /\ \A t \in Slots : Reminding(call'[t]) => call'[t].n # heap'[p].arm
    BY <1>2, <1>3, <1>4 DEF AnnounceInv, ReminderInv
  <2>4. \A t \in Slots : Reminding(call'[t]) =>
          call'[t].n <= audit'.arms /\ call'[t].n \notin audit'.reminders
    BY <1>4 DEF AnnounceInv, ReminderInv
  <2>5. \A t, u \in Slots :
          t # u /\ Reminding(call'[t]) /\ Reminding(call'[u]) => call'[t].n # call'[u].n
    BY <1>4 DEF AnnounceInv, ReminderInv
  <2>6. \A n \in audit'.reminders : n <= audit'.arms
    BY DEF AnnounceInv, ReminderInv
  <2>7. QED
    BY <2>1, <2>2, <2>3, <2>4, <2>5, <2>6 DEF ReminderInv
<1>8. QED
  BY <1>6, <1>7 DEF AnnounceInv

-----------------------------------------------------------------------------
(* The sweep *)

LEMMA EndOfVisitKept ==
  ASSUME TypeOK, NEW s \in Slots, NEW c, Await(s, EndOfVisit(c))
  PROVE  CallsKept
BY QuietKept DEF EndOfVisit, NoCall, SosPcs

LEMMA OfflineKept ==
  ASSUME TypeOK, AnnounceInv, NEW s \in Sweeps, call[s].pc # "idle", NEW old \in BOOLEAN,
         OfflineCheck(s, old)
  PROVE  CallsKept /\ HeapKept
<1> DEFINE c == call[s]
           m == heap[c.grp]
           n == [m EXCEPT !.offline = TRUE]
<1>1. s \in Slots /\ c.grp \in Objs /\ m \in MemberType
  BY StateTyped DEF Slots, CallOK
<1>2. n.eta = m.eta /\ n.arm = m.arm /\ n.reminded = m.reminded
  BY <1>1 DEF MemberType
<1>3. CallsKept
  BY <1>1, QuietKept, EndOfVisitKept DEF OfflineCheck, EndOfVisit, NoCall, SosPcs
<1>4. heap' = heap \/ heap' = [heap EXCEPT ![c.grp] = n]
  BY <1>1 DEF OfflineCheck
<1> HIDE DEF n
<1>5. HeapKept
  BY <1>1, <1>2, <1>4, SameHeapKept, RecordKept
<1>6. QED
  BY <1>3, <1>5

LEMMA PresenceKept ==
  ASSUME TypeOK, AnnounceInv, NEW s \in Sweeps, call[s].pc # "idle", Presence(s)
  PROVE  CallsKept /\ HeapKept
<1> DEFINE c == call[s]
           m == heap[c.grp]
           n == [m EXCEPT !.inactive = TRUE]
           d == Untracked([EndOfVisit(c) EXCEPT !.pc = "sw_inactive"])
<1>1. s \in Slots /\ c.grp \in Objs /\ m \in MemberType
  BY StateTyped DEF Slots, CallOK
<1>2. n.eta = m.eta /\ n.arm = m.arm /\ n.reminded = m.reminded
  BY <1>1 DEF MemberType
<1>3. d.pc = "sw_inactive"
  BY DEF EndOfVisit, NoCall, Untracked
<1>4. CASE heap' = heap /\ Await(s, EndOfVisit(c))
  BY <1>1, <1>4, EndOfVisitKept, SameHeapKept
<1>5. CASE heap' = [heap EXCEPT ![c.grp] = n] /\ Await(s, d)
  <2> HIDE DEF n, d
  <2>1. CallsKept
    BY <1>1, <1>3, <1>5, QuietKept DEF SosPcs
  <2>2. HeapKept
    BY <1>1, <1>2, <1>5, RecordKept
  <2>3. QED
    BY <2>1, <2>2
<1>6. CASE \E old \in BOOLEAN : OfflineCheck(s, old)
  BY <1>6, OfflineKept
<1>7. QED
  BY <1>1, <1>4, <1>5, <1>6 DEF Presence

LEMMA AlarmCheckInv ==
  ASSUME TypeOK, AnnounceInv, NEW s \in Sweeps, call[s].pc # "idle",
         NEW c \in CallType, AlarmCheck(s, c)
  PROVE  AnnounceInv'
<1>1. s \in Slots
  BY DEF Slots
<1>2. CASE Presence(s) /\ UNCHANGED audit
  BY <1>2, PresenceKept, Kept
<1>3. CASE Await(s, EndOfVisit(c)) /\ UNCHANGED <<heap, audit>>
  BY <1>1, <1>3, EndOfVisitKept, SameHeapKept, Kept
<1>4. CASE RequireMember /\ ~AlreadyRaised(heap[cur]) /\ Raise(s, heap, c)
  BY <1>1, <1>4, CurTyped, RaiseInv
<1>5. QED
  BY <1>2, <1>3, <1>4 DEF AlarmCheck

LEMMA SweepVisitInv ==
  ASSUME TypeOK, AnnounceInv, NEW s \in Slots, SweepVisit(s)
  PROVE  AnnounceInv'
<1> DEFINE m == heap[call[s].grp]
           c == [call[s] EXCEPT !.eta = m.eta]
           d == [c EXCEPT !.pc = "sw_remind", !.n = m.arm]
<1>1. /\ s \in Sweeps /\ call[s].pc # "idle" /\ call[s].pc = "sw_visit"
      /\ call[s] \in CallType /\ call[s].grp \in Objs /\ m \in MemberType
  BY SweepSlot, StateTyped DEF SweepVisit, At, SweepPcs
<1>2. c \in CallType /\ c.grp = call[s].grp /\ d.pc = "sw_remind" /\ d.n = m.arm
  BY <1>1 DEF CallType, MemberType
<1>3. CASE Await(s, EndOfVisit(c)) /\ UNCHANGED <<heap, audit>>
  BY <1>3, EndOfVisitKept, SameHeapKept, Kept
<1>4. CASE Presence(s) /\ UNCHANGED audit
  BY <1>1, <1>4, PresenceKept, Kept
<1>5. CASE /\ m.eta # None /\ ReminderDue(m, c.now) /\ UNCHANGED audit
           /\ heap' = [heap EXCEPT ![c.grp] = Reminded(m)] /\ Await(s, d)
  <2>1. ~m.reminded /\ call' = [call EXCEPT ![s] = d]
    BY <1>5 DEF ReminderDue, Await
  <2> HIDE DEF c, d
  <2>2. QED
    BY <1>1, <1>2, <1>5, <2>1, RemindInv
<1>6. CASE AlarmCheck(s, c)
  <2> HIDE DEF c
  <2>1. QED
    BY <1>1, <1>2, <1>6, AlarmCheckInv
<1>7. QED
  BY <1>3, <1>4, <1>5, <1>6 DEF SweepVisit

LEMMA SweepInv ==
  ASSUME TypeOK, AnnounceInv, NEW s \in Slots,
         \/ SweepReminded(s) \/ SosNotified(s) \/ SweepNoticed(s) \/ SnapshotSaved(s)
         \/ SweepEnd(s)
  PROVE  AnnounceInv'
<1>1. CASE SweepReminded(s)
  <2>1. s \in Sweeps /\ call[s].pc # "idle" /\ call[s] \in CallType
    BY <1>1, SweepSlot DEF SweepReminded, Resumes, At, SweepPcs
  <2>2. QED
    BY <1>1, <2>1, AlarmCheckInv DEF SweepReminded
<1>2. CASE SosNotified(s)
  <2>1. CallsKept /\ HeapKept
    BY <1>2, PresenceKept, ReturnKept, SameHeapKept DEF SosNotified, Resumes, At
  <2>2. QED
    BY <1>2, <2>1, Kept DEF SosNotified
<1>3. CASE SweepNoticed(s)
  <2>1. s \in Sweeps /\ call[s].pc # "idle"
    BY <1>3, SweepSlot DEF SweepNoticed, Resumes, At, SweepPcs
  <2>2. QED
    BY <1>3, <2>1, OfflineKept, Kept DEF SweepNoticed
<1>4. CASE SnapshotSaved(s)
  BY <1>4, EndOfVisitKept, SameHeapKept, Kept DEF SnapshotSaved
<1>5. CASE SweepEnd(s)
  BY <1>5, ReturnKept, SameHeapKept, Kept DEF SweepEnd
<1>6. QED
  BY <1>1, <1>2, <1>3, <1>4, <1>5

-----------------------------------------------------------------------------
(* Other effects, failures and the environment *)

LEMMA RanKept ==
  ASSUME TypeOK, NEW s \in Slots, NEW d,
         call' = [call EXCEPT ![s] = d], d.pc = call[s].pc,
         call[s].pc \notin {"sos_notify", "sw_remind"}, d.n = call[s].n
  PROVE  CallsKept
BY SlotKept DEF Unannounced, Reminding

\* An operation that takes effect leaves its handler where it is.
LEMMA EffectCall ==
  ASSUME TypeOK, NEW s \in Slots,
         \/ CommitFlag(s) \/ CommitPath(s) \/ CommitLastLocation(s) \/ CommitSnapshot(s)
         \/ CommitClose(s) \/ CommitArrival(s) \/ CommitCreate(s)
         \/ CommitGroupRead(s) \/ CommitTripsRead(s)
  PROVE  \E d : /\ call' = [call EXCEPT ![s] = d]
               /\ d.pc = call[s].pc /\ d.n = call[s].n
<1>0. call[s] \in CallType
  BY StateTyped
<1>1. CASE CommitCreate(s)
  <2>1. PICK t \in Trips : call' = [call EXCEPT ![s].ran = TRUE, ![s].trip = t]
    BY <1>1 DEF CommitCreate
  <2> DEFINE d == [call[s] EXCEPT !.ran = TRUE, !.trip = t]
  <2>2. call' = [call EXCEPT ![s] = d]
    BY <1>0, <2>1 DEF TypeOK, CallType
  <2>3. d.pc = call[s].pc /\ d.n = call[s].n
    BY <1>0 DEF CallType
  <2> HIDE DEF d
  <2>4. QED
    BY <2>2, <2>3
<1>2. CASE CommitGroupRead(s)
  <2> DEFINE d == [call[s] EXCEPT !.ran = TRUE, !.row = row]
  <2>1. call' = [call EXCEPT ![s] = d]
    BY <1>0, <1>2 DEF CommitGroupRead, TypeOK, CallType
  <2>2. d.pc = call[s].pc /\ d.n = call[s].n
    BY <1>0 DEF CallType
  <2> HIDE DEF d
  <2>3. QED
    BY <2>1, <2>2
<1>3. CASE CommitTripsRead(s)
  <2>1. PICK t, e : call' = [call EXCEPT ![s].ran = TRUE, ![s].trip = t, ![s].eta = e]
    BY <1>3 DEF CommitTripsRead
  <2> DEFINE d == [call[s] EXCEPT !.ran = TRUE, !.trip = t, !.eta = e]
  <2>2. call' = [call EXCEPT ![s] = d]
    BY <1>0, <2>1 DEF TypeOK, CallType
  <2>3. d.pc = call[s].pc /\ d.n = call[s].n
    BY <1>0 DEF CallType
  <2> HIDE DEF d
  <2>4. QED
    BY <2>2, <2>3
<1>4. ASSUME NEW pcs, Commit(s, pcs)
      PROVE  call' = [call EXCEPT ![s] = [call[s] EXCEPT !.ran = TRUE]]
  BY <1>4 DEF Commit
<1>5. QED
  BY <1>0, <1>1, <1>2, <1>3, <1>4
  DEF CommitFlag, CommitPath, CommitLastLocation, CommitSnapshot, CommitClose,
      CommitArrival, CallType

LEMMA EffectKept ==
  ASSUME TypeOK, AnnounceInv, NEW s \in Slots,
         \/ CommitFlag(s) \/ CommitPath(s) \/ CommitLastLocation(s) \/ CommitSnapshot(s)
         \/ CommitClose(s) \/ CommitArrival(s) \/ CommitCreate(s)
         \/ CommitGroupRead(s) \/ CommitTripsRead(s)
  PROVE  AnnounceInv'
<1>1. UNCHANGED <<heap, audit>>
  BY DEF CommitFlag, CommitPath, CommitLastLocation, CommitSnapshot, CommitClose,
         CommitArrival, CommitCreate, CommitGroupRead, CommitTripsRead, Commit
<1>2. PICK d : /\ call' = [call EXCEPT ![s] = d]
               /\ d.pc = call[s].pc /\ d.n = call[s].n
  BY EffectCall
<1>3. call[s].pc \notin {"sos_notify", "sw_remind"}
  BY DEF CommitFlag, CommitPath, CommitLastLocation, CommitSnapshot, CommitClose,
         CommitArrival, CommitCreate, CommitGroupRead, CommitTripsRead, Commit, At
<1>4. QED
  BY <1>1, <1>2, <1>3, RanKept, SameHeapKept, Kept

LEMMA FailInv ==
  ASSUME TypeOK, AnnounceInv, NEW s \in Slots, Fail(s)
  PROVE  AnnounceInv'
<1> DEFINE d == IF s \in Sweeps THEN EndOfVisit(call[s]) ELSE NoCall
<1>1. ~Unannounced(d) /\ ~Reminding(d)
  BY DEF EndOfVisit, NoCall, Unannounced, Reminding, SosPcs
<1>2. call' = [call EXCEPT ![s] = d] /\ UNCHANGED <<heap, audit>>
  BY DEF Fail
<1>3. CallsKept
  BY <1>1, <1>2, SlotKept
<1>4. QED
  BY <1>2, <1>3, SameHeapKept, Kept

LEMMA EnvironmentInv ==
  ASSUME TypeOK, AnnounceInv,
         PeerDisconnect \/ Crash \/ Tick \/ \E s \in Sweeps : SweepStart(s)
  PROVE  AnnounceInv'
<1>1. CASE PeerDisconnect \/ Tick
  <2>1. CallsKept
    BY <1>1 DEF PeerDisconnect, Tick, CallsKept
  <2>2. QED
    BY <1>1, <2>1, SameHeapKept, Kept DEF PeerDisconnect, Tick
<1>2. CASE Crash
  <2>1. CallsKept
    BY <1>2 DEF Crash, CallsKept, NoCall, Unannounced, Reminding, SosPcs
  <2>2. 0 <= audit.arms
    BY DEF TypeOK
  <2>3. HeapKept
    BY <1>2, <2>2 DEF Crash, HeapKept, Absent
  <2>4. QED
    BY <1>2, <2>1, <2>3, Kept DEF Crash
<1>3. ASSUME NEW s \in Sweeps, SweepStart(s) PROVE AnnounceInv'
  <2>1. s \in Slots
    BY DEF Slots
  <2>2. CallsKept
    BY <1>3, <2>1, QuietKept DEF SweepStart, NoCall, SosPcs
  <2>3. QED
    BY <1>3, <2>2, SameHeapKept, Kept DEF SweepStart
<1>4. QED
  BY <1>1, <1>2, <1>3

-----------------------------------------------------------------------------
LEMMA InitAnnounce == Init => AnnounceInv
<1> SUFFICES ASSUME Init PROVE AnnounceInv
  OBVIOUS
<1>1. \A s \in Slots : ~Unannounced(call[s]) /\ ~Reminding(call[s])
  BY DEF Init, NoCall, Unannounced, Reminding, SosPcs
<1>2. \A o \in Objs : heap[o].eta = None /\ heap[o].arm = 0
  <2>1. /\ Fresh.eta = None /\ Fresh.arm = 0
        /\ Absent.eta = None /\ Absent.arm = 0
    BY DEF Fresh, Absent
  <2>2. QED
    BY <2>1 DEF Init
<1>3. QED
  BY <1>1, <1>2 DEF Init, Blank, AnnounceInv, NoRepeats, AlarmInv, ReminderInv

LEMMA NextAnnounce == TypeOK /\ AnnounceInv /\ [Next]_vars => AnnounceInv'
<1> SUFFICES ASSUME TypeOK, AnnounceInv, [Next]_vars PROVE AnnounceInv'
  OBVIOUS
<1>1. ASSUME NEW s \in Clients, ClientStarts(s) PROVE AnnounceInv'
  <2>1. s \in Slots
    BY DEF Slots
  <2>2. QED
    BY <1>1, <2>1, ClientKept, Kept, StartSosInv, ExtendTripInv DEF ClientStarts
<1>2. ASSUME NEW s \in Slots, Continue(s) PROVE AnnounceInv'
  BY <1>2, ResumeKept, AttachKept, Kept, TripCreatedInv, SessionBuiltInv, SweepVisitInv,
     SweepInv DEF Continue
<1>3. ASSUME NEW s \in Slots, Effect(s) PROVE AnnounceInv'
  BY <1>3, EffectKept, CommitAlarmInv, CommitReminderInv DEF Effect
<1>4. CASE UNCHANGED vars
  BY <1>4 DEF vars, AnnounceInv, NoRepeats, AlarmInv, ReminderInv
<1>5. QED
  BY <1>1, <1>2, <1>3, <1>4, FailInv, EnvironmentInv DEF Next

\* However many handlers and sweeps overlap, whatever fails and however often
\* the process restarts, the group is alerted at most once for each rise of
\* the SOS and the user reminded at most once for each arming of the reminder.
THEOREM AnnouncedOnce == Spec => []NoRepeats
<1>1. AnnounceInv => NoRepeats
  BY DEF AnnounceInv
<1>2. QED
  BY <1>1, InitTyped, NextTyped, InitAnnounce, NextAnnounce, PTL DEF Spec

-----------------------------------------------------------------------------
(* No alarm is forgotten *)

\* Every rise has been announced or has a handler that still has to.
RisesInv ==
  used.fails = 0 /\ used.crashes = 0 =>
    \A n \in 1..audit.rises :
      \/ n \in audit.alarms
      \/ \E s \in Slots : Unannounced(call[s]) /\ call[s].n = n

\* A step in which no call fails and the process goes on, unless something had
\* failed before.
NoMishap ==
  used'.fails = 0 /\ used'.crashes = 0 => used.fails = 0 /\ used.crashes = 0

SameRises == audit'.rises = audit.rises /\ audit'.alarms = audit.alarms

\* Only slot s moves, and it had nothing to announce.
Idles(s) == ~Unannounced(call[s]) /\ \E d : call' = [call EXCEPT ![s] = d]

LEMMA RisesKept ==
  ASSUME TypeOK, RisesInv, NoMishap, audit'.rises = audit.rises,
         audit.alarms \subseteq audit'.alarms,
         \A t \in Slots : Unannounced(call[t]) =>
           \/ Unannounced(call'[t]) /\ call'[t].n = call[t].n
           \/ call[t].n \in audit'.alarms
  PROVE  RisesInv'
BY DEF RisesInv, NoMishap

LEMMA IdlesKept ==
  ASSUME TypeOK, RisesInv, NoMishap, SameRises, NEW s \in Slots, Idles(s)
  PROVE  RisesInv'
<1>1. \A t \in Slots : Unannounced(call[t]) => call'[t] = call[t]
  BY DEF Idles, TypeOK
<1>2. QED
  BY <1>1, RisesKept DEF SameRises

LEMMA MovesKept ==
  ASSUME TypeOK, RisesInv, NoMishap, SameRises, NEW s \in Slots, NEW d,
         call' = [call EXCEPT ![s] = d], Unannounced(d), d.n = call[s].n
  PROVE  RisesInv'
<1>1. \A t \in Slots : Unannounced(call[t]) => Unannounced(call'[t]) /\ call'[t].n = call[t].n
  BY DEF TypeOK
<1>2. QED
  BY <1>1, RisesKept DEF SameRises

\* startSos: the new rise is announced by the handler that made it.
LEMMA RaiseOwed ==
  ASSUME TypeOK, RisesInv, NoMishap, NEW s \in Slots, ~Unannounced(call[s]),
         NEW c \in CallType, ~AlreadyRaised(heap[cur]), Raise(s, heap, c)
  PROVE  RisesInv'
<1> DEFINE n == audit.rises + 1
           d == [c EXCEPT !.pc = "sos_flag", !.ran = FALSE, !.obj = cur, !.n = n]
<1>1. audit \in AuditType /\ audit.rises \in Nat
  BY DEF TypeOK, AuditType
<1>2. call' = [call EXCEPT ![s] = d] /\ audit' = [audit EXCEPT !.rises = n]
  BY DEF Raise, AlreadyRaised, Await
<1>3. Unannounced(d) /\ d.n = n
  BY DEF CallType, Unannounced, SosPcs
<1>4. audit'.rises = n /\ audit'.alarms = audit.alarms
  BY <1>1, <1>2 DEF AuditType
<1> HIDE DEF d
<1>5. call'[s] = d /\ \A t \in Slots : Unannounced(call[t]) => call'[t] = call[t]
  BY <1>2 DEF TypeOK
<1>6. 1..n = (1..audit.rises) \cup {n}
  BY <1>1
<1>7. QED
  BY <1>3, <1>4, <1>5, <1>6 DEF RisesInv, NoMishap

\* The user's and the peer's clients start handlers; only startSos owes something.
LEMMA StartOwed ==
  ASSUME TypeOK, RisesInv, NEW s \in Slots, ClientStarts(s)
  PROVE  RisesInv'
<1>1. call[s].pc = "idle" /\ used' = [used EXCEPT !.calls = @ + 1]
  BY DEF ClientStarts, UpdateLocation, StartSos, EndSos, StartTrip, ExtendTrip, EndTrip,
         Connect, Disconnect, Control, Issue, At
<1>2. NoMishap
  BY <1>1 DEF TypeOK, NoMishap
<1>3. ~Unannounced(call[s])
  BY <1>1 DEF Unannounced, SosPcs
<1>4. CASE StartSos(s) /\ ~AlreadyRaised(heap[cur])
  BY <1>2, <1>3, <1>4, NoCallTyped, RaiseOwed DEF StartSos
<1>5. CASE ~(StartSos(s) /\ ~AlreadyRaised(heap[cur]))
  <2>1. \E d : call' = [call EXCEPT ![s] = d]
    BY <1>5 DEF ClientStarts, UpdateLocation, LogOrTell, StartSos, EndSos, StartTrip,
                ExtendTrip, EndTrip, Connect, Disconnect, Await, Return
  <2>2. SameRises
    BY <1>5 DEF ClientStarts, UpdateLocation, StartSos, EndSos, StartTrip, ExtendTrip,
                EndTrip, Connect, Disconnect, SameRises, TypeOK
  <2>3. QED
    BY <1>2, <1>3, <2>1, <2>2, IdlesKept DEF Idles
<1>6. QED
  BY <1>4, <1>5

LEMMA PresenceMoves ==
  ASSUME NEW s, Presence(s) \/ \E old \in BOOLEAN : OfflineCheck(s, old)
  PROVE  \E d : call' = [call EXCEPT ![s] = d]
BY DEF Presence, OfflineCheck, Await

LEMMA AlarmCheckOwed ==
  ASSUME TypeOK, RisesInv, UNCHANGED used, NEW s \in Slots, ~Unannounced(call[s]),
         NEW c \in CallType, AlarmCheck(s, c)
  PROVE  RisesInv'
<1>1. NoMishap
  BY DEF NoMishap
<1>2. CASE ~AlreadyRaised(heap[cur]) /\ Raise(s, heap, c)
  BY <1>1, <1>2, RaiseOwed
<1>3. CASE Presence(s) /\ UNCHANGED audit
  BY <1>1, <1>3, PresenceMoves, IdlesKept DEF Idles, SameRises
<1>4. CASE Await(s, EndOfVisit(c)) /\ UNCHANGED audit
  BY <1>1, <1>4, IdlesKept DEF Idles, SameRises, Await
<1>5. QED
  BY <1>2, <1>3, <1>4 DEF AlarmCheck

LEMMA SweepOwed ==
  ASSUME TypeOK, RisesInv, NEW s \in Slots, SweepVisit(s) \/ SweepReminded(s)
  PROVE  RisesInv'
<1>1. ~Unannounced(call[s]) /\ call[s] \in CallType /\ UNCHANGED used /\ NoMishap
  BY StateTyped
  DEF SweepVisit, SweepReminded, Resumes, At, Unannounced, SosPcs, NoMishap
<1>2. CASE SweepReminded(s)
  BY <1>1, <1>2, AlarmCheckOwed DEF SweepReminded
<1>3. CASE SweepVisit(s)
  <2> DEFINE m == heap[call[s].grp]
             c == [call[s] EXCEPT !.eta = m.eta]
  <2>1. s \in Sweeps /\ call[s].grp \in Objs /\ m \in MemberType
    BY <1>3, SweepSlot, StateTyped DEF SweepVisit, At, SweepPcs
  <2>2. c \in CallType
    BY <1>1, <2>1 DEF CallType, MemberType
  <2>3. CASE AlarmCheck(s, c)
    <3> HIDE DEF c
    <3>1. QED
      BY <1>1, <2>2, <2>3, AlarmCheckOwed
  <2>4. CASE Presence(s) /\ UNCHANGED audit
    BY <1>1, <2>4, PresenceMoves, IdlesKept DEF Idles, SameRises
  <2>5. ASSUME NEW d, Await(s, d), UNCHANGED audit PROVE RisesInv'
    BY <1>1, <2>5, IdlesKept DEF Idles, SameRises, Await
  <2>6. QED
    BY <1>3, <2>3, <2>4, <2>5 DEF SweepVisit
<1>4. QED
  BY <1>2, <1>3

\* startSos after its first segment: it goes on until the alarm is sent.
LEMMA SosOwed ==
  ASSUME TypeOK, RisesInv, NEW s \in Slots,
         SosFlagged(s) \/ SosPathSaved(s) \/ SosLogged(s)
  PROVE  RisesInv'
<1>1. call[s] \in CallType /\ NoMishap /\ SameRises
  BY StateTyped DEF SosFlagged, SosPathSaved, SosLogged, NoMishap, SameRises
<1>2. PICK d : call' = [call EXCEPT ![s] = d] /\ Unannounced(d) /\ d.n = call[s].n
  <2> DEFINE p == [call[s] EXCEPT !.pc = "sos_path", !.ran = FALSE,
                                  !.path = heap[call[s].obj].path]
             l == Untracked([call[s] EXCEPT !.pc = "sos_log"])
             a == [call[s] EXCEPT !.pc = "sos_notify", !.ran = FALSE]
  <2>1. /\ Unannounced(p) /\ p.n = call[s].n
        /\ Unannounced(l) /\ l.n = call[s].n
        /\ Unannounced(a) /\ a.n = call[s].n
    BY <1>1 DEF CallType, Untracked, Unannounced, SosPcs
  <2>2. \/ call' = [call EXCEPT ![s] = p] \/ call' = [call EXCEPT ![s] = l]
        \/ call' = [call EXCEPT ![s] = a]
    BY DEF SosFlagged, SosPathSaved, SosLogged, Await
  <2> HIDE DEF p, l, a
  <2>3. QED
    BY <2>1, <2>2
<1>3. QED
  BY <1>1, <1>2, MovesKept

LEMMA ContinueOwed ==
  ASSUME TypeOK, RisesInv, NEW s \in Slots, Continue(s)
  PROVE  RisesInv'
<1>1. CASE SosFlagged(s) \/ SosPathSaved(s) \/ SosLogged(s)
  BY <1>1, SosOwed
<1>2. CASE SweepVisit(s) \/ SweepReminded(s)
  BY <1>2, SweepOwed
<1>3. CASE \/ LocationResumes(s) \/ SafeFlagged(s) \/ SafePathSaved(s) \/ SafeTripClosed(s)
           \/ SafeNotified(s) \/ PreviousTripClosed(s) \/ TripCreated(s) \/ TripExtended(s)
           \/ TripEnded(s) \/ AttachMember(s) \/ BuildSession(s) \/ GroupRead(s)
           \/ SessionBuilt(s) \/ LocationSaved(s) \/ SnapshotSaved(s) \/ SweepEnd(s)
  <2>1. ~Unannounced(call[s])
    BY <1>3
    DEF LocationResumes, SafeFlagged, SafePathSaved, SafeTripClosed, SafeNotified,
        PreviousTripClosed, TripCreated, TripExtended, TripEnded, AttachMember,
        BuildSession, GroupRead, SessionBuilt, LocationSaved, SnapshotSaved, SweepEnd,
        Resumes, At, Unannounced, SosPcs
  <2>2. \E d : call' = [call EXCEPT ![s] = d]
    BY <1>3
    DEF LocationResumes, LogOrTell, SafeFlagged, SafePathSaved, SafeTripClosed,
        SafeNotified, PreviousTripClosed, TripCreated, TripExtended, TripEnded,
        AttachMember, BuildSession, GroupRead, SessionBuilt, LocationSaved,
        SnapshotSaved, SweepEnd, Await, Return
  <2>3. NoMishap /\ SameRises
    BY <1>3
    DEF LocationResumes, SafeFlagged, SafePathSaved, SafeTripClosed, SafeNotified,
        PreviousTripClosed, TripCreated, TripExtended, TripEnded, AttachMember,
        BuildSession, GroupRead, SessionBuilt, LocationSaved, SnapshotSaved, SweepEnd,
        NoMishap, SameRises, TypeOK
  <2>4. QED
    BY <2>1, <2>2, <2>3, IdlesKept DEF Idles
<1>4. CASE SosNotified(s) \/ SweepNoticed(s)
  <2>1. ~Unannounced(call[s])
    BY <1>4 DEF SosNotified, SweepNoticed, Resumes, At, Unannounced, SosPcs
  <2>2. \E d : call' = [call EXCEPT ![s] = d]
    BY <1>4, PresenceMoves DEF SosNotified, SweepNoticed, Return
  <2>3. NoMishap /\ SameRises
    BY <1>4 DEF SosNotified, SweepNoticed, NoMishap, SameRises
  <2>4. QED
    BY <2>1, <2>2, <2>3, IdlesKept DEF Idles
<1>5. QED
  BY <1>1, <1>2, <1>3, <1>4 DEF Continue

LEMMA EffectOwed ==
  ASSUME TypeOK, RisesInv, NEW s \in Slots, Effect(s)
  PROVE  RisesInv'
<1>1. NoMishap
  BY DEF Effect, CommitFlag, CommitPath, CommitLastLocation, CommitSnapshot, CommitClose,
         CommitCreate, CommitArrival, CommitAlarm, CommitReminder, CommitGroupRead,
         CommitTripsRead, Commit, NoMishap
<1>2. audit \in AuditType /\ call[s] \in CallType
  BY StateTyped DEF TypeOK, AuditType
<1>3. CASE CommitAlarm(s)
  <2>1. audit'.alarms = audit.alarms \cup {call[s].n} /\ audit'.rises = audit.rises
    BY <1>2, <1>3 DEF CommitAlarm, AuditType
  <2>2. \A t \in Slots \ {s} : call'[t] = call[t]
    BY <1>3 DEF CommitAlarm, Commit, TypeOK
  <2>3. QED
    BY <1>1, <2>1, <2>2, RisesKept
<1>4. CASE CommitReminder(s)
  <2>1. SameRises
    BY <1>2, <1>4 DEF CommitReminder, AuditType, SameRises
  <2>2. Idles(s)
    BY <1>4 DEF CommitReminder, Commit, Idles, Unannounced, SosPcs
  <2>3. QED
    BY <1>1, <2>1, <2>2, IdlesKept
<1>5. CASE \/ CommitFlag(s) \/ CommitPath(s) \/ CommitLastLocation(s) \/ CommitSnapshot(s)
           \/ CommitClose(s) \/ CommitArrival(s) \/ CommitCreate(s)
           \/ CommitGroupRead(s) \/ CommitTripsRead(s)
  <2>1. PICK d : call' = [call EXCEPT ![s] = d] /\ d.pc = call[s].pc /\ d.n = call[s].n
    BY <1>5, EffectCall
  <2>2. call[s].pc # "sos_notify" /\ SameRises
    BY <1>5 DEF CommitFlag, CommitPath, CommitLastLocation, CommitSnapshot, CommitClose,
                CommitArrival, CommitCreate, CommitGroupRead, CommitTripsRead, Commit, At,
                SameRises
  <2>3. CASE Unannounced(call[s])
    BY <1>1, <2>1, <2>2, <2>3, MovesKept DEF Unannounced
  <2>4. CASE ~Unannounced(call[s])
    BY <1>1, <2>1, <2>2, <2>4, IdlesKept DEF Idles
  <2>5. QED
    BY <2>3, <2>4
<1>6. QED
  BY <1>3, <1>4, <1>5 DEF Effect

LEMMA NextOwed == TypeOK /\ RisesInv /\ [Next]_vars => RisesInv'
<1> SUFFICES ASSUME TypeOK, RisesInv, [Next]_vars PROVE RisesInv'
  OBVIOUS
<1>1. ASSUME NEW s \in Clients, ClientStarts(s) PROVE RisesInv'
  BY <1>1, StartOwed DEF Slots
<1>2. ASSUME NEW s \in Sweeps, SweepStart(s) PROVE RisesInv'
  <2>1. s \in Slots /\ Idles(s)
    BY <1>2 DEF SweepStart, At, Await, Idles, Unannounced, SosPcs, Slots
  <2>2. QED
    BY <1>2, <2>1, IdlesKept DEF SweepStart, NoMishap, SameRises
<1>3. ASSUME NEW s \in Slots, Fail(s) PROVE RisesInv'
  BY <1>3 DEF Fail, RisesInv, TypeOK
<1>4. CASE Crash
  BY <1>4 DEF Crash, RisesInv, TypeOK
<1>5. CASE PeerDisconnect \/ Tick \/ UNCHANGED vars
  BY <1>5 DEF PeerDisconnect, Tick, vars, RisesInv
<1>6. QED
  BY <1>1, <1>2, <1>3, <1>4, <1>5, ContinueOwed, EffectOwed DEF Next

\* Unless an awaited call throws or the process stops, every SOS is announced to
\* the group or has a handler of startSos on its way to announce it, however
\* many handlers and sweeps overlap and whatever session they work on.
THEOREM RisesAreAnnounced == Spec => []NoRiseForgotten
<1>1. RisesInv => NoRiseForgotten
  BY DEF RisesInv, NoRiseForgotten, Unannounced
<1>2. Init => RisesInv
  BY DEF Init, Blank, RisesInv
<1>3. QED
  BY <1>1, <1>2, InitTyped, NextTyped, NextOwed, PTL DEF Spec

-----------------------------------------------------------------------------
(* Trips: a record never holds half a trip and nothing names a trip row that *)
(* does not exist.                                                           *)

HasRow(t) == t # None => trips[t].st # "none"
Coupled(m) == m.trip = None <=> m.eta = None

RecordBound(m) == Coupled(m) /\ HasRow(m.trip)

\* A handler building a session carries a trip and its arrival, as a record.
Building(c) == c.pc \in {"con_member", "con_group", "con_trips"}
CallBound(c) == HasRow(c.trip) /\ (Building(c) => Coupled(c))

\* The arrival a session is built with is the row's, so rows must have one.
RowsTimed == \A t \in Trips : trips[t].st # "none" => trips[t].eta \in Etas

TripInv ==
  /\ \A o \in Objs : RecordBound(heap[o])
  /\ \A s \in Slots : CallBound(call[s])
  /\ RowsTimed

LEMMA TripInvImplies == TypeOK /\ TripInv => CoupledTrip /\ TripRowsExist
BY DEF TripInv, RecordBound, CallBound, HasRow, Coupled, CoupledTrip, TripRowsExist

-----------------------------------------------------------------------------
(* Steps that leave the rows alone: at most one record and one slot change. *)

RecordsKept ==
  \/ UNCHANGED heap
  \/ \E o \in Objs : \E m : RecordBound(m) /\ heap' = [heap EXCEPT ![o] = m]

SlotBound(s) == \E c : CallBound(c) /\ call' = [call EXCEPT ![s] = c]

LEMMA TripInvKept ==
  ASSUME TypeOK, TripInv, UNCHANGED trips, RecordsKept, NEW s \in Slots, SlotBound(s)
  PROVE  TripInv'
<1>1. \A o \in Objs : RecordBound(heap'[o])
  BY DEF TypeOK, TripInv, RecordsKept
<1>2. \A t \in Slots : CallBound(call'[t])
  BY DEF TypeOK, TripInv, SlotBound
<1>3. QED
  BY <1>1, <1>2 DEF TripInv, RecordBound, CallBound, HasRow, Coupled, Building, RowsTimed

LEMMA NoCallBound == CallBound(NoCall)
BY DEF CallBound, HasRow, Building, NoCall

LEMMA ReturnBound ==
  ASSUME NEW s \in Slots, Return(s)
  PROVE  SlotBound(s)
BY NoCallBound DEF Return, SlotBound

LEMMA AwaitBound ==
  ASSUME NEW s \in Slots, NEW c, Await(s, c), CallBound(c)
  PROVE  SlotBound(s)
BY DEF Await, SlotBound

LEMMA RecordBoundKept ==
  ASSUME NEW o \in Objs, NEW m, RecordBound(m), heap' = [heap EXCEPT ![o] = m]
  PROVE  RecordsKept
BY DEF RecordsKept

\* Most handlers change other fields of the record.
LEMMA OtherFields ==
  ASSUME TypeOK, TripInv, NEW o \in Objs, NEW m, heap' = [heap EXCEPT ![o] = m],
         m.trip = heap[o].trip, m.eta = heap[o].eta
  PROVE  RecordsKept
<1>1. RecordBound(m)
  BY DEF TripInv, RecordBound, Coupled
<1>2. QED
  BY <1>1, RecordBoundKept

LEMMA RowOf ==
  ASSUME TypeOK, TripInv, NEW o \in Objs
  PROVE  HasRow(heap[o].trip)
BY DEF TripInv, RecordBound

-----------------------------------------------------------------------------
(* Client handlers *)

LEMMA UpdateLocationTrip ==
  ASSUME TypeOK, TripInv, NEW s \in Slots, NEW l \in Locs, UpdateLocation(s, l)
  PROVE  TripInv'
<1> DEFINE m == Located(heap[cur], l)
<1>1. cur \in Objs /\ heap[cur] \in MemberType
  BY CurTyped DEF UpdateLocation
<1>2. m.trip = heap[cur].trip /\ m.eta = heap[cur].eta
  BY <1>1 DEF Located, MemberType
<1>3. heap' = [heap EXCEPT ![cur] = m] /\ UNCHANGED trips
  BY DEF UpdateLocation
<1>4. SlotBound(s)
  BY AwaitBound, ReturnBound
  DEF UpdateLocation, LogOrTell, Untracked, NoCall, CallBound, HasRow, Building
<1> HIDE DEF m
<1>5. RecordsKept
  BY <1>1, <1>2, <1>3, OtherFields
<1>6. QED
  BY <1>3, <1>4, <1>5, TripInvKept

\* The first segment of startSos, of a client or of a sweep in slot s.
LEMMA RaiseTrip ==
  ASSUME TypeOK, TripInv, NEW s \in Slots, NEW c \in CallType, HasRow(c.trip),
         RequireMember, Raise(s, heap, c), UNCHANGED trips
  PROVE  TripInv'
<1>1. cur \in Objs /\ heap[cur] \in MemberType
  BY CurTyped
<1>2. PICK n : /\ heap' = [heap EXCEPT ![cur] = Raised(heap[cur], n)]
               /\ Await(s, [c EXCEPT !.pc = "sos_flag", !.ran = FALSE, !.obj = cur, !.n = n])
  BY DEF Raise
<1>3. SlotBound(s)
  BY <1>2, AwaitBound DEF CallType, CallBound, HasRow, Building
<1> DEFINE m == Raised(heap[cur], n)
<1>4. m.trip = heap[cur].trip /\ m.eta = heap[cur].eta
  BY <1>1 DEF Raised, MemberType
<1>5. heap' = [heap EXCEPT ![cur] = m]
  BY <1>2
<1> HIDE DEF m
<1>6. QED
  BY <1>1, <1>3, <1>4, <1>5, OtherFields, TripInvKept

LEMMA StartSosTrip ==
  ASSUME TypeOK, TripInv, NEW s \in Slots, StartSos(s)
  PROVE  TripInv'
<1>1. CASE AlreadyRaised(heap[cur])
  BY <1>1, ReturnBound, TripInvKept DEF StartSos, RecordsKept
<1>2. CASE ~AlreadyRaised(heap[cur])
  <2>1. HasRow(NoCall.trip)
    BY DEF NoCall, HasRow
  <2>2. QED
    BY <1>2, <2>1, NoCallTyped, RaiseTrip DEF StartSos, Control
<1>3. QED
  BY <1>1, <1>2

LEMMA EndSosTrip ==
  ASSUME TypeOK, TripInv, NEW s \in Slots, EndSos(s)
  PROVE  TripInv'
<1> DEFINE m == [heap[cur] EXCEPT !.sos = FALSE, !.path = <<>>]
<1>1. cur \in Objs /\ heap[cur] \in MemberType
  BY CurTyped DEF EndSos, Control
<1>2. m.trip = heap[cur].trip /\ m.eta = heap[cur].eta
  BY <1>1 DEF MemberType
<1>3. heap' = heap \/ heap' = [heap EXCEPT ![cur] = m]
  BY <1>1 DEF EndSos, TypeOK, MemberType
<1>4. SlotBound(s)
  BY AwaitBound, ReturnBound DEF EndSos, NoCall, CallBound, HasRow, Building
<1> HIDE DEF m
<1>5. RecordsKept
  BY <1>1, <1>2, <1>3, OtherFields DEF RecordsKept
<1>6. QED
  BY <1>4, <1>5, TripInvKept DEF EndSos

\* startTrip and endTrip hold the id of the record's trip: it has a row.
LEMMA StartTripTrip ==
  ASSUME TypeOK, TripInv, NEW s \in Slots, NEW eta \in Etas, StartTrip(s, eta)
  PROVE  TripInv'
<1>1. HasRow(heap[cur].trip)
  BY CurTyped, RowOf DEF StartTrip, Control
<1>2. SlotBound(s)
  BY <1>1, AwaitBound DEF StartTrip, NoCall, CallBound, HasRow, Building
<1>3. QED
  BY <1>2, TripInvKept DEF StartTrip, RecordsKept

LEMMA EndTripTrip ==
  ASSUME TypeOK, TripInv, NEW s \in Slots, EndTrip(s)
  PROVE  TripInv'
<1>1. HasRow(heap[cur].trip)
  BY CurTyped, RowOf DEF EndTrip, Control
<1>2. SlotBound(s)
  BY <1>1, AwaitBound DEF EndTrip, NoCall, CallBound, HasRow, Building
<1>3. QED
  BY <1>2, TripInvKept DEF EndTrip, RecordsKept

LEMMA ExtendTripTrip ==
  ASSUME TypeOK, TripInv, NEW s \in Slots, NEW eta \in Etas, ExtendTrip(s, eta)
  PROVE  TripInv'
<1> DEFINE m == Armed([heap[cur] EXCEPT !.eta = eta], audit.arms + 1)
<1>1. cur \in Objs /\ heap[cur] \in MemberType /\ HasRow(heap[cur].trip)
  BY CurTyped, RowOf DEF ExtendTrip, Control
<1>2. m.trip = heap[cur].trip /\ m.eta = eta /\ heap[cur].trip # None /\ eta # None
  BY <1>1, NoneAssumption DEF Armed, MemberType, ExtendTrip
<1>3. heap' = [heap EXCEPT ![cur] = m] /\ UNCHANGED trips
  BY DEF ExtendTrip
<1>4. SlotBound(s)
  BY <1>1, AwaitBound DEF ExtendTrip, NoCall, CallBound, HasRow, Building
<1> HIDE DEF m
<1>5. RecordsKept
  BY <1>1, <1>2, <1>3, RecordBoundKept DEF RecordBound, Coupled
<1>6. QED
  BY <1>3, <1>4, <1>5, TripInvKept

LEMMA ConnectTrip ==
  ASSUME TypeOK, TripInv, NEW s \in Slots, NEW self \in BOOLEAN, NEW l \in Maybe(Locs),
         Connect(s, self, l)
  PROVE  TripInv'
<1>1. SlotBound(s)
  BY AwaitBound DEF Connect, Untracked, NoCall, CallBound, HasRow, Coupled
<1>2. QED
  BY <1>1, TripInvKept DEF Connect, RecordsKept

LEMMA DisconnectTrip ==
  ASSUME TypeOK, TripInv, NEW s \in Slots, Disconnect(s)
  PROVE  TripInv'
<1>1. SlotBound(s)
  BY AwaitBound, ReturnBound DEF Disconnect, NoCall, CallBound, HasRow, Building
<1>2. RecordsKept
  <2>1. CASE ~RequireMember
    BY <2>1 DEF Disconnect, RecordsKept
  <2>2. CASE RequireMember
    <3> DEFINE m == [heap[cur] EXCEPT !.socket = FALSE]
    <3>1. cur \in Objs /\ heap[cur] \in MemberType
      BY <2>2, CurTyped
    <3>2. m.trip = heap[cur].trip /\ m.eta = heap[cur].eta
      BY <3>1 DEF MemberType
    <3>3. heap' = [heap EXCEPT ![cur] = m]
      BY <2>2 DEF Disconnect
    <3> HIDE DEF m
    <3>4. QED
      BY <3>1, <3>2, <3>3, OtherFields
  <2>3. QED
    BY <2>1, <2>2
<1>3. QED
  BY <1>1, <1>2, TripInvKept DEF Disconnect

-----------------------------------------------------------------------------
(* Segments that resume after a client's awaited operation *)

LEMMA ResumeTrip ==
  ASSUME TypeOK, TripInv, NEW s \in Slots,
         \/ LocationResumes(s) \/ SosFlagged(s) \/ SosPathSaved(s) \/ SosLogged(s)
         \/ SafeFlagged(s) \/ SafeNotified(s) \/ PreviousTripClosed(s)
         \/ TripExtended(s) \/ BuildSession(s) \/ GroupRead(s) \/ LocationSaved(s)
  PROVE  TripInv'
<1>0. call[s] \in CallType /\ CallBound(call[s])
  BY StateTyped DEF TripInv
<1>1. RecordsKept /\ UNCHANGED trips
  BY DEF RecordsKept, LocationResumes, SosFlagged, SosPathSaved, SosLogged, SafeFlagged,
         SafeNotified, PreviousTripClosed, TripExtended, BuildSession, GroupRead,
         LocationSaved
<1>2. SlotBound(s)
  <2>1. CASE LocationResumes(s)
    BY <1>0, <2>1, AwaitBound, ReturnBound
    DEF LocationResumes, LogOrTell, Untracked, CallType, CallBound, HasRow, Building
  <2>2. CASE SosFlagged(s) \/ SosPathSaved(s) \/ SosLogged(s)
    BY <1>0, <2>2, AwaitBound
    DEF SosFlagged, SosPathSaved, SosLogged, Untracked, CallType, CallBound, HasRow,
        Building
  <2>3. CASE SafeFlagged(s)
    BY <1>0, <2>3, AwaitBound DEF SafeFlagged, CallType, CallBound, HasRow, Building
  <2>4. CASE PreviousTripClosed(s)
    BY <1>0, <2>4, AwaitBound DEF PreviousTripClosed, CallType, CallBound, HasRow, Building
  <2>5. CASE SafeNotified(s) \/ TripExtended(s) \/ LocationSaved(s)
    BY <2>5, ReturnBound DEF SafeNotified, TripExtended, LocationSaved
  <2>6. CASE BuildSession(s) \/ GroupRead(s)
    BY <1>0, <2>6, AwaitBound
    DEF BuildSession, GroupRead, Resumes, At, CallType, CallBound, HasRow, Building, Coupled
  <2>7. QED
    BY <2>1, <2>2, <2>3, <2>4, <2>5, <2>6
<1>3. QED
  BY <1>1, <1>2, TripInvKept

\* endSos takes the trip of its record at this point.
LEMMA SafePathSavedTrip ==
  ASSUME TypeOK, TripInv, NEW s \in Slots, SafePathSaved(s)
  PROVE  TripInv'
<1>1. /\ call[s] \in CallType /\ CallBound(call[s])
      /\ call[s].obj \in Objs
  BY StateTyped DEF TripInv, SafePathSaved, Resumes, At, CallOK, SafePcs
<1>2. HasRow(heap[call[s].obj].trip)
  BY <1>1, RowOf
<1>3. SlotBound(s)
  BY <1>1, <1>2, AwaitBound
  DEF SafePathSaved, Untracked, CallType, CallBound, HasRow, Building
<1>4. QED
  BY <1>3, TripInvKept DEF SafePathSaved, RecordsKept

\* resetTrip drops id and arrival together, whichever trip was closed.
LEMMA ResetTripTrip ==
  ASSUME TypeOK, TripInv, NEW s \in Slots, SafeTripClosed(s) \/ TripEnded(s)
  PROVE  TripInv'
<1> DEFINE o == call[s].obj
           m == ResetTrip(heap[o])
<1>1. call[s] \in CallType /\ CallBound(call[s])
  BY StateTyped DEF TripInv
<1>2. o \in Objs /\ heap[o] \in MemberType
  BY StateTyped DEF SafeTripClosed, TripEnded, Resumes, At, CallOK, SafePcs, TripPcs
<1>3. m.trip = None /\ m.eta = None
  BY <1>2 DEF ResetTrip, MemberType
<1>4. heap' = [heap EXCEPT ![o] = m] /\ UNCHANGED trips
  BY DEF SafeTripClosed, TripEnded
<1>5. SlotBound(s)
  BY <1>1, AwaitBound, ReturnBound
  DEF SafeTripClosed, TripEnded, Untracked, CallType, CallBound, HasRow, Building
<1> HIDE DEF m
<1>6. RecordsKept
  BY <1>2, <1>3, <1>4, RecordBoundKept DEF RecordBound, Coupled, HasRow
<1>7. QED
  BY <1>4, <1>5, <1>6, TripInvKept

\* The record takes the trip its handler created, with the arrival it asked for.
LEMMA TripCreatedTrip ==
  ASSUME TypeOK, TripInv, NEW s \in Slots, TripCreated(s)
  PROVE  TripInv'
<1> DEFINE c == call[s]
           m == Armed([heap[c.obj] EXCEPT !.trip = c.trip, !.eta = c.eta], audit.arms + 1)
<1>1. c.obj \in Objs /\ c.trip \in Trips /\ c.eta \in Etas /\ HasRow(c.trip)
  BY StateTyped DEF TripInv, CallBound, TripCreated, Resumes, At, CallOK, TripPcs
<1>2. heap[c.obj] \in MemberType
  BY <1>1, StateTyped
<1>3. m.trip = c.trip /\ m.eta = c.eta /\ c.trip # None /\ c.eta # None
  BY <1>1, <1>2, NoneAssumption DEF Armed, MemberType
<1>4. heap' = [heap EXCEPT ![c.obj] = m] /\ UNCHANGED trips
  BY DEF TripCreated
<1>5. SlotBound(s)
  BY ReturnBound DEF TripCreated
<1> HIDE DEF m
<1>6. RecordsKept
  BY <1>1, <1>3, <1>4, RecordBoundKept DEF RecordBound, Coupled
<1>7. QED
  BY <1>4, <1>5, <1>6, TripInvKept

LEMMA AttachMemberTrip ==
  ASSUME TypeOK, TripInv, NEW s \in Slots, AttachMember(s)
  PROVE  TripInv'
<1> DEFINE c == call[s]
           m == IF ~c.self THEN heap[cur]
                ELSE IF heap[cur].in THEN Attached(heap[cur], c.loc)
                ELSE Newcomer(c.loc)
<1>1. cur \in Objs /\ heap[cur] \in MemberType /\ RecordBound(heap[cur])
  BY StateTyped DEF AttachMember, TripInv
<1>2. \/ m.trip = heap[cur].trip /\ m.eta = heap[cur].eta
      \/ m.trip = None /\ m.eta = None
  BY <1>1 DEF Attached, Newcomer, Fresh, Absent, MemberType
<1>3. RecordBound(m)
  BY <1>1, <1>2 DEF RecordBound, Coupled, HasRow
<1>4. heap' = [heap EXCEPT ![cur] = m] /\ UNCHANGED trips
  BY DEF AttachMember
<1>5. SlotBound(s)
  BY NoCallBound DEF AttachMember, SlotBound
<1> HIDE DEF m
<1>6. QED
  BY <1>1, <1>3, <1>4, <1>5, RecordBoundKept, TripInvKept

LEMMA SessionBuiltTrip ==
  ASSUME TypeOK, TripInv, NEW s \in Slots, SessionBuilt(s)
  PROVE  TripInv'
<1>1. CallBound(call[s]) /\ Building(call[s])
  BY DEF TripInv, SessionBuilt, Resumes, At, Building
<1> DEFINE n == IF call[s].eta = None THEN audit.arms ELSE audit.arms + 1
<1>2. PICK o \in Objs :
        heap' = [heap EXCEPT ![o] = IF Restored(call[s], n).in THEN Restored(call[s], n)
                                    ELSE Absent]
  BY DEF SessionBuilt, InUse
<1> DEFINE m == IF Restored(call[s], n).in THEN Restored(call[s], n) ELSE Absent
<1>3. \/ m.trip = call[s].trip /\ m.eta = call[s].eta
      \/ m.trip = None /\ m.eta = None
  BY DEF Restored, RestoredParts, Absent
<1>4. RecordBound(m)
  BY <1>1, <1>3 DEF CallBound, RecordBound, Coupled, HasRow
<1>5. SlotBound(s) /\ UNCHANGED trips
  BY NoCallBound DEF SessionBuilt, SlotBound
<1>6. heap' = [heap EXCEPT ![o] = m]
  BY <1>2
<1> HIDE DEF m
<1>7. QED
  BY <1>4, <1>5, <1>6, RecordBoundKept, TripInvKept

-----------------------------------------------------------------------------
(* The sweep *)

LEMMA EndOfVisitBound ==
  ASSUME NEW s \in Slots, NEW c, Await(s, EndOfVisit(c))
  PROVE  SlotBound(s)
BY AwaitBound DEF EndOfVisit, NoCall, CallBound, HasRow, Building

LEMMA OfflineBound ==
  ASSUME TypeOK, TripInv, NEW s \in Sweeps, call[s].pc # "idle", NEW old \in BOOLEAN,
         OfflineCheck(s, old)
  PROVE  SlotBound(s) /\ RecordsKept
<1> DEFINE c == call[s]
           m == heap[c.grp]
           n == [m EXCEPT !.offline = TRUE]
<1>1. s \in Slots /\ c.grp \in Objs /\ m \in MemberType
  BY StateTyped DEF Slots, CallOK
<1>2. n.trip = m.trip /\ n.eta = m.eta
  BY <1>1 DEF MemberType
<1>3. SlotBound(s)
  BY <1>1, AwaitBound DEF OfflineCheck, EndOfVisit, NoCall, CallBound, HasRow, Building
<1>4. heap' = heap \/ heap' = [heap EXCEPT ![c.grp] = n]
  BY <1>1 DEF OfflineCheck
<1> HIDE DEF n
<1>5. RecordsKept
  BY <1>1, <1>2, <1>4, OtherFields DEF RecordsKept
<1>6. QED
  BY <1>3, <1>5

LEMMA PresenceBound ==
  ASSUME TypeOK, TripInv, NEW s \in Sweeps, call[s].pc # "idle", Presence(s)
  PROVE  SlotBound(s) /\ RecordsKept
<1> DEFINE c == call[s]
           m == heap[c.grp]
           n == [m EXCEPT !.inactive = TRUE]
           d == Untracked([EndOfVisit(c) EXCEPT !.pc = "sw_inactive"])
<1>1. s \in Slots /\ c.grp \in Objs /\ m \in MemberType
  BY StateTyped DEF Slots, CallOK
<1>2. n.trip = m.trip /\ n.eta = m.eta
  BY <1>1 DEF MemberType
<1>3. CallBound(d)
  BY DEF EndOfVisit, NoCall, Untracked, CallBound, HasRow, Building
<1>4. CASE heap' = heap /\ Await(s, EndOfVisit(c))
  BY <1>1, <1>4, EndOfVisitBound DEF RecordsKept
<1>5. CASE heap' = [heap EXCEPT ![c.grp] = n] /\ Await(s, d)
  <2> HIDE DEF n, d
  <2>1. QED
    BY <1>1, <1>2, <1>3, <1>5, AwaitBound, OtherFields
<1>6. CASE \E old \in BOOLEAN : OfflineCheck(s, old)
  BY <1>6, OfflineBound
<1>7. QED
  BY <1>1, <1>4, <1>5, <1>6 DEF Presence

LEMMA AlarmCheckTrip ==
  ASSUME TypeOK, TripInv, NEW s \in Sweeps, call[s].pc # "idle", UNCHANGED trips,
         NEW c \in CallType, HasRow(c.trip), AlarmCheck(s, c)
  PROVE  TripInv'
<1>1. s \in Slots
  BY DEF Slots
<1>2. CASE Presence(s)
  BY <1>1, <1>2, PresenceBound, TripInvKept
<1>3. CASE Await(s, EndOfVisit(c)) /\ UNCHANGED heap
  BY <1>1, <1>3, EndOfVisitBound, TripInvKept DEF RecordsKept
<1>4. CASE RequireMember /\ Raise(s, heap, c)
  BY <1>1, <1>4, RaiseTrip
<1>5. QED
  BY <1>2, <1>3, <1>4 DEF AlarmCheck

LEMMA SweepVisitTrip ==
  ASSUME TypeOK, TripInv, NEW s \in Slots, SweepVisit(s)
  PROVE  TripInv'
<1> DEFINE m == heap[call[s].grp]
           c == [call[s] EXCEPT !.eta = m.eta]
           d == [c EXCEPT !.pc = "sw_remind", !.n = m.arm]
           r == Reminded(m)
<1>1. /\ s \in Sweeps /\ call[s].pc = "sw_visit" /\ UNCHANGED trips
      /\ call[s] \in CallType /\ CallBound(call[s])
      /\ call[s].grp \in Objs /\ m \in MemberType
  BY SweepSlot, StateTyped DEF SweepVisit, At, SweepPcs, TripInv
<1>2. c \in CallType /\ c.grp = call[s].grp /\ HasRow(c.trip) /\ CallBound(d)
  BY <1>1 DEF CallType, MemberType, CallBound, HasRow, Building
<1>3. CASE Await(s, EndOfVisit(c)) /\ UNCHANGED heap
  BY <1>1, <1>3, EndOfVisitBound, TripInvKept DEF RecordsKept
<1>4. CASE Presence(s)
  BY <1>1, <1>4, PresenceBound, TripInvKept
<1>5. CASE heap' = [heap EXCEPT ![c.grp] = r] /\ Await(s, d)
  <2>1. r.trip = m.trip /\ r.eta = m.eta
    BY <1>1 DEF Reminded, MemberType
  <2> HIDE DEF c, d, r
  <2>2. QED
    BY <1>1, <1>2, <1>5, <2>1, AwaitBound, OtherFields, TripInvKept
<1>6. CASE AlarmCheck(s, c)
  <2> HIDE DEF c
  <2>1. QED
    BY <1>1, <1>2, <1>6, AlarmCheckTrip
<1>7. QED
  BY <1>3, <1>4, <1>5, <1>6 DEF SweepVisit

LEMMA SweepTrip ==
  ASSUME TypeOK, TripInv, NEW s \in Slots,
         \/ SweepReminded(s) \/ SosNotified(s) \/ SweepNoticed(s) \/ SnapshotSaved(s)
         \/ SweepEnd(s)
  PROVE  TripInv'
<1>1. CASE SweepReminded(s)
  <2>1. /\ s \in Sweeps /\ call[s].pc # "idle" /\ call[s] \in CallType
        /\ HasRow(call[s].trip)
    BY <1>1, SweepSlot DEF SweepReminded, Resumes, At, SweepPcs, TripInv, CallBound
  <2>2. QED
    BY <1>1, <2>1, AlarmCheckTrip DEF SweepReminded
<1>2. CASE SosNotified(s)
  BY <1>2, PresenceBound, ReturnBound, TripInvKept DEF SosNotified, Resumes, At, RecordsKept
<1>3. CASE SweepNoticed(s)
  <2>1. s \in Sweeps /\ call[s].pc # "idle"
    BY <1>3, SweepSlot DEF SweepNoticed, Resumes, At, SweepPcs
  <2>2. QED
    BY <1>3, <2>1, OfflineBound, TripInvKept DEF SweepNoticed
<1>4. CASE SnapshotSaved(s)
  BY <1>4, EndOfVisitBound, TripInvKept DEF SnapshotSaved, RecordsKept
<1>5. CASE SweepEnd(s)
  BY <1>5, ReturnBound, TripInvKept DEF SweepEnd, RecordsKept
<1>6. QED
  BY <1>1, <1>2, <1>3, <1>4, <1>5

-----------------------------------------------------------------------------
(* Awaited operations taking effect: only these change the rows. *)

RowsGrow == \A t \in Trips : trips[t].st # "none" => trips'[t].st # "none"

HasRowNext(t) == t # None => trips'[t].st # "none"

LEMMA Grown ==
  ASSUME TypeOK, TripInv, UNCHANGED heap, RowsGrow, RowsTimed',
         NEW s \in Slots, NEW c, call' = [call EXCEPT ![s] = c],
         HasRowNext(c.trip), Building(c) => Coupled(c)
  PROVE  TripInv'
<1>1. /\ \A o \in Objs : heap[o].trip \in Maybe(Trips)
      /\ \A t \in Slots : call[t].trip \in Maybe(Trips)
  BY StateTyped DEF MemberType, CallType
<1>2. \A o \in Objs : Coupled(heap[o]) /\ HasRowNext(heap[o].trip)
  BY <1>1 DEF TripInv, RecordBound, HasRow, HasRowNext, RowsGrow, Maybe
<1>3. \A t \in Slots : HasRowNext(call[t].trip) /\ (Building(call[t]) => Coupled(call[t]))
  BY <1>1 DEF TripInv, CallBound, HasRow, HasRowNext, RowsGrow, Maybe
<1>4. \A t \in Slots : call'[t] = IF t = s THEN c ELSE call[t]
  BY DEF TypeOK
<1>5. \A t \in Slots :
        HasRowNext(call'[t].trip) /\ (Building(call'[t]) => Coupled(call'[t]))
  BY <1>3, <1>4
<1>6. QED
  BY <1>2, <1>5
  DEF TripInv, CallBound, RecordBound, HasRow, HasRowNext, Coupled, Building

\* Effects outside the trip rows.
LEMMA OtherEffects ==
  ASSUME TypeOK, TripInv, NEW s \in Slots,
         \/ CommitFlag(s) \/ CommitPath(s) \/ CommitLastLocation(s) \/ CommitSnapshot(s)
         \/ CommitAlarm(s) \/ CommitReminder(s) \/ CommitGroupRead(s)
  PROVE  TripInv'
<1>1. call[s] \in CallType /\ CallBound(call[s])
  BY StateTyped DEF TripInv
<1>2. UNCHANGED trips /\ RecordsKept
  BY DEF RecordsKept, CommitFlag, CommitPath, CommitLastLocation, CommitSnapshot,
         CommitAlarm, CommitReminder, CommitGroupRead, Commit
<1>3. CASE CommitGroupRead(s)
  <2>1. call' = [call EXCEPT ![s] = [call[s] EXCEPT !.ran = TRUE, !.row = row]]
    BY <1>1, <1>3 DEF CommitGroupRead, TypeOK
  <2>2. CallBound([call[s] EXCEPT !.ran = TRUE, !.row = row])
    BY <1>1 DEF CallType, CallBound, HasRow, Building, Coupled
  <2>3. QED
    BY <1>2, <2>1, <2>2, TripInvKept DEF SlotBound
<1>4. CASE ~CommitGroupRead(s)
  <2>1. call' = [call EXCEPT ![s] = [call[s] EXCEPT !.ran = TRUE]]
    BY <1>1, <1>4 DEF CommitFlag, CommitPath, CommitLastLocation, CommitSnapshot,
                      CommitAlarm, CommitReminder, Commit, TypeOK
  <2>2. CallBound([call[s] EXCEPT !.ran = TRUE])
    BY <1>1 DEF CallType, CallBound, HasRow, Building, Coupled
  <2>3. QED
    BY <1>2, <2>1, <2>2, TripInvKept DEF SlotBound
<1>5. QED
  BY <1>3, <1>4

\* closeTrip and extendTrip update the row of a trip that a record named.
LEMMA UpdateTrip ==
  ASSUME TypeOK, TripInv, NEW s \in Slots, CommitClose(s) \/ CommitArrival(s)
  PROVE  TripInv'
<1> DEFINE t == call[s].trip
           c == [call[s] EXCEPT !.ran = TRUE]
<1>1. /\ call[s] \in CallType /\ t \in Trips /\ t # None
      /\ call[s].pc \in {"trip_close", "safe_trip", "end_close", "ext_eta"}
      /\ call[s].pc = "ext_eta" => call[s].eta \in Etas
  BY StateTyped, NoneAssumption DEF CommitClose, CommitArrival, Commit, At, CallOK
<1>2. trips[t].st # "none" /\ trips[t].eta \in Etas
  BY <1>1 DEF TripInv, CallBound, HasRow, RowsTimed
<1>3. \A u \in Trips : trips[u] \in TripType
  BY DEF TypeOK
<1>4. /\ UNCHANGED heap
      /\ \A u \in Trips \ {t} : trips'[u] = trips[u]
      /\ trips'[t].st # "none" /\ trips'[t].eta \in Etas
  <2>1. CASE CommitClose(s)
    BY <1>1, <1>2, <1>3, <2>1 DEF CommitClose, Commit, TypeOK, TripType
  <2>2. CASE CommitArrival(s)
    BY <1>1, <1>2, <1>3, <2>2 DEF CommitArrival, Commit, TypeOK, TripType
  <2>3. QED
    BY <2>1, <2>2
<1>5. call' = [call EXCEPT ![s] = c]
  BY <1>1 DEF CommitClose, CommitArrival, Commit, TypeOK
<1>6. c.trip = t /\ ~Building(c)
  BY <1>1 DEF CallType, Building
<1>7. HasRowNext(c.trip)
  BY <1>4, <1>6 DEF HasRowNext
<1>8. RowsGrow /\ RowsTimed'
  BY <1>1, <1>4 DEF RowsGrow, RowsTimed, TripInv
<1> HIDE DEF c
<1>9. QED
  BY <1>1, <1>4, <1>5, <1>6, <1>7, <1>8, Grown

LEMMA CommitCreateTrip ==
  ASSUME TypeOK, TripInv, NEW s \in Slots, CommitCreate(s)
  PROVE  TripInv'
<1>1. call[s] \in CallType /\ call[s].eta \in Etas /\ call[s].pc = "trip_create"
  BY StateTyped DEF CommitCreate, At, CallOK
<1>2. PICK t \in Trips :
        /\ trips' = [trips EXCEPT ![t] = [st |-> "ACTIVE", eta |-> call[s].eta]]
        /\ call' = [call EXCEPT ![s].ran = TRUE, ![s].trip = t]
  BY DEF CommitCreate
<1> DEFINE c == [call[s] EXCEPT !.ran = TRUE, !.trip = t]
<1>3. call' = [call EXCEPT ![s] = c]
  BY <1>1, <1>2 DEF TypeOK, CallType
<1>4. c.trip = t /\ ~Building(c)
  BY <1>1 DEF CallType, Building
<1>5. \A u \in Trips :
        IF u = t THEN trips'[u].st = "ACTIVE" /\ trips'[u].eta \in Etas
        ELSE trips'[u] = trips[u]
  BY <1>1, <1>2 DEF TypeOK
<1>6. HasRowNext(c.trip) /\ RowsGrow /\ RowsTimed'
  BY <1>4, <1>5 DEF HasRowNext, RowsGrow, RowsTimed, TripInv
<1> HIDE DEF c
<1>7. QED
  BY <1>3, <1>4, <1>6, Grown DEF CommitCreate

\* The rows are read together: an ACTIVE trip comes with its arrival.
LEMMA CommitTripsReadTrip ==
  ASSUME TypeOK, TripInv, NEW s \in Slots, CommitTripsRead(s)
  PROVE  TripInv'
<1>1. call[s] \in CallType
  BY StateTyped
<1>2. PICK t \in Maybe(ActiveTrips) :
        call' = [call EXCEPT ![s].ran = TRUE, ![s].trip = t,
                             ![s].eta = IF t = None THEN None ELSE trips[t].eta]
  BY DEF CommitTripsRead, Maybe
<1> DEFINE e == IF t = None THEN None ELSE trips[t].eta
           c == [call[s] EXCEPT !.ran = TRUE, !.trip = t, !.eta = e]
<1>3. call' = [call EXCEPT ![s] = c]
  BY <1>1, <1>2 DEF TypeOK, CallType
<1>4. c.trip = t /\ c.eta = e
  BY <1>1 DEF CallType
<1>5. t # None => t \in Trips /\ trips[t].st = "ACTIVE" /\ trips[t].eta \in Etas
  BY <1>2 DEF ActiveTrips, Maybe, TripInv, RowsTimed
<1>6. CallBound(c)
  BY <1>4, <1>5, NoneAssumption DEF CallBound, HasRow, Coupled
<1> HIDE DEF c
<1>7. QED
  BY <1>3, <1>6, TripInvKept DEF CommitTripsRead, SlotBound, RecordsKept

LEMMA FailTrip ==
  ASSUME TypeOK, TripInv, NEW s \in Slots, Fail(s)
  PROVE  TripInv'
<1>1. CallBound(EndOfVisit(call[s])) /\ CallBound(NoCall)
  BY NoCallBound DEF EndOfVisit, NoCall, CallBound, HasRow, Building
<1>2. SlotBound(s)
  BY <1>1 DEF Fail, SlotBound, TypeOK
<1>3. QED
  BY <1>2, TripInvKept DEF Fail, RecordsKept

\* A restart forgets memory and handlers and keeps the rows.
LEMMA CrashTrip ==
  ASSUME TypeOK, TripInv, Crash
  PROVE  TripInv'
<1>1. RecordBound(Absent) /\ CallBound(NoCall)
  BY NoCallBound DEF RecordBound, Coupled, HasRow, Absent
<1>2. /\ \A o \in Objs : heap'[o] = Absent
      /\ \A s \in Slots : call'[s] = NoCall
      /\ UNCHANGED trips
  BY DEF Crash
<1>3. QED
  BY <1>1, <1>2 DEF TripInv, RecordBound, CallBound, HasRow, Coupled, Building, RowsTimed

LEMMA SweepStartTrip ==
  ASSUME TypeOK, TripInv, NEW s \in Slots, SweepStart(s)
  PROVE  TripInv'
<1>1. SlotBound(s)
  BY AwaitBound DEF SweepStart, NoCall, CallBound, HasRow, Building
<1>2. QED
  BY <1>1, TripInvKept DEF SweepStart, RecordsKept

-----------------------------------------------------------------------------
LEMMA InitTrip == Init => TripInv
<1> SUFFICES ASSUME Init PROVE TripInv
  OBVIOUS
<1>1. RecordBound(Absent) /\ RecordBound(Fresh) /\ CallBound(NoCall)
  BY NoCallBound DEF RecordBound, Coupled, HasRow, Fresh, Absent
<1>2. /\ \A o \in Objs : heap[o] \in {Absent, Fresh}
      /\ \A s \in Slots : call[s] = NoCall
      /\ \A t \in Trips : trips[t].st = "none"
  BY DEF Init
<1>3. QED
  BY <1>1, <1>2 DEF TripInv, RowsTimed

LEMMA NextTrip == TypeOK /\ TripInv /\ [Next]_vars => TripInv'
<1> SUFFICES ASSUME TypeOK, TripInv, [Next]_vars PROVE TripInv'
  OBVIOUS
<1>1. ASSUME NEW s \in Clients, ClientStarts(s) PROVE TripInv'
  <2>1. s \in Slots
    BY DEF Slots
  <2>2. QED
    BY <1>1, <2>1, UpdateLocationTrip, StartSosTrip, EndSosTrip, StartTripTrip, EndTripTrip,
       ExtendTripTrip, ConnectTrip, DisconnectTrip DEF ClientStarts
<1>2. ASSUME NEW s \in Slots, Continue(s) PROVE TripInv'
  BY <1>2, ResumeTrip, SafePathSavedTrip, ResetTripTrip, TripCreatedTrip, AttachMemberTrip,
     SessionBuiltTrip, SweepVisitTrip, SweepTrip DEF Continue
<1>3. ASSUME NEW s \in Slots, Effect(s) PROVE TripInv'
  BY <1>3, OtherEffects, UpdateTrip, CommitCreateTrip, CommitTripsReadTrip DEF Effect
<1>4. ASSUME NEW s \in Sweeps, SweepStart(s) PROVE TripInv'
  BY <1>4, SweepStartTrip DEF Slots
<1>5. CASE PeerDisconnect \/ Tick \/ UNCHANGED vars
  BY <1>5 DEF PeerDisconnect, Tick, vars, TripInv, RecordBound, CallBound, HasRow, Coupled,
              Building, RowsTimed
<1>6. QED
  BY <1>1, <1>2, <1>3, <1>4, <1>5, FailTrip, CrashTrip DEF Next

\* In every session object, at every point of every handler, a record has a
\* trip exactly when it has an arrival time: the sweep never watches half a
\* trip (startTrip, extendTrip, resetTrip, buildGroupSession).
THEOREM TripsCoupled == Spec => []CoupledTrip
<1>1. TypeOK /\ TripInv => CoupledTrip
  BY TripInvImplies
<1>2. QED
  BY <1>1, InitTyped, NextTyped, InitTrip, NextTrip, PTL DEF Spec

\* No record and no suspended handler names a trip that has no row, so no
\* close or extension throws for that reason (closeTrip, extendTrip).
THEOREM TripsHaveRows == Spec => []TripRowsExist
<1>1. TypeOK /\ TripInv => TripRowsExist
  BY TripInvImplies
<1>2. QED
  BY <1>1, InitTyped, NextTyped, InitTrip, NextTrip, PTL DEF Spec

=============================================================================
