-------------------------- MODULE LiveGroups_proofs --------------------------
(* Proofs about LiveGroups: types, and the five invariants of its run. *)
EXTENDS LiveGroups, FiniteSetTheorems, TLAPS

-----------------------------------------------------------------------------
(* Types *)

HistType == [lost : SUBSET Sockets, apart : SUBSET Pairs, unsaved : SUBSET Pairs]

\* What the handler in slot s, suspended in state c, has captured.
CallOK(s, c) ==
  /\ c.pc \in SweepPcs <=> s \in Sweeps /\ c.pc # "idle"
  /\ c.pc \in SweepPcs => c.group \in Groups /\ c.obj \in Objs
  /\ c.pc \in ConnectPcs \cup {"dis_save"} => c.group \in Groups
  /\ c.pc \in ConnectPcs => c.sock \in Sockets
  /\ c.pc \notin {"idle", "sw_visit"} => c.user \in Users

\* Every open socket is somebody's, and only an open one has its client.data.
SocksOwned ==
  \A k \in Sockets :
    /\ sock[k].st = "open" => sock[k].user \in Users /\ sock[k].group \in Groups
    /\ sock[k].data => sock[k].st = "open"
    /\ sock[k].st = "unused" => sock[k].user = None

Typed == TypeOK /\ SocksOwned

LEMMA Nones ==
  /\ None \notin Users /\ None \notin Groups /\ None \notin Sockets /\ None \notin Objs
  /\ \A s \in Clients : s \in Slots /\ s \notin Sweeps
  /\ \A s \in Sweeps : s \in Slots /\ s \notin Clients
BY LiveNone, LiveSlots DEF Slots

LEMMA StateTyped ==
  ASSUME TypeOK
  PROVE  /\ \A s \in Slots : call[s] \in CallType /\ CallOK(s, call[s])
         /\ \A o \in Objs, u \in Users : heap[o][u] \in MemberType
         /\ \A g \in Groups : groups[g] \in Maybe(Objs)
         /\ \A g \in Groups, u \in Users : rows[g][u] \in RowType
         /\ \A k \in Sockets : sock[k] \in SockType
         /\ hist \in HistType
<1>1. \A s \in Slots : call[s] \in CallType /\ CallOK(s, call[s])
  BY DEF TypeOK, CallOK
<1>2. /\ \A o \in Objs, u \in Users : heap[o][u] \in MemberType
      /\ \A g \in Groups : groups[g] \in Maybe(Objs)
      /\ \A g \in Groups, u \in Users : rows[g][u] \in RowType
      /\ \A k \in Sockets : sock[k] \in SockType
      /\ hist \in HistType
  BY DEF TypeOK, HistType
<1>3. QED
  BY <1>1, <1>2

LEMMA AbsentTyped == Absent \in MemberType /\ NoSession \in [Users -> MemberType]
BY DEF Absent, MemberType, NoSession, Maybe

LEMMA NoCallTyped == NoCall \in CallType /\ \A s \in Slots : CallOK(s, NoCall)
<1>1. NoRow \in RowType
  BY DEF NoRow, RowType
<1>2. "idle" \in Pcs
  BY DEF Pcs
<1>3. [u \in Users |-> NoRow] \in [Users -> RowType] /\ [u \in Users |-> FALSE] \in [Users -> BOOLEAN]
  BY <1>1
<1>4. NoCall \in CallType
  BY <1>2, <1>3 DEF NoCall, CallType, Maybe
<1>5. QED
  BY <1>4 DEF NoCall, CallOK, SweepPcs, ConnectPcs

CallTyped == call \in [Slots -> CallType] /\ \A s \in Slots : CallOK(s, call[s])

LEMMA AwaitTyped ==
  ASSUME TypeOK, NEW s \in Slots, NEW c \in CallType, CallOK(s, c), Await(s, c)
  PROVE  CallTyped'
<1>1. call' = [call EXCEPT ![s] = c] /\ call \in [Slots -> CallType]
  BY DEF Await, TypeOK
<1>2. \A t \in Slots : call'[t] = IF t = s THEN c ELSE call[t]
  BY <1>1
<1>3. QED
  BY <1>1, <1>2, StateTyped DEF CallTyped, CallOK

LEMMA ReturnTyped ==
  ASSUME TypeOK, NEW s \in Slots, Return(s)
  PROVE  CallTyped'
BY NoCallTyped, AwaitTyped DEF Return

LEMMA SameCallTyped == ASSUME TypeOK, UNCHANGED call PROVE CallTyped'
BY StateTyped DEF TypeOK, CallTyped, CallOK

LEMMA RecordTyped ==
  ASSUME TypeOK, NEW o \in Objs, NEW u \in Users, NEW m \in MemberType,
         heap' = [heap EXCEPT ![o][u] = m]
  PROVE  heap' \in [Objs -> [Users -> MemberType]]
BY DEF TypeOK

\* The socket k of a connection is admitted, refused or closed.
SockTyped == sock \in [Sockets -> SockType] /\ SocksOwned

LEMMA SockChanged ==
  ASSUME Typed, NEW k \in Sockets, NEW x \in SockType, sock' = [sock EXCEPT ![k] = x],
         x.st = "open" => x.user \in Users /\ x.group \in Groups,
         x.data => x.st = "open", x.st = "unused" => x.user = None
  PROVE  SockTyped'
BY DEF Typed, TypeOK, SockTyped, SocksOwned

LEMMA SameSock == ASSUME Typed, UNCHANGED sock PROVE SockTyped'
BY DEF Typed, TypeOK, SockTyped, SocksOwned

LEMMA GoneTyped == Gone \in SockType /\ Gone.st = "closed" /\ Gone.user = None /\ ~Gone.data
BY DEF Gone, Unused, SockType, Maybe

LEMMA SockRefused ==
  ASSUME Typed, NEW k \in Sockets, sock' = Refused(k)
  PROVE  SockTyped'
BY GoneTyped, SockChanged DEF Refused

LEMMA SockAdmitted ==
  ASSUME Typed, NEW k \in Sockets, sock' = Admitted(k)
  PROVE  SockTyped'
<1> DEFINE x == [sock[k] EXCEPT !.data = (sock[k].st = "open")]
<1>1. sock[k] \in SockType
  BY StateTyped DEF Typed
<1>2. x \in SockType /\ x.st = sock[k].st /\ x.user = sock[k].user
      /\ x.group = sock[k].group /\ (x.data <=> x.st = "open")
  BY <1>1 DEF SockType
<1>3. sock' = [sock EXCEPT ![k] = x]
  BY DEF Admitted, Typed, TypeOK
<1> HIDE DEF x
<1>4. QED
  BY ZenonT(40), <1>2, <1>3, SockChanged DEF Typed, SocksOwned

LEMMA SockClosed ==
  ASSUME Typed, NEW k \in Sockets, sock' = Closed(k)
  PROVE  SockTyped'
<1> DEFINE x == IF sock[k].data THEN Gone ELSE [sock[k] EXCEPT !.st = "closed"]
<1>1. sock[k] \in SockType
  BY StateTyped DEF Typed
<1>2. x \in SockType /\ x.st = "closed" /\ ~x.data
  BY <1>1, GoneTyped DEF SockType
<1>3. sock' = [sock EXCEPT ![k] = x]
  BY DEF Closed, Typed, TypeOK
<1> HIDE DEF x
<1>4. QED
  BY <1>2, <1>3, SockChanged

LEMMA PickedSocket ==
  ASSUME \E k \in Sockets : sock[k].st = "unused"
  PROVE  NextSocket \in Sockets /\ sock[NextSocket].st = "unused"
BY DEF NextSocket

\* The types of the parts are the type of the whole.
LEMMA TypedParts ==
  ASSUME CallTyped', SockTyped',
         (groups \in [Groups -> Maybe(Objs)])', (heap \in [Objs -> [Users -> MemberType]])',
         (rows \in [Groups -> [Users -> RowType]])', (flag \in [Users -> BOOLEAN])',
         (used \in Nat)', (hist \in HistType)', (left \in SUBSET Pairs)'
  PROVE  Typed'
BY DEF Typed, TypeOK, CallTyped, CallOK, SockTyped, HistType

-----------------------------------------------------------------------------
(* Types: connecting *)

\* Everything but the history of who left.
StepTyped ==
  /\ CallTyped /\ SockTyped
  /\ groups \in [Groups -> Maybe(Objs)] /\ heap \in [Objs -> [Users -> MemberType]]
  /\ rows \in [Groups -> [Users -> RowType]] /\ flag \in [Users -> BOOLEAN]
  /\ used \in Nat /\ hist \in HistType

LEMMA TypedIsStepTyped == Typed => StepTyped
BY StateTyped DEF Typed, TypeOK, StepTyped, CallTyped, SockTyped, HistType

LEMMA PairsOf ==
  /\ \A u \in Users, g \in Groups : <<u, g>> \in Pairs
  /\ \A S \in SUBSET Users, G \in SUBSET Groups : S \X G \in SUBSET Pairs
  /\ Held \in SUBSET Pairs
BY DEF Pairs, Held

LEMMA OwnSockets == \A u, g : SocketsOf(u, g) \in SUBSET Sockets /\ SocketsIn(g) \in SUBSET Sockets
BY DEF SocketsOf, SocketsIn

LEMMA SpendTyped == ASSUME TypeOK, Spend PROVE used' \in Nat
BY DEF TypeOK, Spend

LEMMA ConnectTyped ==
  ASSUME Typed, NEW s \in Slots, NEW u \in Users, NEW g \in Groups, NEW loc \in BOOLEAN,
         Connect(s, u, g, loc)
  PROVE  StepTyped'
<1> DEFINE k == NextSocket
           x == [st |-> "open", user |-> u, group |-> g, data |-> FALSE]
           c == [NoCall EXCEPT !.pc = "con_member", !.sock = k, !.user = u,
                               !.group = g, !.loc = loc, !.ok = rows[g][u].in]
<1>1. k \in Sockets /\ rows[g][u].in \in BOOLEAN
  BY PickedSocket, StateTyped DEF Connect, Typed, RowType
<1>2. x \in SockType /\ sock' = [sock EXCEPT ![k] = x]
  BY DEF Connect, SockType, Maybe
<1>3. SockTyped'
  BY <1>1, <1>2, SockChanged
<1>4. c \in CallType /\ CallOK(s, c)
  <2>1. "con_member" \in Pcs /\ s \in Clients
    BY DEF Pcs, ConnectPcs, Connect, Issue
  <2>2. c \in CallType /\ c.pc = "con_member" /\ c.sock = k /\ c.user = u /\ c.group = g
    BY <1>1, <2>1, NoCallTyped DEF CallType, Maybe
  <2>3. QED
    BY <1>1, <2>1, <2>2, Nones DEF CallOK, SweepPcs, ConnectPcs
<1>5. CallTyped'
  <2> HIDE DEF c
  <2>1. Await(s, c)
    BY DEF Connect, c
  <2>2. QED
    BY <1>4, <2>1, AwaitTyped DEF Typed
<1>6. QED
  BY <1>3, <1>5, SpendTyped DEF Connect, Issue, memory, database, StepTyped, Typed, TypeOK, HistType

LEMMA ConnectingSlot ==
  ASSUME TypeOK, NEW s \in Slots, call[s].pc \in ConnectPcs
  PROVE  /\ s \in Clients /\ call[s] \in CallType /\ call[s].sock \in Sockets
         /\ call[s].user \in Users /\ call[s].group \in Groups
BY StateTyped DEF CallOK, ConnectPcs, SweepPcs, Slots

LEMMA JoinedTyped ==
  ASSUME NEW m \in MemberType, NEW k \in Sockets, NEW loc \in BOOLEAN
  PROVE  Attached(m, k, loc) \in MemberType /\ Newcomer(k, loc) \in MemberType
BY AbsentTyped DEF Attached, Newcomer, MemberType, Maybe

LEMMA AttachMemberTyped ==
  ASSUME Typed, NEW s \in Slots, AttachMember(s)
  PROVE  StepTyped'
<1> DEFINE c == call[s]
           m == Rec(c.user, c.group)
           n == IF m.in THEN Attached(m, c.sock, c.loc) ELSE Newcomer(c.sock, c.loc)
<1>1. /\ c \in CallType /\ c.sock \in Sockets /\ c.user \in Users /\ c.group \in Groups
      /\ groups[c.group] \in Objs
  BY ConnectingSlot, StateTyped DEF AttachMember, At, ConnectPcs, Typed, Maybe
<1>2. m \in MemberType /\ c.loc \in BOOLEAN
  BY <1>1, StateTyped DEF Rec, Typed, CallType
<1>3. n \in MemberType
  BY <1>1, <1>2, JoinedTyped
<1>4. heap' = [heap EXCEPT ![groups[c.group]][c.user] = n]
  BY <1>1 DEF AttachMember, Rec, Typed, TypeOK
<1> HIDE DEF n
<1>5. heap' \in [Objs -> [Users -> MemberType]]
  BY <1>1, <1>3, <1>4, RecordTyped DEF Typed
<1>6. hist' \in HistType
  <2>1. /\ SocketsOf(c.user, c.group) \in SUBSET Sockets
        /\ Compared(c.user, c.group, FALSE) \in SUBSET Pairs
    BY <1>1, PairsOf, OwnSockets, StateTyped DEF Compared, Typed, HistType
  <2>2. QED
    BY <2>1, StateTyped DEF AttachMember, Typed, HistType
<1>7. QED
  BY <1>1, <1>5, <1>6, SockAdmitted, ReturnTyped
  DEF AttachMember, database, StepTyped, Typed, TypeOK

LEMMA BuildingTyped ==
  ASSUME Typed, NEW s \in Slots, StartBuilding(s) \/ ReadGroup(s)
  PROVE  StepTyped'
<1>1. CallTyped'
  <2>1. call[s].pc \in ConnectPcs /\ "con_group" \in Pcs /\ "con_build" \in Pcs
    BY DEF StartBuilding, ReadGroup, At, ConnectPcs, Pcs
  <2>2. /\ call[s] \in CallType /\ s \in Clients /\ call[s].sock \in Sockets
        /\ call[s].user \in Users /\ call[s].group \in Groups
    BY <2>1, ConnectingSlot DEF Typed
  <2>3. CASE StartBuilding(s)
    <3> DEFINE c == [call[s] EXCEPT !.pc = "con_group"]
    <3>1. c \in CallType /\ CallOK(s, c)
      BY <2>1, <2>2, Nones DEF CallType, CallOK, ConnectPcs, SweepPcs
    <3> HIDE DEF c
    <3>2. Await(s, c)
      BY <2>3 DEF StartBuilding, c
    <3>3. QED
      BY <3>1, <3>2, AwaitTyped DEF Typed
  <2>4. CASE ReadGroup(s)
    <3> DEFINE c == [call[s] EXCEPT !.pc = "con_build", !.seen = rows[call[s].group],
                                    !.sos = flag]
    <3>1. rows[call[s].group] \in [Users -> RowType] /\ flag \in [Users -> BOOLEAN]
      BY <2>2 DEF Typed, TypeOK
    <3>2. c \in CallType /\ CallOK(s, c)
      BY <2>1, <2>2, <3>1, Nones DEF CallType, CallOK, ConnectPcs, SweepPcs
    <3> HIDE DEF c
    <3>3. Await(s, c)
      BY <2>4 DEF ReadGroup, c
    <3>4. QED
      BY <3>2, <3>3, AwaitTyped DEF Typed
  <2>5. QED
    BY <2>3, <2>4
<1>2. QED
  BY <1>1, SameSock
  DEF StartBuilding, ReadGroup, memory, database, StepTyped, Typed, TypeOK, HistType

LEMMA RestoredTyped ==
  ASSUME NEW c \in CallType, c.sock \in Sockets, NEW u \in Users
  PROVE  Restored(c, u) \in MemberType
BY AbsentTyped DEF Restored, MemberType, CallType, RowType, Maybe

LEMMA CollectedTyped ==
  ASSUME NEW h \in [Objs -> [Users -> MemberType]], NEW map, NEW passes
  PROVE  Collected(h, map, passes) \in [Objs -> [Users -> MemberType]]
BY AbsentTyped DEF Collected

LEMMA PickedObject ==
  ASSUME Unreferenced # {}
  PROVE  /\ (CHOOSE o \in Unreferenced : TRUE) \in Objs
         /\ \A g \in Groups : groups[g] # CHOOSE o \in Unreferenced : TRUE
         /\ \A t \in Sweeps : call[t].obj # CHOOSE o \in Unreferenced : TRUE
BY DEF Unreferenced

LEMMA BuildGroupSessionTyped ==
  ASSUME Typed, NEW s \in Slots, BuildGroupSession(s)
  PROVE  StepTyped'
<1> DEFINE c == call[s]
           o == CHOOSE o \in Unreferenced : TRUE
           h == [heap EXCEPT ![o] = [u \in Users |-> Restored(c, u)]]
<1>1. /\ c \in CallType /\ c.sock \in Sockets /\ c.user \in Users /\ c.group \in Groups
      /\ o \in Objs
  BY ConnectingSlot, PickedObject DEF BuildGroupSession, At, ConnectPcs, Typed
<1> HIDE DEF o
<1>2. groups' = [groups EXCEPT ![c.group] = o] /\ heap' = Collected(h, groups', Passes)
  BY DEF BuildGroupSession, o
<1>3. h \in [Objs -> [Users -> MemberType]]
  BY <1>1, RestoredTyped DEF Typed, TypeOK
<1>4. heap' \in [Objs -> [Users -> MemberType]] /\ groups' \in [Groups -> Maybe(Objs)]
  <2> HIDE DEF h
  <2>1. heap' \in [Objs -> [Users -> MemberType]]
    BY <1>2, <1>3, CollectedTyped
  <2>2. QED
    BY <1>1, <1>2, <2>1 DEF Typed, TypeOK, Maybe
<1>5. hist' \in HistType
  <2> DEFINE differ == {u \in Users : c.sos[u] # flag[u] \/ Saving(u)}
             unsaved == {u \in Users : c.seen[u].loc /\ ~rows[c.group][u].loc}
             L == hist.lost \cup (SocketsIn(c.group) \ (IF c.seen[c.user].in THEN {c.sock} ELSE {}))
             A == (hist.apart \ (Users \X {c.group})) \cup (differ \X {c.group})
             U == (hist.unsaved \ (Users \X {c.group})) \cup (unsaved \X {c.group})
  <2>1. /\ differ \X {c.group} \in SUBSET Pairs /\ unsaved \X {c.group} \in SUBSET Pairs
        /\ SocketsIn(c.group) \in SUBSET Sockets
    BY <1>1, PairsOf, OwnSockets
  <2>2. L \in SUBSET Sockets /\ A \in SUBSET Pairs /\ U \in SUBSET Pairs
    <3> HIDE DEF differ, unsaved
    <3>1. QED
      BY <2>1, StateTyped DEF Typed, HistType
  <2>3. hist' = [hist EXCEPT !.lost = L, !.apart = A, !.unsaved = U]
    BY DEF BuildGroupSession
  <2> HIDE DEF L, A, U
  <2>4. QED
    BY <2>2, <2>3, StateTyped DEF Typed, HistType
<1>6. QED
  BY <1>1, <1>4, <1>5, SockAdmitted, ReturnTyped
  DEF BuildGroupSession, database, StepTyped, Typed, TypeOK

LEMMA RejectTyped ==
  ASSUME Typed, NEW s \in Slots, Reject(s)
  PROVE  StepTyped'
<1>1. call[s].sock \in Sockets
  BY ConnectingSlot DEF Reject, At, ConnectPcs, Typed
<1>2. QED
  BY <1>1, SockRefused, ReturnTyped
  DEF Reject, memory, database, StepTyped, Typed, TypeOK, HistType

-----------------------------------------------------------------------------
(* Types: what clients do to a session, and to the rows *)

\* The user's record in the session the map has.
LEMMA LiveRecord ==
  ASSUME TypeOK, NEW u, NEW g \in Groups, RequireMember(u, g), u \in Users
  PROVE  groups[g] \in Objs /\ Rec(u, g) \in MemberType /\ Rec(u, g) = heap[groups[g]][u]
BY StateTyped DEF RequireMember, Rec, Maybe

\* A handler that only has somebody's row, or flag, to save.
LEMMA SavingTyped ==
  ASSUME NEW s \in Clients, NEW pc \in {"dis_save", "sos_flag"}, NEW u \in Users,
         NEW g \in Groups, NEW to \in BOOLEAN
  PROVE  LET c == [NoCall EXCEPT !.pc = pc, !.user = u, !.group = g, !.to = to]
         IN  c \in CallType /\ CallOK(s, c)
<1> DEFINE c == [NoCall EXCEPT !.pc = pc, !.user = u, !.group = g, !.to = to]
<1>1. pc \in Pcs
  BY DEF Pcs
<1>2. c \in CallType /\ c.pc = pc /\ c.user = u /\ c.group = g
  BY <1>1, NoCallTyped DEF CallType, Maybe
<1> HIDE DEF c
<1>3. c \in CallType /\ CallOK(s, c)
  BY <1>2, Nones DEF CallOK, ConnectPcs, SweepPcs
<1>4. QED
  BY <1>3 DEF c

LEMMA DisconnectTyped ==
  ASSUME Typed, NEW s \in Slots, NEW k \in Sockets, Disconnect(s, k)
  PROVE  StepTyped'
<1> DEFINE u == sock[k].user
           g == sock[k].group
<1>1. u \in Users /\ g \in Groups /\ s \in Clients
  BY DEF Disconnect, Typed, SocksOwned
<1>2. SockTyped'
  BY SockClosed DEF Disconnect
<1>3. hist' \in HistType
  <2> DEFINE L == (hist.lost \cup SocketsOf(u, g)) \ {k}
             M == hist.lost \ {k}
  <2>1. hist \in HistType /\ L \in SUBSET Sockets /\ M \in SUBSET Sockets
    BY DEF SocketsOf, Typed, TypeOK, HistType
  <2>2. hist' = [hist EXCEPT !.lost = L] \/ hist' = [hist EXCEPT !.lost = M]
    BY DEF Disconnect
  <2> HIDE DEF L, M
  <2>3. QED
    BY <2>1, <2>2 DEF HistType
<1>4. heap' \in [Objs -> [Users -> MemberType]]
  <2>1. CASE sock[k].data /\ RequireMember(u, g)
    <3> DEFINE m == [heap[groups[g]][u] EXCEPT !.sock = None]
    <3>1. groups[g] \in Objs /\ heap[groups[g]][u] \in MemberType
      BY <1>1, <2>1, LiveRecord DEF Typed
    <3>2. m \in MemberType
      BY <3>1 DEF MemberType, Maybe
    <3>3. heap' = [heap EXCEPT ![groups[g]][u] = m]
      BY <2>1, <3>1 DEF Disconnect, Typed, TypeOK
    <3> HIDE DEF m
    <3>4. QED
      BY <1>1, <3>1, <3>2, <3>3, RecordTyped DEF Typed
  <2>2. CASE ~(sock[k].data /\ RequireMember(u, g))
    BY <2>2 DEF Disconnect, Typed, TypeOK
  <2>3. QED
    BY <2>1, <2>2
<1>5. CallTyped'
  <2> DEFINE c == [NoCall EXCEPT !.pc = "dis_save", !.user = u, !.group = g]
  <2>1. NoCall.to = FALSE
    BY DEF NoCall
  <2>2. c = [NoCall EXCEPT !.pc = "dis_save", !.user = u, !.group = g, !.to = FALSE]
    BY <2>1, NoCallTyped DEF CallType
  <2>3. c \in CallType /\ CallOK(s, c)
    BY <1>1, <2>2, SavingTyped
  <2>4. Await(s, c) \/ UNCHANGED call
    BY DEF Disconnect
  <2> HIDE DEF c
  <2>5. QED
    BY <2>3, <2>4, AwaitTyped, SameCallTyped DEF Typed
<1>6. QED
  BY <1>2, <1>3, <1>4, <1>5 DEF Disconnect, database, StepTyped, Typed, TypeOK

LEMMA UpdateLocationTyped ==
  ASSUME Typed, NEW u \in Users, NEW g \in Groups, UpdateLocation(u, g)
  PROVE  StepTyped'
<1> DEFINE m == [heap[groups[g]][u] EXCEPT !.loc = TRUE, !.offline = FALSE, !.inactive = FALSE]
<1>1. groups[g] \in Objs /\ heap[groups[g]][u] \in MemberType
  BY LiveRecord DEF UpdateLocation, Typed
<1>2. m \in MemberType
  BY <1>1 DEF MemberType
<1>3. heap' = [heap EXCEPT ![groups[g]][u] = m]
  BY <1>1 DEF UpdateLocation, Typed, TypeOK
<1> HIDE DEF m
<1>4. heap' \in [Objs -> [Users -> MemberType]]
  BY <1>1, <1>2, <1>3, RecordTyped DEF Typed
<1>5. QED
  BY <1>4, SameSock, SameCallTyped, SpendTyped
  DEF UpdateLocation, database, StepTyped, Typed, TypeOK, HistType

\* The first segment of startSos and endSos.
LEMMA SetSosTyped ==
  ASSUME Typed, NEW s \in Slots, NEW u \in Users, NEW g \in Groups, NEW to \in BOOLEAN, NEW c,
         RequireMember(u, g), SetSos(s, u, g, to, c),
         [c EXCEPT !.user = u, !.to = to] \in CallType,
         CallOK(s, [c EXCEPT !.user = u, !.to = to])
  PROVE  heap' \in [Objs -> [Users -> MemberType]] /\ hist' \in HistType /\ CallTyped'
<1> DEFINE m == [heap[groups[g]][u] EXCEPT !.sos = to]
<1>1. groups[g] \in Objs /\ heap[groups[g]][u] \in MemberType
  BY LiveRecord DEF Typed
<1>2. m \in MemberType
  BY <1>1 DEF MemberType
<1>3. heap' = [heap EXCEPT ![groups[g]][u] = m]
  BY <1>1 DEF SetSos, Typed, TypeOK
<1> HIDE DEF m
<1>4. heap' \in [Objs -> [Users -> MemberType]]
  BY <1>1, <1>2, <1>3, RecordTyped DEF Typed
<1>5. hist' \in HistType
  <2> DEFINE H == {h \in Groups :
                    RequireMember(u, h) /\ (Saving(u) \/ (h # g /\ Rec(u, h).sos # to))}
             B == {<<u, h>> : h \in H}
             X == {<<u, g>>}
             A == (hist.apart \ X) \cup B
  <2>1. B \in SUBSET Pairs
    <3>1. \A h \in H : <<u, h>> \in Pairs
      BY PairsOf
    <3> HIDE DEF H
    <3>2. QED
      BY <3>1
  <2>2. A \in SUBSET Pairs
    <3>1. hist.apart \in SUBSET Pairs
      BY StateTyped DEF Typed, HistType
    <3> HIDE DEF B, X
    <3>2. QED
      BY <2>1, <3>1
  <2>3. hist' = [hist EXCEPT !.apart = A]
    BY DEF SetSos
  <2> HIDE DEF A
  <2>4. QED
    BY <2>2, <2>3, StateTyped DEF Typed, HistType
<1>6. CallTyped'
  BY AwaitTyped DEF SetSos, Typed
<1>7. QED
  BY <1>4, <1>5, <1>6

LEMMA ChangeSosTyped ==
  ASSUME Typed, NEW s \in Slots, NEW k \in Sockets, NEW to \in BOOLEAN, ChangeSos(s, k, to)
  PROVE  StepTyped'
<1> DEFINE u == sock[k].user
           g == sock[k].group
           c == [NoCall EXCEPT !.pc = "sos_flag"]
           d == [c EXCEPT !.user = u, !.to = to]
<1>1. u \in Users /\ g \in Groups /\ s \in Clients /\ RequireMember(u, g)
  BY DEF ChangeSos, Issue, Authenticated, Typed, SocksOwned
<1>2. d \in CallType /\ CallOK(s, d)
  <2>1. "sos_flag" \in Pcs
    BY DEF Pcs
  <2>2. d \in CallType /\ d.pc = "sos_flag" /\ d.user = u
    BY <1>1, <2>1, NoCallTyped DEF CallType, Maybe
  <2> HIDE DEF d
  <2>3. QED
    BY <1>1, <2>2, Nones DEF CallOK, ConnectPcs, SweepPcs
<1>3. SetSos(s, u, g, to, c)
  BY DEF ChangeSos
<1> HIDE DEF c
<1>4. heap' \in [Objs -> [Users -> MemberType]] /\ hist' \in HistType /\ CallTyped'
  BY <1>1, <1>2, <1>3, SetSosTyped
<1>5. QED
  BY <1>4, SameSock, SpendTyped DEF ChangeSos, Issue, database, StepTyped, Typed, TypeOK

LEMMA RowPlaced ==
  ASSUME TypeOK, NEW u \in Users, NEW g \in Groups, rows' = WithPlace(u, g)
  PROVE  rows' \in [Groups -> [Users -> RowType]]
<1> DEFINE r == [rows[g][u] EXCEPT !.loc = rows[g][u].in]
<1>1. r \in RowType
  BY StateTyped DEF RowType
<1>2. rows' = [rows EXCEPT ![g][u] = r]
  BY DEF WithPlace, TypeOK
<1> HIDE DEF r
<1>3. QED
  BY <1>1, <1>2 DEF TypeOK

LEMMA RowsTyped ==
  ASSUME Typed, NEW u \in Users, NEW g \in Groups, LeaveGroup(u, g) \/ AddUserToGroup(u, g)
  PROVE  StepTyped'
<1>1. rows' \in [Groups -> [Users -> RowType]]
  <2> DEFINE r == [rows[g][u] EXCEPT !.in = TRUE]
  <2>1. r \in RowType /\ NoRow \in RowType
    BY StateTyped DEF RowType, NoRow, Typed
  <2>2. rows' = [rows EXCEPT ![g][u] = NoRow] \/ rows' = [rows EXCEPT ![g][u] = r]
    BY DEF LeaveGroup, AddUserToGroup, Typed, TypeOK
  <2> HIDE DEF r
  <2>3. ASSUME NEW x \in RowType, rows' = [rows EXCEPT ![g][u] = x]
        PROVE  rows' \in [Groups -> [Users -> RowType]]
    BY <2>3 DEF Typed, TypeOK
  <2>4. QED
    BY <2>1, <2>2, <2>3
<1>2. hist' \in HistType
  BY PairsOf, StateTyped DEF LeaveGroup, AddUserToGroup, Typed, HistType
<1>3. QED
  BY <1>1, <1>2, SameSock, SameCallTyped, SpendTyped
  DEF LeaveGroup, AddUserToGroup, memory, StepTyped, Typed, TypeOK

LEMMA PersistTyped ==
  ASSUME Typed, NEW s \in Slots, PersistLastLocation(s)
  PROVE  StepTyped'
<1>1. call[s].user \in Users /\ call[s].group \in Groups
  BY StateTyped DEF PersistLastLocation, At, CallOK, Typed
<1>2. rows' \in [Groups -> [Users -> RowType]]
  BY <1>1, RowPlaced DEF PersistLastLocation, Typed
<1>3. hist' \in HistType
  BY DEF PersistLastLocation, SavedAt, Typed, TypeOK, HistType
<1>4. QED
  BY <1>2, <1>3, SameSock, ReturnTyped
  DEF PersistLastLocation, memory, StepTyped, Typed, TypeOK

-----------------------------------------------------------------------------
(* Types: the sweep, failures and restarts *)

LEMMA SweepingSlot ==
  ASSUME TypeOK, NEW s \in Sweeps, ~At(s, "idle")
  PROVE  /\ s \in Slots /\ call[s] \in CallType /\ call[s].pc \in SweepPcs
         /\ call[s].group \in Groups /\ call[s].obj \in Objs
         /\ call[s].pc # "sw_visit" => call[s].user \in Users
BY StateTyped, Nones DEF CallOK, At, SweepPcs

LEMMA EnteringTyped ==
  ASSUME NEW s \in Sweeps, NEW c \in CallType, NEW g \in Groups,
         NEW map \in [Groups -> Maybe(Objs)], map[g] # None
  PROVE  Entering(c, g, map) \in CallType /\ CallOK(s, Entering(c, g, map))
<1> DEFINE d == Entering(c, g, map)
<1>1. "sw_visit" \in Pcs /\ map[g] \in Objs
  BY DEF Pcs, SweepPcs, Maybe
<1>2. d \in CallType /\ d.pc = "sw_visit" /\ d.group = g /\ d.obj = map[g]
  BY <1>1 DEF Entering, CallType, Maybe
<1> HIDE DEF d
<1>3. d \in CallType /\ CallOK(s, d)
  BY <1>1, <1>2 DEF CallOK, SweepPcs, ConnectPcs
<1>4. QED
  BY <1>3 DEF d

LEMMA VisitedTyped ==
  ASSUME NEW s \in Sweeps, NEW c \in CallType, NEW u \in Users,
         c.group \in Groups, c.obj \in Objs
  PROVE  Visited(c, u) \in CallType /\ CallOK(s, Visited(c, u))
<1> DEFINE d == Visited(c, u)
<1>1. "sw_visit" \in Pcs
  BY DEF Pcs, SweepPcs
<1>2. d \in CallType /\ d.pc = "sw_visit" /\ d.group = c.group /\ d.obj = c.obj
  BY <1>1 DEF Visited, CallType, Maybe
<1> HIDE DEF d
<1>3. d \in CallType /\ CallOK(s, d)
  BY <1>2 DEF CallOK, SweepPcs, ConnectPcs
<1>4. QED
  BY <1>3 DEF d

\* A pass suspended while it deals with somebody.
LEMMA DealingOK ==
  ASSUME NEW s \in Sweeps, NEW d, d.group \in Groups, d.obj \in Objs, d.user \in Users,
         d.pc \in {"sw_flag", "sw_alarmed", "sw_notice", "sw_save"}
  PROVE  CallOK(s, d)
BY DEF CallOK, SweepPcs, ConnectPcs

LEMMA SweepingPcs ==
  /\ "sw_flag" \in Pcs /\ "sw_alarmed" \in Pcs /\ "sw_notice" \in Pcs /\ "sw_save" \in Pcs
  /\ None \in Maybe(Users) /\ \A u \in Users : u \in Maybe(Users)
BY DEF Pcs, SweepPcs, Maybe

\* What the last lines of processMember amount to: the pass goes on to d, and
\* u's record in its object may be marked inactive or offline.
Deals(s, u, d, m) ==
  LET c == call[s]
      n == heap[c.obj][u]
  IN  /\ d \in CallType /\ CallOK(s, d) /\ Await(s, d)
      /\ d.pc \in {"sw_visit", "sw_notice", "sw_save"}
      /\ d.group = c.group /\ d.obj = c.obj
      /\ m \in MemberType /\ m.in = n.in /\ m.sock = n.sock /\ m.sos = n.sos
      /\ heap' = [heap EXCEPT ![c.obj][u] = m]
      /\ \/ m.offline = n.offline /\ UNCHANGED hist
         \/ /\ m.offline /\ d.pc = "sw_save" /\ d.user = u
            /\ hist' = [hist EXCEPT !.lost = @ \cup ({n.sock} \ {None})]

LEMMA OfflineDeals ==
  ASSUME Typed, NEW s \in Sweeps, ~At(s, "idle"), NEW u \in Users,
         OfflineCheck(s, call[s], u)
  PROVE  \E d, m : Deals(s, u, d, m)
<1> DEFINE c == call[s]
           n == heap[c.obj][u]
<1>1. c \in CallType /\ c.group \in Groups /\ c.obj \in Objs /\ n \in MemberType
  BY SweepingSlot, StateTyped DEF Typed
<1>2. CASE Await(s, Visited(c, u)) /\ UNCHANGED <<heap, hist>>
  <2> DEFINE d == Visited(c, u)
  <2>1. /\ d \in CallType /\ CallOK(s, d) /\ d.pc = "sw_visit"
        /\ d.group = c.group /\ d.obj = c.obj
    BY <1>1, VisitedTyped DEF Visited, CallType
  <2>2. heap' = [heap EXCEPT ![c.obj][u] = n]
    BY <1>1, <1>2 DEF Typed, TypeOK
  <2> HIDE DEF d
  <2>3. Deals(s, u, d, n)
    BY <1>1, <1>2, <2>1, <2>2 DEF Deals, d
  <2>4. QED
    BY <2>3
<1>3. CASE /\ heap' = [heap EXCEPT ![c.obj][u].offline = TRUE]
           /\ Await(s, [c EXCEPT !.pc = "sw_save", !.user = u, !.to = FALSE])
           /\ hist' = [hist EXCEPT !.lost = @ \cup ({n.sock} \ {None})]
  <2> DEFINE d == [c EXCEPT !.pc = "sw_save", !.user = u, !.to = FALSE]
             m == [n EXCEPT !.offline = TRUE]
  <2>1. /\ d \in CallType /\ d.pc = "sw_save" /\ d.user = u
        /\ d.group = c.group /\ d.obj = c.obj
    BY <1>1, SweepingPcs DEF CallType
  <2>2. m \in MemberType /\ m.in = n.in /\ m.sock = n.sock /\ m.sos = n.sos /\ m.offline
    BY <1>1 DEF MemberType
  <2>3. heap' = [heap EXCEPT ![c.obj][u] = m]
    BY <1>1, <1>3 DEF Typed, TypeOK
  <2>4. Await(s, d)
    BY <1>3
  <2> HIDE DEF d, m
  <2>5. Deals(s, u, d, m)
    BY <1>1, <1>3, <2>1, <2>2, <2>3, <2>4, DealingOK DEF Deals
  <2>6. QED
    BY <2>5
<1>4. QED
  BY <1>2, <1>3 DEF OfflineCheck

LEMMA PresenceDeals ==
  ASSUME Typed, NEW s \in Sweeps, ~At(s, "idle"), NEW u \in Users,
         Presence(s, call[s], u)
  PROVE  \E d, m : Deals(s, u, d, m)
<1> DEFINE c == call[s]
           n == heap[c.obj][u]
<1>1. c \in CallType /\ c.group \in Groups /\ c.obj \in Objs /\ n \in MemberType
  BY SweepingSlot, StateTyped DEF Typed
<1>2. CASE Await(s, Visited(c, u)) /\ UNCHANGED <<heap, hist>>
  BY <1>2, OfflineDeals DEF OfflineCheck
<1>3. CASE OfflineCheck(s, c, u)
  BY <1>3, OfflineDeals
<1>4. CASE /\ heap' = [heap EXCEPT ![c.obj][u].inactive = TRUE]
           /\ Await(s, [c EXCEPT !.pc = "sw_notice", !.user = u])
           /\ UNCHANGED hist
  <2> DEFINE d == [c EXCEPT !.pc = "sw_notice", !.user = u]
             m == [n EXCEPT !.inactive = TRUE]
  <2>1. /\ d \in CallType /\ d.pc = "sw_notice" /\ d.user = u
        /\ d.group = c.group /\ d.obj = c.obj
    BY <1>1, SweepingPcs DEF CallType
  <2>2. /\ m \in MemberType /\ m.in = n.in /\ m.sock = n.sock /\ m.sos = n.sos
        /\ m.offline = n.offline
    BY <1>1 DEF MemberType
  <2>3. heap' = [heap EXCEPT ![c.obj][u] = m]
    BY <1>1, <1>4 DEF Typed, TypeOK
  <2>4. Await(s, d)
    BY <1>4
  <2> HIDE DEF d, m
  <2>5. Deals(s, u, d, m)
    BY <1>1, <1>4, <2>1, <2>2, <2>3, <2>4, DealingOK DEF Deals
  <2>6. QED
    BY <2>5
<1>5. QED
  BY <1>2, <1>3, <1>4 DEF Presence

LEMMA DealsTyped ==
  ASSUME Typed, NEW s \in Sweeps, ~At(s, "idle"), NEW u \in Users, NEW d, NEW m,
         Deals(s, u, d, m)
  PROVE  CallTyped' /\ heap' \in [Objs -> [Users -> MemberType]] /\ hist' \in HistType
<1>1. /\ s \in Slots /\ call[s].obj \in Objs
      /\ heap[call[s].obj][u].sock \in Maybe(Sockets)
  BY SweepingSlot, StateTyped DEF Typed, MemberType
<1>2. CallTyped'
  BY <1>1, AwaitTyped DEF Deals, Typed
<1>3. heap' \in [Objs -> [Users -> MemberType]]
  BY <1>1, RecordTyped DEF Deals, Typed
<1>4. hist' \in HistType
  BY <1>1, StateTyped DEF Deals, Typed, HistType, Maybe
<1>5. QED
  BY <1>2, <1>3, <1>4

\* A pass that finds the trip of u overdue either raises the SOS in the
\* session the map has, or leaves u alone.
Alarms(s, u) ==
  /\ RequireMember(u, call[s].group)
  /\ SetSos(s, u, call[s].group, TRUE, [call[s] EXCEPT !.pc = "sw_flag"])

LEMMA AlarmsTyped ==
  ASSUME Typed, NEW s \in Sweeps, ~At(s, "idle"), NEW u \in Users, Alarms(s, u)
  PROVE  CallTyped' /\ heap' \in [Objs -> [Users -> MemberType]] /\ hist' \in HistType
<1> DEFINE c == [call[s] EXCEPT !.pc = "sw_flag"]
<1>1. /\ s \in Slots /\ call[s] \in CallType
      /\ call[s].group \in Groups /\ call[s].obj \in Objs
  BY SweepingSlot DEF Typed
<1> DEFINE d == [c EXCEPT !.user = u, !.to = TRUE]
<1>2. /\ d \in CallType /\ d.pc = "sw_flag" /\ d.user = u
      /\ d.group = call[s].group /\ d.obj = call[s].obj
  BY <1>1, SweepingPcs DEF CallType
<1>3. d \in CallType /\ CallOK(s, d)
  <2> HIDE DEF d
  <2>1. QED
    BY <1>1, <1>2, DealingOK
<1> HIDE DEF c
<1>4. SetSos(s, u, call[s].group, TRUE, c)
  BY DEF Alarms, c
<1>5. QED
  BY <1>1, <1>3, <1>4, SetSosTyped DEF Alarms

\* What a step of a pass with a member amounts to.
LEMMA PassCases ==
  ASSUME Typed, NEW s \in Sweeps, NEW u \in Users,
         \/ Visit(s, u)
         \/ (SweepAlarmed(s) \/ SweepNoticed(s)) /\ u = call[s].user
  PROVE  /\ ~At(s, "idle")
         /\ UNCHANGED <<groups, database, sock>>
         /\ used' \in Nat
         /\ (\E d, m : Deals(s, u, d, m)) \/ Alarms(s, u)
<1>1. ~At(s, "idle")
  BY DEF Visit, SweepAlarmed, SweepNoticed, At
<1>2. UNCHANGED <<groups, database, sock>> /\ used' \in Nat
  BY SpendTyped DEF Visit, SweepAlarmed, SweepNoticed, Typed, TypeOK
<1>3. CASE Presence(s, call[s], u) \/ OfflineCheck(s, call[s], u)
  BY <1>1, <1>2, <1>3, PresenceDeals, OfflineDeals
<1>4. CASE Await(s, Visited(call[s], u)) /\ UNCHANGED <<heap, hist>>
  BY <1>1, <1>2, <1>4, OfflineDeals DEF OfflineCheck
<1>5. CASE Alarms(s, u)
  BY <1>1, <1>2, <1>5
<1>6. QED
  BY <1>3, <1>4, <1>5 DEF Visit, SweepAlarmed, SweepNoticed, Alarms

LEMMA PassTyped ==
  ASSUME Typed, NEW s \in Sweeps, NEW u \in Users,
         \/ Visit(s, u)
         \/ (SweepAlarmed(s) \/ SweepNoticed(s)) /\ u = call[s].user
  PROVE  StepTyped'
<1>1. CallTyped' /\ heap' \in [Objs -> [Users -> MemberType]] /\ hist' \in HistType
  BY PassCases, DealsTyped, AlarmsTyped
<1>2. QED
  BY <1>1, PassCases, SameSock DEF database, StepTyped, Typed, TypeOK

LEMMA StartPassTyped ==
  ASSUME Typed, NEW s \in Sweeps, NEW g \in Groups, StartPass(s, g)
  PROVE  StepTyped'
<1>1. CallTyped'
  <2>1. groups \in [Groups -> Maybe(Objs)] /\ s \in Slots
    BY Nones DEF Typed, TypeOK
  <2>2. QED
    BY <2>1, EnteringTyped, NoCallTyped, AwaitTyped DEF StartPass, Typed
<1>2. used' \in Nat
  BY SpendTyped DEF StartPass, Typed, TypeOK
<1>3. QED
  BY <1>1, <1>2, SameSock
  DEF StartPass, memory, database, StepTyped, Typed, TypeOK, HistType

LEMMA SaveFlagTyped ==
  ASSUME Typed, NEW s \in Slots, SaveFlag(s)
  PROVE  StepTyped'
<1>1. call[s] \in CallType
  BY StateTyped DEF Typed
<1>2. CallTyped'
  <2>1. CASE Return(s)
    BY <2>1, ReturnTyped DEF Typed
  <2>2. CASE At(s, "sw_flag") /\ Await(s, [call[s] EXCEPT !.pc = "sw_alarmed"])
    <3> DEFINE c == [call[s] EXCEPT !.pc = "sw_alarmed"]
    <3>1. s \in Sweeps /\ ~At(s, "idle")
      BY <2>2, StateTyped DEF At, CallOK, SweepPcs, Typed
    <3>2. /\ call[s].group \in Groups /\ call[s].obj \in Objs /\ call[s].user \in Users
          /\ call[s].to \in BOOLEAN
      BY <1>1, <2>2, <3>1, SweepingSlot DEF At, Typed, CallType
    <3>3. /\ c \in CallType /\ c.pc = "sw_alarmed" /\ c.user = call[s].user
          /\ c.group = call[s].group /\ c.obj = call[s].obj
      BY <1>1, SweepingPcs DEF CallType
    <3>4. Await(s, c)
      BY <2>2
    <3> HIDE DEF c
    <3>5. CallOK(s, c)
      BY <3>1, <3>2, <3>3, DealingOK
    <3>6. QED
      BY <3>3, <3>4, <3>5, AwaitTyped DEF Typed
  <2>3. QED
    BY <2>1, <2>2 DEF SaveFlag
<1>3. flag' \in [Users -> BOOLEAN]
  BY <1>1 DEF SaveFlag, Typed, TypeOK, CallType
<1>4. QED
  BY <1>2, <1>3, SameSock DEF SaveFlag, memory, StepTyped, Typed, TypeOK, HistType

LEMMA SnapshotTyped ==
  ASSUME Typed, NEW s \in Sweeps, SnapshotMember(s)
  PROVE  StepTyped'
<1>1. /\ s \in Slots /\ call[s] \in CallType /\ call[s].group \in Groups
      /\ call[s].obj \in Objs /\ call[s].user \in Users
  BY SweepingSlot DEF SnapshotMember, At, Typed
<1>2. CallTyped'
  BY <1>1, VisitedTyped, AwaitTyped DEF SnapshotMember, Typed
<1>3. rows' \in [Groups -> [Users -> RowType]]
  BY <1>1, RowPlaced DEF SnapshotMember, Typed
<1>4. hist' \in HistType
  BY DEF SnapshotMember, SavedAt, Typed, TypeOK, HistType
<1>5. QED
  BY <1>2, <1>3, <1>4, SameSock DEF SnapshotMember, memory, StepTyped, Typed, TypeOK

\* A pass goes on with the next group, or ends; others forget that they have
\* met the group, if its session was dropped.
NextGroup(s, d, map) ==
  /\ d \in CallType /\ CallOK(s, d)
  /\ \/ d.pc = "idle"
     \/ d.pc = "sw_visit" /\ d.group \in Groups /\ d.obj = map[d.group] /\ d.obj # None

SameHandler(b, c) ==
  /\ b.pc = c.pc /\ b.sock = c.sock /\ b.user = c.user /\ b.group = c.group /\ b.obj = c.obj
  /\ b.ok = c.ok /\ b.loc = c.loc /\ b.seen = c.seen /\ b.sos = c.sos /\ b.to = c.to

LEMMA EndCalls ==
  ASSUME Typed, NEW s \in Sweeps, EndGroup(s)
  PROVE  /\ s \in Slots /\ call[s].group \in Groups /\ call[s].obj \in Objs
         /\ call' \in [Slots -> CallType]
         /\ groups' \in [Groups -> Maybe(Objs)]
         /\ NextGroup(s, call'[s], groups')
         /\ \A t \in Slots \ {s} : SameHandler(call'[t], call[t])
<1> DEFINE c == call[s]
           g == c.group
           gone == \A u \in Users : heap[c.obj][u].in => heap[c.obj][u].offline
           map == IF gone THEN [groups EXCEPT ![g] = None] ELSE groups
           past == IF map[g] = c.obj THEN c.past \cup {g} ELSE c.past
           rest == {h \in Groups : map[h] # None /\ h \notin past}
           others == [t \in Slots |->
                        IF gone THEN [call[t] EXCEPT !.past = @ \ {g}] ELSE call[t]]
           b == [NoCall EXCEPT !.past = past]
<1>1. /\ s \in Slots /\ c \in CallType /\ g \in Groups /\ c.obj \in Objs
      /\ groups' = map
  BY SweepingSlot DEF EndGroup, At, Typed
<1>2. map \in [Groups -> Maybe(Objs)]
  BY <1>1 DEF Typed, TypeOK, Maybe
<1>3. past \in SUBSET Groups
  BY <1>1 DEF CallType
<1>4. b \in CallType
  <2> HIDE DEF past
  <2>1. QED
    BY <1>3, NoCallTyped DEF CallType
<1>5. /\ others \in [Slots -> CallType]
      /\ \A t \in Slots : SameHandler(others[t], call[t])
  <2>1. \A t \in Slots : call[t] \in CallType
    BY StateTyped DEF Typed
  <2>2. \A t \in Slots : /\ [call[t] EXCEPT !.past = @ \ {g}] \in CallType
                         /\ SameHandler([call[t] EXCEPT !.past = @ \ {g}], call[t])
    BY <2>1 DEF CallType, SameHandler
  <2>3. QED
    BY <2>1, <2>2 DEF SameHandler
<1>6. PICK d : NextGroup(s, d, map) /\ call' = [others EXCEPT ![s] = d]
  <2>1. CASE rest = {}
    <3>1. call' = [others EXCEPT ![s] = NoCall]
      BY <2>1 DEF EndGroup
    <3>2. NextGroup(s, NoCall, map)
      BY <1>1, NoCallTyped DEF NextGroup, NoCall
    <3>3. QED
      BY <3>1, <3>2
  <2>2. CASE rest # {}
    <3>1. PICK h \in rest : call' = [others EXCEPT ![s] = Entering(b, h, map)]
      BY <2>2 DEF EndGroup
    <3>2. h \in Groups /\ map[h] # None
      OBVIOUS
    <3> HIDE DEF map, b, others, rest
    <3>3. Entering(b, h, map) \in CallType /\ CallOK(s, Entering(b, h, map))
      BY <1>2, <1>4, <3>2, EnteringTyped
    <3>4. /\ Entering(b, h, map).pc = "sw_visit" /\ Entering(b, h, map).group = h
          /\ Entering(b, h, map).obj = map[h]
      BY <1>4 DEF Entering, CallType
    <3>5. NextGroup(s, Entering(b, h, map), map)
      BY <3>2, <3>3, <3>4 DEF NextGroup
    <3>6. QED
      BY <3>1, <3>5
  <2>3. QED
    BY <2>1, <2>2
<1> HIDE DEF map, others
<1>7. /\ call' \in [Slots -> CallType] /\ call'[s] = d
      /\ \A t \in Slots \ {s} : SameHandler(call'[t], call[t])
  BY <1>1, <1>5, <1>6 DEF NextGroup
<1>8. QED
  BY <1>1, <1>2, <1>6, <1>7

LEMMA EndGroupTyped ==
  ASSUME Typed, NEW s \in Sweeps, EndGroup(s)
  PROVE  StepTyped'
<1>1. CallTyped'
  <2>1. \A t \in Slots \ {s} : CallOK(t, call'[t])
    BY EndCalls, StateTyped DEF SameHandler, CallOK, Typed
  <2>2. QED
    BY <2>1, EndCalls DEF NextGroup, CallTyped, CallOK
<1>2. heap' \in [Objs -> [Users -> MemberType]]
  BY CollectedTyped DEF EndGroup, Typed, TypeOK
<1>3. hist' \in HistType
  <2> DEFINE g == call[s].group
             L == hist.lost \cup SocketsIn(g)
             A == hist.apart \ (Users \X {g})
             U == hist.unsaved \ (Users \X {g})
  <2>1. /\ hist.lost \in SUBSET Sockets /\ L \in SUBSET Sockets
        /\ A \in SUBSET Pairs /\ U \in SUBSET Pairs /\ hist \in HistType
    BY OwnSockets, StateTyped DEF Typed, HistType
  <2>2. \/ hist' = hist
        \/ hist' = [lost |-> hist.lost, apart |-> A, unsaved |-> U]
        \/ hist' = [lost |-> L, apart |-> A, unsaved |-> U]
    BY DEF EndGroup
  <2> HIDE DEF L, A, U
  <2>3. QED
    BY <2>1, <2>2 DEF HistType
<1>4. QED
  BY <1>1, <1>2, <1>3, EndCalls, SameSock DEF EndGroup, database, StepTyped, Typed, TypeOK

LEMMA FailTyped ==
  ASSUME Typed, NEW s \in Slots, Fail(s)
  PROVE  StepTyped'
<1>1. call[s] \in CallType /\ CallOK(s, call[s]) /\ call[s].user \in Users
  BY StateTyped DEF Fail, Typed, CallOK
<1>2. CallTyped'
  <2>1. CASE s \in Sweeps
    <3>1. call[s].group \in Groups /\ call[s].obj \in Objs
      BY <2>1, SweepingSlot DEF Fail, At, Typed
    <3>2. QED
      BY <1>1, <2>1, <3>1, VisitedTyped, AwaitTyped DEF Fail, Typed
  <2>2. CASE s \notin Sweeps
    BY <2>2, NoCallTyped, AwaitTyped DEF Fail, Typed
  <2>3. QED
    BY <2>1, <2>2
<1>3. SockTyped'
  BY <1>1, SameSock, SockRefused DEF Fail, CallOK
<1>4. hist' \in HistType
  <2> DEFINE P == ({call[s].user} \X Groups) \cap Held
             Q == {<<call[s].user, call[s].group>>} \cap Held
  <2>1. P \in SUBSET Pairs /\ Q \in SUBSET Pairs
    BY PairsOf
  <2> HIDE DEF P, Q
  <2>2. PICK X \in SUBSET Pairs, Y \in SUBSET Pairs :
          hist' = [hist EXCEPT !.apart = @ \cup X, !.unsaved = @ \cup Y]
    BY <2>1 DEF Fail, P, Q
  <2>3. QED
    BY <2>2, StateTyped DEF Typed, HistType
<1>5. QED
  BY <1>2, <1>3, <1>4, SpendTyped DEF Fail, memory, database, StepTyped, Typed, TypeOK

LEMMA CrashTyped ==
  ASSUME Typed, Crash
  PROVE  StepTyped'
<1>1. CallTyped'
  BY NoCallTyped DEF Crash, CallTyped, CallOK
<1>2. SockTyped'
  <2>1. Unused \in SockType /\ Unused.st = "unused" /\ Unused.user = None /\ ~Unused.data
    BY DEF Unused, SockType, Maybe
  <2>2. QED
    BY <2>1, GoneTyped DEF Crash, SockTyped, SocksOwned
<1>3. /\ groups' \in [Groups -> Maybe(Objs)] /\ heap' \in [Objs -> [Users -> MemberType]]
      /\ hist' \in HistType
  BY AbsentTyped DEF Crash, Blank, HistType, Maybe
<1>4. QED
  BY <1>1, <1>2, <1>3, SpendTyped DEF Crash, database, StepTyped, Typed, TypeOK

LEMMA InitTyped == Init => Typed
<1> SUFFICES ASSUME Init PROVE Typed
  OBVIOUS
<1>1. CallTyped
  BY NoCallTyped DEF Init, CallTyped
<1>2. SockTyped
  <2>1. Unused \in SockType /\ Unused.st = "unused" /\ Unused.user = None /\ ~Unused.data
    BY DEF Unused, SockType, Maybe
  <2>2. QED
    BY <2>1 DEF Init, SockTyped, SocksOwned
<1>3. used \in Nat
  <2>1. {u \in Users : flag[u]} \in SUBSET Users
    OBVIOUS
  <2>2. QED
    BY <2>1, LiveUsers, FS_Subset, FS_CardinalityType DEF Init
<1>4. QED
  BY <1>1, <1>2, <1>3, AbsentTyped
  DEF Init, Blank, Typed, TypeOK, CallTyped, CallOK, SockTyped, Maybe

LEMMA StepIsTyped == ASSUME Typed, Step PROVE StepTyped'
<1>1. CASE \E s \in Clients :
             \/ \E u \in Users, g \in Groups, loc \in BOOLEAN : Connect(s, u, g, loc)
             \/ \E k \in Sockets, to \in BOOLEAN : ChangeSos(s, k, to)
             \/ \E k \in Sockets : Disconnect(s, k)
             \/ AttachMember(s) \/ StartBuilding(s) \/ ReadGroup(s) \/ BuildGroupSession(s)
             \/ Reject(s) \/ PersistLastLocation(s)
  BY <1>1, Nones, ConnectTyped, ChangeSosTyped, DisconnectTyped, AttachMemberTyped,
     BuildingTyped, BuildGroupSessionTyped, RejectTyped, PersistTyped
<1>2. CASE \E u \in Users, g \in Groups :
             UpdateLocation(u, g) \/ LeaveGroup(u, g) \/ AddUserToGroup(u, g)
  BY <1>2, UpdateLocationTyped, RowsTyped
<1>3. CASE \E s \in Sweeps :
             \/ \E g \in Groups : StartPass(s, g)
             \/ \E u \in Users : Visit(s, u)
             \/ SnapshotMember(s) \/ EndGroup(s)
  BY <1>3, StartPassTyped, PassTyped, SnapshotTyped, EndGroupTyped
<1>4. ASSUME NEW s \in Sweeps, SweepAlarmed(s) \/ SweepNoticed(s) PROVE StepTyped'
  <2>1. call[s].user \in Users
    BY <1>4, SweepingSlot DEF SweepAlarmed, SweepNoticed, At, Typed
  <2>2. QED
    BY <1>4, <2>1, PassTyped
<1>5. CASE (\E s \in Slots : SaveFlag(s) \/ Fail(s)) \/ Crash
  BY <1>5, SaveFlagTyped, FailTyped, CrashTyped
<1>6. QED
  BY <1>1, <1>2, <1>3, <1>4, <1>5 DEF Step

LEMMA NextTyped == Typed /\ [Next]_vars => Typed'
<1> SUFFICES ASSUME Typed, [Next]_vars PROVE Typed'
  OBVIOUS
<1>1. CASE UNCHANGED vars
  <2>1. CallTyped' /\ SockTyped'
    BY <1>1, SameCallTyped, SameSock DEF vars, Typed
  <2>2. QED
    BY <1>1, <2>1, TypedParts DEF vars, memory, database, Typed, TypeOK, HistType
<1>2. CASE Next
  <2>1. StepTyped'
    BY <1>2, StepIsTyped DEF Next
  <2>2. left' \in SUBSET Pairs
    BY <1>2 DEF Next
  <2>3. QED
    BY <2>1, <2>2, TypedParts DEF StepTyped
<1>3. QED
  BY <1>1, <1>2

\* Every variable keeps its type and every suspended handler what its next
\* segment uses, for any users, groups, sockets, objects and handlers.
THEOREM TypeCorrect == Spec => []TypeOK
<1>1. Typed => TypeOK
  BY DEF Typed
<1>2. QED
  BY <1>1, InitTyped, NextTyped, PTL DEF Spec

-----------------------------------------------------------------------------
(* Records and the map *)

\* u's record in the session the map has of g.
Member(u, g) == IF groups[g] = None THEN Absent ELSE heap[groups[g]][u]

\* No two groups share an object, and a pass works on an object of its group.
Mapped ==
  /\ \A g, h \in Groups : groups[g] # None /\ groups[g] = groups[h] => g = h
  /\ \A s \in Sweeps : ~At(s, "idle") =>
       \A h \in Groups : groups[h] = call[s].obj => h = call[s].group

LEMMA LiveIsMember ==
  ASSUME Typed, NEW u \in Users, NEW g \in Groups
  PROVE  /\ RequireMember(u, g) <=> Member(u, g).in
         /\ RequireMember(u, g) => Rec(u, g) = Member(u, g)
         /\ Member(u, g) \in MemberType
BY AbsentTyped, StateTyped DEF RequireMember, Rec, Member, Absent, Typed, Maybe

\* What a step does to the records.
Stays == \A v \in Users, h \in Groups : Member(v, h)' = Member(v, h)
Becomes(u, g, m) ==
  \A v \in Users, h \in Groups :
    Member(v, h)' = IF v = u /\ h = g THEN m ELSE Member(v, h)

LEMMA SameMemory == ASSUME UNCHANGED memory PROVE Stays
BY DEF memory, Stays, Member

LEMMA RecordBecomes ==
  ASSUME Typed, Mapped, NEW u \in Users, NEW g \in Groups, NEW m, groups[g] # None,
         heap' = [heap EXCEPT ![groups[g]][u] = m], UNCHANGED groups
  PROVE  Becomes(u, g, m)
<1>1. groups[g] \in Objs
  BY StateTyped DEF Typed, Maybe
<1>2. heap'[groups[g]][u] = m
  BY <1>1 DEF Typed, TypeOK
<1>3. ASSUME NEW v \in Users, NEW h \in Groups, v # u \/ h # g, groups[h] # None
      PROVE  heap'[groups[h]][v] = heap[groups[h]][v]
  <2>1. groups[h] \in Objs
    BY <1>3, StateTyped DEF Typed, Maybe
  <2>2. groups[h] # groups[g] \/ v # u
    BY <1>3 DEF Mapped
  <2>3. QED
    BY <1>1, <2>1, <2>2 DEF Typed, TypeOK
<1>4. QED
  BY <1>1, <1>2, <1>3 DEF Becomes, Member

\* A pass whose object the map has lost changes no record of a live session.
LEMMA PassBecomes ==
  ASSUME Typed, Mapped, NEW s \in Sweeps, ~At(s, "idle"), NEW u \in Users, NEW m,
         heap' = [heap EXCEPT ![call[s].obj][u] = m], UNCHANGED groups
  PROVE  \/ /\ Becomes(u, call[s].group, m)
            /\ heap[call[s].obj][u] = Member(u, call[s].group)
         \/ Stays
<1> DEFINE o == call[s].obj
           g == call[s].group
<1>1. o \in Objs /\ g \in Groups /\ o # None
  BY SweepingSlot, Nones DEF Typed
<1>2. CASE groups[g] = o
  <2>1. heap' = [heap EXCEPT ![groups[g]][u] = m] /\ groups[g] # None
    BY <1>1, <1>2
  <2>2. Becomes(u, g, m)
    BY <1>1, <2>1, RecordBecomes
  <2>3. QED
    BY <1>2, <2>1, <2>2 DEF Member
<1>3. CASE groups[g] # o
  <2>1. \A h \in Groups : groups[h] # o
    BY <1>3 DEF Mapped
  <2>2. \A p \in Objs \ {o} : heap'[p] = heap[p]
    BY DEF Typed, TypeOK
  <2>3. \A h \in Groups : groups[h] = None \/ groups[h] \in Objs \ {o}
    BY <2>1, StateTyped DEF Typed, Maybe
  <2>4. QED
    BY <2>2, <2>3 DEF Stays, Member
<1>4. QED
  BY <1>2, <1>3

LEMMA AttachBecomes ==
  ASSUME Typed, Mapped, NEW s \in Slots, AttachMember(s)
  PROVE  LET c == call[s]
             m == Member(c.user, c.group)
         IN  Becomes(c.user, c.group,
                     IF m.in THEN Attached(m, c.sock, c.loc) ELSE Newcomer(c.sock, c.loc))
<1> DEFINE c == call[s]
           m == Member(c.user, c.group)
           n == IF m.in THEN Attached(m, c.sock, c.loc) ELSE Newcomer(c.sock, c.loc)
<1>1. c.user \in Users /\ c.group \in Groups /\ groups[c.group] # None
  BY ConnectingSlot DEF AttachMember, At, ConnectPcs, Typed
<1>2. groups[c.group] \in Objs /\ m = heap[groups[c.group]][c.user]
  BY <1>1, StateTyped DEF Member, Typed, Maybe
<1>3. heap' = [heap EXCEPT ![groups[c.group]][c.user] = n] /\ UNCHANGED groups
  BY <1>1, <1>2 DEF AttachMember, Rec, Typed, TypeOK
<1> HIDE DEF n
<1>4. Becomes(c.user, c.group, n)
  BY <1>1, <1>3, RecordBecomes
<1>5. QED
  BY <1>4 DEF n

LEMMA DisconnectBecomes ==
  ASSUME Typed, Mapped, NEW s \in Slots, NEW k \in Sockets, Disconnect(s, k)
  PROVE  LET u == sock[k].user
             g == sock[k].group
         IN  /\ u \in Users /\ g \in Groups
             /\ sock[k].data /\ RequireMember(u, g) => Becomes(u, g, [Member(u, g) EXCEPT !.sock = None])
             /\ ~(sock[k].data /\ RequireMember(u, g)) => Stays
<1> DEFINE u == sock[k].user
           g == sock[k].group
           m == [Member(u, g) EXCEPT !.sock = None]
<1>1. u \in Users /\ g \in Groups
  BY DEF Disconnect, Typed, SocksOwned
<1>2. CASE sock[k].data /\ RequireMember(u, g)
  <2>1. groups[g] \in Objs /\ groups[g] # None
    BY <1>1, <1>2, LiveRecord DEF Typed, RequireMember
  <2>2. heap' = [heap EXCEPT ![groups[g]][u] = m] /\ UNCHANGED groups
    BY <1>1, <1>2, <2>1 DEF Disconnect, Typed, TypeOK, Member
  <2> HIDE DEF m
  <2>3. Becomes(u, g, m)
    BY <1>1, <2>1, <2>2, RecordBecomes
  <2>4. QED
    BY <1>1, <1>2, <2>3 DEF m
<1>3. CASE ~(sock[k].data /\ RequireMember(u, g))
  BY <1>1, <1>3, SameMemory DEF Disconnect, memory
<1>4. QED
  BY <1>2, <1>3

LEMMA LocationBecomes ==
  ASSUME Typed, Mapped, NEW u \in Users, NEW g \in Groups, UpdateLocation(u, g)
  PROVE  /\ Member(u, g).in
         /\ Becomes(u, g, [Member(u, g) EXCEPT !.loc = TRUE, !.offline = FALSE, !.inactive = FALSE])
<1> DEFINE m == [Member(u, g) EXCEPT !.loc = TRUE, !.offline = FALSE, !.inactive = FALSE]
<1>1. groups[g] \in Objs /\ groups[g] # None
  BY LiveRecord DEF UpdateLocation, Typed, RequireMember
<1>2. heap' = [heap EXCEPT ![groups[g]][u] = m] /\ UNCHANGED groups
  BY <1>1 DEF UpdateLocation, Typed, TypeOK, Member
<1> HIDE DEF m
<1>3. Becomes(u, g, m)
  BY <1>1, <1>2, RecordBecomes
<1>4. QED
  BY <1>3, LiveIsMember DEF UpdateLocation, m

LEMMA SosBecomes ==
  ASSUME Typed, Mapped, NEW s, NEW u \in Users, NEW g \in Groups, NEW to, NEW c,
         RequireMember(u, g), SetSos(s, u, g, to, c), UNCHANGED groups
  PROVE  Becomes(u, g, [Member(u, g) EXCEPT !.sos = to])
<1> DEFINE m == [Member(u, g) EXCEPT !.sos = to]
<1>1. groups[g] \in Objs /\ groups[g] # None
  BY LiveRecord DEF Typed, RequireMember
<1>2. heap' = [heap EXCEPT ![groups[g]][u] = m]
  BY <1>1 DEF SetSos, Typed, TypeOK, Member
<1> HIDE DEF m
<1>3. Becomes(u, g, m)
  BY <1>1, <1>2, RecordBecomes
<1>4. QED
  BY <1>3 DEF m

\* The session of g is built; the others keep their objects.
LEMMA BuildBecomes ==
  ASSUME Typed, Mapped, NEW s \in Slots, BuildGroupSession(s)
  PROVE  \A v \in Users, h \in Groups :
           Member(v, h)' = IF h = call[s].group THEN Restored(call[s], v) ELSE Member(v, h)
<1> DEFINE c == call[s]
           o == CHOOSE o \in Unreferenced : TRUE
           f == [u \in Users |-> Restored(c, u)]
           n == [heap EXCEPT ![o] = f]
<1>1. c.group \in Groups /\ o \in Objs /\ \A g \in Groups : groups[g] # o
  BY ConnectingSlot, PickedObject DEF BuildGroupSession, At, ConnectPcs, Typed
<1> HIDE DEF o
<1>2. groups' = [groups EXCEPT ![c.group] = o] /\ heap' = Collected(n, groups', Passes)
  BY DEF BuildGroupSession, o
<1>3. /\ groups'[c.group] = o /\ o # None
      /\ \A h \in Groups \ {c.group} : groups'[h] = groups[h]
  BY <1>1, <1>2, Nones DEF Typed, TypeOK
<1>4. \A g \in Groups : groups'[g] \in Objs => heap'[groups'[g]] = n[groups'[g]]
  <2> HIDE DEF n
  <2>1. QED
    BY <1>2 DEF Collected
<1>5. n[o] = f /\ \A p \in Objs \ {o} : n[p] = heap[p]
  BY <1>1 DEF Typed, TypeOK
<1>6. ASSUME NEW v \in Users, NEW h \in Groups, h = c.group
      PROVE  Member(v, h)' = Restored(c, v)
  <2>1. groups'[h] = o /\ heap'[groups'[h]] = f
    BY <1>1, <1>3, <1>4, <1>5, <1>6
  <2>2. f[v] = Restored(c, v)
    OBVIOUS
  <2>3. QED
    BY <1>3, <2>1, <2>2 DEF Member
<1>7. ASSUME NEW v \in Users, NEW h \in Groups, h # c.group
      PROVE  Member(v, h)' = Member(v, h)
  <2>1. groups'[h] = groups[h] /\ (groups[h] # None => groups[h] \in Objs \ {o})
    BY <1>1, <1>3, <1>7, StateTyped DEF Typed, Maybe
  <2>2. groups[h] # None => heap'[groups[h]] = heap[groups[h]]
    BY <1>4, <1>5, <2>1
  <2>3. QED
    BY <2>1, <2>2 DEF Member
<1>8. QED
  BY <1>6, <1>7

\* A pass ends with a group: the session stays, or all its records go.
AllOffline(s) == \A u \in Users : heap[call[s].obj][u].in => heap[call[s].obj][u].offline

LEMMA EndBecomes ==
  ASSUME Typed, NEW s \in Sweeps, EndGroup(s)
  PROVE  /\ ~AllOffline(s) => Stays
         /\ AllOffline(s) =>
              \A v \in Users, h \in Groups :
                Member(v, h)' = IF h = call[s].group THEN Absent ELSE Member(v, h)
<1> DEFINE g == call[s].group
<1>1. g \in Groups /\ groups' \in [Groups -> Maybe(Objs)]
  BY EndCalls
<1>2. groups' = IF AllOffline(s) THEN [groups EXCEPT ![g] = None] ELSE groups
  BY DEF EndGroup, AllOffline
<1>3. \A h \in Groups : groups'[h] # None => heap'[groups'[h]] = heap[groups'[h]]
  <2>1. PICK x : heap' = Collected(heap, groups', x)
    BY <1>2 DEF EndGroup, AllOffline
  <2>2. \A h \in Groups : groups'[h] # None => groups'[h] \in Objs
    BY <1>1 DEF Maybe
  <2>3. QED
    BY <2>1, <2>2 DEF Collected
<1>4. CASE AllOffline(s)
  <2>1. groups'[g] = None /\ \A h \in Groups \ {g} : groups'[h] = groups[h]
    BY <1>1, <1>2, <1>4 DEF Typed, TypeOK
  <2>2. QED
    BY <1>3, <1>4, <2>1 DEF Member
<1>5. CASE ~AllOffline(s)
  BY <1>2, <1>3, <1>5 DEF Stays, Member
<1>6. QED
  BY <1>4, <1>5

LEMMA CrashBecomes == ASSUME Crash PROVE \A v \in Users, h \in Groups : Member(v, h)' = Absent
BY DEF Crash, Member

LEMMA PassEffect ==
  ASSUME Typed, Mapped, NEW s \in Sweeps, ~At(s, "idle"), NEW u \in Users, NEW d, NEW m,
         Deals(s, u, d, m), UNCHANGED groups
  PROVE  \/ /\ Becomes(u, call[s].group, m)
            /\ heap[call[s].obj][u] = Member(u, call[s].group)
         \/ Stays
BY PassBecomes DEF Deals

FlagPcs == {"sos_flag", "sw_flag"}

\* A step that changes the SOS of u's record in the session of g.
SosStep(u, g, to) ==
  \/ \E s \in Clients, k \in Sockets :
       ChangeSos(s, k, to) /\ sock[k].user = u /\ sock[k].group = g
  \/ \E s \in Sweeps :
       Alarms(s, u) /\ call[s].pc \notin FlagPcs /\ call[s].group = g /\ to = TRUE

\* What a step may do to u's record in the session of g: m before, n after.
RecordStep(u, g, m, n) ==
  \/ n = m
  \/ \E s \in Clients :
       /\ AttachMember(s) /\ u = call[s].user /\ g = call[s].group
       /\ n.in /\ n.sock = call[s].sock /\ ~n.offline /\ n.sos = (m.in /\ m.sos)
  \/ \E s \in Clients :
       BuildGroupSession(s) /\ g = call[s].group /\ n = Restored(call[s], u)
  \/ \E s \in Clients, k \in Sockets :
       /\ Disconnect(s, k) /\ u = sock[k].user /\ g = sock[k].group
       /\ n.in = m.in /\ n.sock = None /\ n.sos = m.sos /\ n.offline = m.offline
  \/ /\ UpdateLocation(u, g)
     /\ n.in = m.in /\ n.sock = m.sock /\ n.sos = m.sos /\ ~n.offline
  \/ \E to \in BOOLEAN :
       /\ SosStep(u, g, to)
       /\ n.in = m.in /\ n.sock = m.sock /\ n.sos = to /\ n.offline = m.offline
  \/ \E s \in Sweeps :
       /\ ~At(s, "idle") /\ g = call[s].group /\ m = heap[call[s].obj][u]
       /\ \E d : Deals(s, u, d, n)
  \/ /\ Crash \/ \E s \in Sweeps : EndGroup(s) /\ AllOffline(s) /\ g = call[s].group
     /\ n = Absent

LEMMA RecordSteps ==
  ASSUME Typed, Mapped, Step, NEW u \in Users, NEW g \in Groups
  PROVE  RecordStep(u, g, Member(u, g), Member(u, g)')
<1> DEFINE Goal == RecordStep(u, g, Member(u, g), Member(u, g)')
<1>1. ASSUME NEW v \in Users, NEW h \in Groups, NEW m, Becomes(v, h, m)
      PROVE  IF u = v /\ g = h THEN Member(u, g)' = m ELSE Member(u, g)' = Member(u, g)
  BY <1>1 DEF Becomes
<1>2. ASSUME Member(u, g)' = Member(u, g)
      PROVE  Goal
  BY <1>2 DEF RecordStep
<1>3. ASSUME NEW s \in Clients, AttachMember(s)
      PROVE  Goal
  <2> DEFINE c == call[s]
             m == Member(c.user, c.group)
             n == IF m.in THEN Attached(m, c.sock, c.loc) ELSE Newcomer(c.sock, c.loc)
  <2>1. c.user \in Users /\ c.group \in Groups
    BY <1>3, Nones, ConnectingSlot DEF AttachMember, At, ConnectPcs, Typed
  <2>2. n.in /\ n.sock = c.sock /\ ~n.offline /\ n.sos = (m.in /\ m.sos)
    BY ZenonT(40), <2>1, LiveIsMember DEF Attached, Newcomer, Absent, MemberType
  <2>3. Becomes(c.user, c.group, n)
    BY <1>3, Nones, AttachBecomes
  <2> HIDE DEF n
  <2>4. CASE u = c.user /\ g = c.group
    <3>1. Member(u, g)' = n
      BY <1>1, <2>1, <2>3, <2>4
    <3>2. QED
      BY <1>3, <2>2, <2>4, <3>1 DEF RecordStep
  <2>5. QED
    BY <1>1, <1>2, <2>1, <2>3, <2>4
<1>4. ASSUME NEW s \in Clients, BuildGroupSession(s)
      PROVE  Goal
  <2>1. Member(u, g)' = IF g = call[s].group THEN Restored(call[s], u) ELSE Member(u, g)
    BY <1>4, Nones, BuildBecomes
  <2>2. QED
    BY <1>4, <2>1 DEF RecordStep
<1>5. ASSUME NEW s \in Clients, NEW k \in Sockets, Disconnect(s, k)
      PROVE  Goal
  <2> DEFINE v == sock[k].user
             h == sock[k].group
             n == [Member(v, h) EXCEPT !.sock = None]
  <2>1. v \in Users /\ h \in Groups
    BY <1>5, Nones, DisconnectBecomes
  <2>2. /\ n.in = Member(v, h).in /\ n.sock = None /\ n.sos = Member(v, h).sos
        /\ n.offline = Member(v, h).offline
    BY <2>1, LiveIsMember DEF MemberType
  <2>3. Becomes(v, h, n) \/ Stays
    BY <1>5, Nones, DisconnectBecomes
  <2> HIDE DEF n
  <2>4. CASE u = v /\ g = h /\ Becomes(v, h, n)
    <3>1. Member(u, g)' = n
      BY <1>1, <2>1, <2>4
    <3>2. QED
      BY <1>5, <2>2, <2>4, <3>1 DEF RecordStep
  <2>5. QED
    BY <1>1, <1>2, <2>1, <2>3, <2>4 DEF Stays
<1>6. ASSUME NEW v \in Users, NEW h \in Groups, UpdateLocation(v, h)
      PROVE  Goal
  <2> DEFINE n == [Member(v, h) EXCEPT !.loc = TRUE, !.offline = FALSE, !.inactive = FALSE]
  <2>1. /\ n.in = Member(v, h).in /\ n.sock = Member(v, h).sock /\ n.sos = Member(v, h).sos
        /\ ~n.offline
    BY LiveIsMember DEF MemberType
  <2>2. Becomes(v, h, n)
    BY <1>6, LocationBecomes
  <2> HIDE DEF n
  <2>3. CASE u = v /\ g = h
    <3>1. Member(u, g)' = n
      BY <1>1, <2>2, <2>3
    <3>2. QED
      BY <1>6, <2>1, <2>3, <3>1 DEF RecordStep
  <2>4. QED
    BY <1>1, <1>2, <2>2, <2>3
<1>7. ASSUME NEW v \in Users, NEW h \in Groups, NEW s, NEW to \in BOOLEAN, NEW c,
             RequireMember(v, h), SetSos(s, v, h, to, c), UNCHANGED groups, SosStep(v, h, to)
      PROVE  Goal
  <2> DEFINE n == [Member(v, h) EXCEPT !.sos = to]
  <2>1. /\ n.in = Member(v, h).in /\ n.sock = Member(v, h).sock /\ n.sos = to
        /\ n.offline = Member(v, h).offline
    BY LiveIsMember DEF MemberType
  <2>2. Becomes(v, h, n)
    BY <1>7, SosBecomes
  <2> HIDE DEF n
  <2>3. CASE u = v /\ g = h
    <3>1. Member(u, g)' = n
      BY <1>1, <2>2, <2>3
    <3>2. QED
      BY <1>7, <2>1, <2>3, <3>1 DEF RecordStep
  <2>4. QED
    BY <1>1, <1>2, <2>2, <2>3
<1>8. ASSUME NEW s \in Clients, NEW k \in Sockets, NEW to \in BOOLEAN, ChangeSos(s, k, to)
      PROVE  Goal
  BY <1>7, <1>8 DEF ChangeSos, SosStep, Authenticated, Typed, SocksOwned
<1>9. ASSUME NEW s \in Sweeps, NEW v \in Users,
             \/ Visit(s, v)
             \/ (SweepAlarmed(s) \/ SweepNoticed(s)) /\ v = call[s].user
      PROVE  Goal
  <2>1. /\ ~At(s, "idle") /\ UNCHANGED groups /\ call[s].group \in Groups
        /\ (\E d, n : Deals(s, v, d, n)) \/ Alarms(s, v)
    BY <1>9, PassCases, SweepingSlot DEF Typed
  <2>2. ASSUME NEW d, NEW n, Deals(s, v, d, n)
        PROVE  Goal
    <3>1. CASE Stays
      BY <1>2, <3>1 DEF Stays
    <3>2. CASE /\ Becomes(v, call[s].group, n)
               /\ heap[call[s].obj][v] = Member(v, call[s].group)
      <4>1. CASE u = v /\ g = call[s].group
        <5>1. Member(u, g)' = n
          BY <1>1, <2>1, <3>2, <4>1
        <5>2. QED
          BY <2>1, <2>2, <3>2, <4>1, <5>1 DEF RecordStep
      <4>2. QED
        BY <1>1, <1>2, <2>1, <3>2, <4>1
    <3>3. QED
      BY <2>1, <2>2, <3>1, <3>2, PassEffect
  <2>3. CASE Alarms(s, v)
    <3>1. SosStep(v, call[s].group, TRUE)
      BY <1>9, <2>3 DEF SosStep, Visit, SweepAlarmed, SweepNoticed, At, FlagPcs
    <3>2. QED
      BY <1>7, <2>1, <2>3, <3>1 DEF Alarms
  <2>4. QED
    BY <2>1, <2>2, <2>3
<1>10. ASSUME NEW s \in Sweeps, SweepAlarmed(s) \/ SweepNoticed(s)
       PROVE  Goal
  <2>1. call[s].user \in Users
    BY <1>10, SweepingSlot DEF SweepAlarmed, SweepNoticed, At, Typed
  <2>2. QED
    BY <1>9, <1>10, <2>1
<1>11. ASSUME NEW s \in Sweeps, EndGroup(s)
       PROVE  Goal
  <2>1. \/ Member(u, g)' = Member(u, g)
        \/ Member(u, g)' = Absent /\ AllOffline(s) /\ g = call[s].group
    BY <1>11, EndBecomes DEF Stays
  <2>2. QED
    BY <1>11, <2>1 DEF RecordStep
<1>12. CASE Crash
  BY <1>12, CrashBecomes DEF RecordStep
<1>13. ASSUME UNCHANGED memory
       PROVE  Goal
  BY <1>2, <1>13, SameMemory DEF Stays
<1>14. ASSUME \/ \E s \in Clients :
                   \/ \E v \in Users, h \in Groups, loc \in BOOLEAN : Connect(s, v, h, loc)
                   \/ StartBuilding(s) \/ ReadGroup(s) \/ Reject(s) \/ PersistLastLocation(s)
              \/ \E v \in Users, h \in Groups : LeaveGroup(v, h) \/ AddUserToGroup(v, h)
              \/ \E s \in Slots : SaveFlag(s) \/ Fail(s)
              \/ \E s \in Sweeps : SnapshotMember(s) \/ \E h \in Groups : StartPass(s, h)
       PROVE  Goal
  <2>1. UNCHANGED memory
    BY <1>14 DEF Connect, StartBuilding, ReadGroup, Reject, PersistLastLocation,
       LeaveGroup, AddUserToGroup, SaveFlag, Fail, SnapshotMember, StartPass
  <2>2. QED
    BY <1>13, <2>1
<1> HIDE DEF Goal
<1>15. Goal
  BY <1>3, <1>4, <1>5, <1>6, <1>8, <1>9, <1>10, <1>11, <1>12, <1>14 DEF Step, Goal
<1>16. QED
  BY <1>15 DEF Goal

\* The passes stay where they are, in the groups they are at.
PassesStay ==
  /\ UNCHANGED groups
  /\ \A t \in Sweeps : call'[t].pc # "idle" =>
       /\ call[t].pc # "idle"
       /\ call'[t].group = call[t].group /\ call'[t].obj = call[t].obj

LEMMA MappedStays == ASSUME Mapped, PassesStay PROVE Mapped'
BY DEF Mapped, PassesStay, At

LEMMA ClientStays ==
  ASSUME Typed, NEW s \in Slots, NEW c, s \in Clients \/ c.pc = "idle", Await(s, c),
         UNCHANGED groups
  PROVE  PassesStay
BY Nones DEF Typed, TypeOK, Await, PassesStay

LEMMA SameCallStays == ASSUME UNCHANGED <<groups, call>> PROVE PassesStay
BY DEF PassesStay

LEMMA PassStays ==
  ASSUME Typed, NEW s \in Sweeps, ~At(s, "idle"), NEW c, Await(s, c), UNCHANGED groups,
         c.group = call[s].group, c.obj = call[s].obj
  PROVE  PassesStay
BY Nones DEF Typed, TypeOK, Await, PassesStay, At

\* A member is passed by without leaving the group.
LEMMA VisitedPlace ==
  ASSUME NEW c \in CallType, NEW u
  PROVE  /\ Visited(c, u).group = c.group /\ Visited(c, u).obj = c.obj
         /\ Visited(c, u).pc = "sw_visit"
BY DEF Visited, CallType

\* What every step but three does to the passes: StartPass, BuildGroupSession
\* and EndGroup are the others.
LEMMA StepStays ==
  ASSUME Typed, Step
  PROVE  \/ PassesStay
         \/ \E s \in Sweeps, g \in Groups : StartPass(s, g)
         \/ \E s \in Clients : BuildGroupSession(s)
         \/ \E s \in Sweeps : EndGroup(s)
         \/ Crash
<1>1. ASSUME NEW s \in Clients,
             \/ \E u \in Users, g \in Groups, loc \in BOOLEAN : Connect(s, u, g, loc)
             \/ \E k \in Sockets, to \in BOOLEAN : ChangeSos(s, k, to)
             \/ \E k \in Sockets : Disconnect(s, k)
             \/ AttachMember(s) \/ StartBuilding(s) \/ ReadGroup(s)
             \/ Reject(s) \/ PersistLastLocation(s)
      PROVE  PassesStay
  <2>1. PICK c : Await(s, c) \/ UNCHANGED call
    BY <1>1 DEF Connect, ChangeSos, SetSos, Disconnect, AttachMember, StartBuilding, ReadGroup,
                Reject, PersistLastLocation, Return
  <2>2. UNCHANGED groups
    BY <1>1 DEF Connect, ChangeSos, Disconnect, AttachMember, StartBuilding, ReadGroup,
                Reject, PersistLastLocation, memory
  <2>3. QED
    BY <2>1, <2>2, Nones, ClientStays, SameCallStays
<1>2. ASSUME NEW u \in Users, NEW g \in Groups,
             UpdateLocation(u, g) \/ LeaveGroup(u, g) \/ AddUserToGroup(u, g)
      PROVE  PassesStay
  BY <1>2, SameCallStays DEF UpdateLocation, LeaveGroup, AddUserToGroup, memory
<1>3. ASSUME NEW s \in Slots, SaveFlag(s)
      PROVE  PassesStay
  <2>1. UNCHANGED groups
    BY <1>3 DEF SaveFlag, memory
  <2>2. CASE Return(s)
    BY <2>1, <2>2, ClientStays DEF Return, NoCall
  <2>3. CASE At(s, "sw_flag") /\ Await(s, [call[s] EXCEPT !.pc = "sw_alarmed"])
    <3>1. s \in Sweeps /\ ~At(s, "idle") /\ call[s] \in CallType
      BY <2>3, StateTyped DEF At, CallOK, SweepPcs, Typed
    <3>2. QED
      BY <2>1, <2>3, <3>1, PassStays DEF CallType
  <2>4. QED
    BY <1>3, <2>2, <2>3 DEF SaveFlag
<1>4. ASSUME NEW s \in Slots, Fail(s)
      PROVE  PassesStay
  <2>1. UNCHANGED groups /\ ~At(s, "idle")
    BY <1>4 DEF Fail, memory, At
  <2>2. CASE s \in Sweeps
    BY <1>4, <2>1, <2>2, SweepingSlot, VisitedPlace, PassStays DEF Fail, Typed
  <2>3. CASE s \notin Sweeps
    BY <1>4, <2>1, <2>3, ClientStays DEF Fail, NoCall
  <2>4. QED
    BY <2>2, <2>3
<1>5. ASSUME NEW s \in Sweeps, NEW u \in Users,
             \/ Visit(s, u)
             \/ (SweepAlarmed(s) \/ SweepNoticed(s)) /\ u = call[s].user
      PROVE  PassesStay
  <2>1. ~At(s, "idle") /\ UNCHANGED groups
    BY <1>5, PassCases
  <2>2. CASE \E d, m : Deals(s, u, d, m)
    BY <2>1, <2>2, PassStays DEF Deals
  <2>3. CASE Alarms(s, u)
    <3> DEFINE d == [call[s] EXCEPT !.pc = "sw_flag", !.user = u, !.to = TRUE]
    <3>1. d.group = call[s].group /\ d.obj = call[s].obj
      BY <2>1, SweepingSlot DEF Typed, CallType
    <3>2. Await(s, d)
      BY <2>3 DEF Alarms, SetSos
    <3> HIDE DEF d
    <3>3. QED
      BY <2>1, <3>1, <3>2, PassStays
  <2>4. QED
    BY <1>5, <2>2, <2>3, PassCases
<1>6. ASSUME NEW s \in Sweeps, SnapshotMember(s)
      PROVE  PassesStay
  <2>1. ~At(s, "idle") /\ UNCHANGED groups
    BY <1>6 DEF SnapshotMember, memory, At
  <2>2. QED
    BY <1>6, <2>1, SweepingSlot, VisitedPlace, PassStays DEF SnapshotMember, Typed
<1>7. ASSUME NEW s \in Sweeps, SweepAlarmed(s) \/ SweepNoticed(s)
      PROVE  PassesStay
  <2>1. call[s].user \in Users
    BY <1>7, SweepingSlot DEF SweepAlarmed, SweepNoticed, At, Typed
  <2>2. QED
    BY <1>5, <1>7, <2>1
<1>8. QED
  BY <1>1, <1>2, <1>3, <1>4, <1>5, <1>6, <1>7 DEF Step

LEMMA MappedKept == ASSUME Typed, Mapped, Step PROVE Mapped'
<1>1. ASSUME NEW s \in Sweeps, NEW g \in Groups, StartPass(s, g)
      PROVE  Mapped'
  <2>1. /\ call'[s].group = g /\ call'[s].obj = groups[g]
        /\ \A t \in Sweeps \ {s} : call'[t] = call[t]
    BY <1>1, NoCallTyped, Nones DEF StartPass, Await, Entering, Typed, TypeOK, CallType
  <2>2. QED
    BY <1>1, <2>1 DEF StartPass, memory, Mapped, At
<1>2. ASSUME NEW s \in Clients, BuildGroupSession(s)
      PROVE  Mapped'
  <2> DEFINE o == CHOOSE o \in Unreferenced : TRUE
             g == call[s].group
  <2>1. /\ o \in Objs /\ g \in Groups
        /\ \A h \in Groups : groups[h] # o
        /\ \A t \in Sweeps : call[t].obj # o
    BY <1>2, Nones, ConnectingSlot, PickedObject DEF BuildGroupSession, At, ConnectPcs, Typed
  <2>2. groups' = [groups EXCEPT ![g] = o] /\ Return(s)
    BY <1>2 DEF BuildGroupSession
  <2> HIDE DEF o
  <2>3. /\ groups'[g] = o /\ \A h \in Groups \ {g} : groups'[h] = groups[h]
        /\ \A t \in Sweeps : call'[t] = call[t]
    BY <2>1, <2>2, Nones DEF Return, Await, Typed, TypeOK
  <2>4. QED
    BY <2>1, <2>3 DEF Mapped, At
<1>3. ASSUME NEW s \in Sweeps, EndGroup(s)
      PROVE  Mapped'
  <2> DEFINE g == call[s].group
  <2>1. /\ g \in Groups
        /\ \A h \in Groups : groups'[h] = groups[h] \/ groups'[h] = None
    <3>1. groups' = groups \/ groups' = [groups EXCEPT ![g] = None]
      BY <1>3 DEF EndGroup
    <3>2. QED
      BY <1>3, <3>1, EndCalls DEF Typed, TypeOK
  <2>2. \A x, y \in Groups : groups'[x] # None /\ groups'[x] = groups'[y] => x = y
    BY <2>1 DEF Mapped
  <2>3. \A t \in Sweeps \ {s} : call'[t].pc # "idle" =>
          /\ call[t].pc # "idle" /\ call[t].obj \in Objs
          /\ call'[t].group = call[t].group /\ call'[t].obj = call[t].obj
    BY <1>3, EndCalls, SweepingSlot, Nones DEF SameHandler, At, Typed
  <2>4. call'[s].pc # "idle" =>
          call'[s].group \in Groups /\ call'[s].obj = groups'[call'[s].group] /\ call'[s].obj # None
    BY <1>3, EndCalls DEF NextGroup
  <2>5. QED
    BY <2>1, <2>2, <2>3, <2>4, Nones DEF Mapped, At
<1>4. CASE Crash
  BY <1>4 DEF Crash, Mapped, At, NoCall, Slots
<1>5. QED
  BY <1>1, <1>2, <1>3, <1>4, StepStays, MappedStays

LEMMA InitMapped == Init => Mapped
BY Nones DEF Init, Mapped, At, NoCall

-----------------------------------------------------------------------------
(* NoStrangers *)

\* Handlers change one at a time; only connections get a connection's pc.
LEMMA Awaits ==
  ASSUME Typed, Step
  PROVE  \/ UNCHANGED call
         \/ \E s \in Slots : \E c : Await(s, c) /\ c.pc \notin ConnectPcs
         \/ \E s \in Sweeps : EndGroup(s)
         \/ Crash
         \/ \E s \in Clients :
              \/ \E u \in Users, g \in Groups, loc \in BOOLEAN : Connect(s, u, g, loc)
              \/ StartBuilding(s) \/ ReadGroup(s)
<1> DEFINE Ends == \E s \in Slots : \E c : Await(s, c) /\ c.pc \notin ConnectPcs
<1>1. NoCall.pc \notin ConnectPcs
  BY DEF NoCall, ConnectPcs
<1>2. ASSUME NEW s \in Slots, NEW d \in CallType, NEW pc \in Pcs \ ConnectPcs,
             NEW u, NEW to, Await(s, [d EXCEPT !.pc = pc, !.user = u, !.to = to])
      PROVE  Ends
  <2>1. [d EXCEPT !.pc = pc, !.user = u, !.to = to].pc = pc
    BY DEF CallType
  <2>2. QED
    BY <1>2, <2>1
<1>3. ASSUME NEW s \in Clients,
             AttachMember(s) \/ BuildGroupSession(s) \/ Reject(s) \/ PersistLastLocation(s)
      PROVE  Ends
  BY <1>1, <1>3, Nones DEF AttachMember, BuildGroupSession, Reject, PersistLastLocation, Return
<1>4. ASSUME NEW s \in Clients, NEW k \in Sockets, NEW to \in BOOLEAN, ChangeSos(s, k, to)
      PROVE  Ends
  <2>1. Await(s, [[NoCall EXCEPT !.pc = "sos_flag"] EXCEPT !.user = sock[k].user, !.to = to])
    BY <1>4 DEF ChangeSos, SetSos
  <2>2. "sos_flag" \in Pcs \ ConnectPcs
    BY DEF Pcs, ConnectPcs
  <2>3. QED
    BY <1>2, <2>1, <2>2, NoCallTyped, Nones
<1>5. ASSUME NEW s \in Clients, NEW k \in Sockets, Disconnect(s, k)
      PROVE  UNCHANGED call \/ Ends
  <2>1. "dis_save" \in Pcs \ ConnectPcs
    BY DEF Pcs, ConnectPcs
  <2> DEFINE c == [NoCall EXCEPT !.pc = "dis_save", !.user = sock[k].user,
                                 !.group = sock[k].group]
  <2>2. c.pc = "dis_save"
    BY NoCallTyped DEF CallType
  <2>3. Await(s, c) \/ UNCHANGED call
    BY <1>5 DEF Disconnect
  <2> HIDE DEF c
  <2>4. QED
    BY <2>1, <2>2, <2>3, Nones
<1>6. ASSUME NEW s \in Sweeps, NEW u \in Users,
             \/ Visit(s, u)
             \/ (SweepAlarmed(s) \/ SweepNoticed(s)) /\ u = call[s].user
      PROVE  Ends
  <2>1. CASE \E d, m : Deals(s, u, d, m)
    BY <2>1, Nones DEF Deals, ConnectPcs
  <2>2. CASE Alarms(s, u)
    <3>1. Await(s, [call[s] EXCEPT !.pc = "sw_flag", !.user = u, !.to = TRUE])
      BY <2>2 DEF Alarms, SetSos
    <3>2. "sw_flag" \in Pcs \ ConnectPcs /\ call[s] \in CallType
      BY StateTyped, Nones DEF Pcs, ConnectPcs, SweepPcs, Typed
    <3>3. QED
      BY <1>2, <3>1, <3>2, Nones
  <2>3. QED
    BY <1>6, <2>1, <2>2, PassCases
<1>7. ASSUME NEW s \in Sweeps, SweepAlarmed(s) \/ SweepNoticed(s)
      PROVE  Ends
  <2>1. call[s].user \in Users
    BY <1>7, SweepingSlot DEF SweepAlarmed, SweepNoticed, At, Typed
  <2>2. QED
    BY <1>6, <1>7, <2>1
<1>8. ASSUME NEW s \in Slots, SaveFlag(s) PROVE Ends
  <2>1. CASE At(s, "sw_flag") /\ Await(s, [call[s] EXCEPT !.pc = "sw_alarmed"])
    <3>1. [call[s] EXCEPT !.pc = "sw_alarmed"].pc = "sw_alarmed"
      BY StateTyped DEF Typed, CallType
    <3>2. QED
      BY <2>1, <3>1 DEF ConnectPcs
  <2>2. QED
    BY <1>1, <1>8, <2>1 DEF SaveFlag, Return
<1>9. ASSUME NEW s \in Sweeps, SnapshotMember(s) \/ \E g \in Groups : StartPass(s, g)
      PROVE  Ends
  <2>1. call[s] \in CallType
    BY Nones, StateTyped DEF Typed
  <2>2. /\ \A u : Visited(call[s], u).pc = "sw_visit"
        /\ \A g, map : Entering(NoCall, g, map).pc = "sw_visit"
    BY <2>1, NoCallTyped DEF Visited, Entering, CallType
  <2>3. QED
    BY <1>9, <2>2, Nones DEF SnapshotMember, StartPass, ConnectPcs
<1>10. ASSUME NEW s \in Slots, Fail(s) PROVE Ends
  <2>1. \A u : Visited(call[s], u).pc = "sw_visit"
    BY StateTyped DEF Visited, Typed, CallType
  <2>2. QED
    BY <1>1, <1>10, <2>1 DEF Fail, ConnectPcs
<1>11. ASSUME NEW u \in Users, NEW g \in Groups,
              UpdateLocation(u, g) \/ LeaveGroup(u, g) \/ AddUserToGroup(u, g)
       PROVE  UNCHANGED call
  BY <1>11 DEF UpdateLocation, LeaveGroup, AddUserToGroup
<1> HIDE DEF Ends
<1>12. QED
  BY <1>3, <1>4, <1>5, <1>6, <1>7, <1>8, <1>9, <1>10, <1>11 DEF Step, Ends

LEMMA ConnectsKept ==
  ASSUME Typed, Step, NEW t \in Clients, call'[t].pc \in ConnectPcs
  PROVE  \/ SameHandler(call'[t], call[t])
         \/ \E u \in Users, g \in Groups, loc \in BOOLEAN : Connect(t, u, g, loc)
         \/ StartBuilding(t) \/ ReadGroup(t)
<1>1. ASSUME NEW s \in Slots, NEW c, Await(s, c)
      PROVE  call'[t] = IF t = s THEN c ELSE call[t]
  BY <1>1, Nones DEF Await, Typed, TypeOK
<1>2. CASE UNCHANGED call
  BY <1>2 DEF SameHandler
<1>3. ASSUME NEW s \in Slots, NEW c, Await(s, c), c.pc \notin ConnectPcs
      PROVE  SameHandler(call'[t], call[t])
  BY <1>1, <1>3 DEF SameHandler
<1>4. ASSUME NEW s \in Sweeps, EndGroup(s)
      PROVE  SameHandler(call'[t], call[t])
  BY <1>4, EndCalls, Nones
<1>5. CASE Crash
  BY <1>5, Nones DEF Crash, NoCall, ConnectPcs
<1>6. ASSUME NEW s \in Clients, s # t,
             \/ \E u \in Users, g \in Groups, loc \in BOOLEAN : Connect(s, u, g, loc)
             \/ StartBuilding(s) \/ ReadGroup(s)
      PROVE  SameHandler(call'[t], call[t])
  BY <1>1, <1>6, Nones DEF Connect, StartBuilding, ReadGroup, SameHandler
<1>7. QED
  BY <1>2, <1>3, <1>4, <1>5, <1>6, Awaits

\* A connection on its way into the session of g brings u.
Brings(c, u, g) == c.pc \in ConnectPcs /\ c.group = g /\ ((c.user = u /\ c.ok) \/ c.seen[u].in)

LEMMA HeldOrComing ==
  ASSUME Typed, NEW u \in Users, NEW g \in Groups
  PROVE  Holds(u, g) <=> Member(u, g).in \/ \E s \in Clients : Brings(call[s], u, g)
BY LiveIsMember DEF Holds, Brings

LEMMA BringsKept ==
  ASSUME Typed, Step, NEW t \in Clients, NEW u \in Users, NEW g \in Groups,
         Brings(call'[t], u, g)
  PROVE  Brings(call[t], u, g) \/ rows'[g][u].in
<1>1. CASE SameHandler(call'[t], call[t])
  BY <1>1 DEF SameHandler, Brings
<1>2. ASSUME NEW v \in Users, NEW h \in Groups, NEW loc \in BOOLEAN, Connect(t, v, h, loc)
      PROVE  rows'[g][u].in
  <2> DEFINE c == [NoCall EXCEPT !.pc = "con_member", !.sock = NextSocket, !.user = v,
                                 !.group = h, !.loc = loc, !.ok = rows[h][v].in]
  <2>1. /\ c.user = v /\ c.group = h /\ c.ok = rows[h][v].in /\ c.seen = NoCall.seen
        /\ UNCHANGED rows
    BY <1>2, NoCallTyped DEF CallType, Connect, database
  <2>2. ~NoCall.seen[u].in
    BY DEF NoCall, NoRow
  <2>3. Await(t, c)
    BY <1>2 DEF Connect
  <2> HIDE DEF c
  <2>4. call'[t] = c
    BY <2>3, Nones DEF Await, Typed, TypeOK
  <2>5. QED
    BY <2>1, <2>2, <2>4 DEF Brings
<1>3. CASE StartBuilding(t)
  <2> DEFINE c == [call[t] EXCEPT !.pc = "con_group"]
  <2>1. /\ c.user = call[t].user /\ c.group = call[t].group /\ c.ok = call[t].ok
        /\ c.seen = call[t].seen
    BY StateTyped, Nones DEF CallType, Typed
  <2>2. Await(t, c) /\ call[t].pc \in ConnectPcs
    BY <1>3 DEF StartBuilding, At, ConnectPcs
  <2> HIDE DEF c
  <2>3. call'[t] = c
    BY <2>2, Nones DEF Await, Typed, TypeOK
  <2>4. QED
    BY <2>1, <2>2, <2>3 DEF Brings
<1>4. CASE ReadGroup(t)
  <2> DEFINE c == [call[t] EXCEPT !.pc = "con_build", !.seen = rows[call[t].group],
                                  !.sos = flag]
  <2>1. /\ c.user = call[t].user /\ c.group = call[t].group /\ c.ok = call[t].ok
        /\ c.seen = rows[call[t].group]
    BY StateTyped, Nones DEF CallType, Typed
  <2>2. Await(t, c) /\ call[t].pc \in ConnectPcs /\ UNCHANGED rows
    BY <1>4 DEF ReadGroup, At, ConnectPcs, database
  <2> HIDE DEF c
  <2>3. call'[t] = c
    BY <2>2, Nones DEF Await, Typed, TypeOK
  <2>4. QED
    BY <2>1, <2>2, <2>3 DEF Brings
<1>5. QED
  BY <1>1, <1>2, <1>3, <1>4, ConnectsKept DEF Brings

\* Who is in a session after a step was there, or on the way, before.
LEMMA InKept ==
  ASSUME Typed, Mapped, Step, NEW u \in Users, NEW g \in Groups, Member(u, g)'.in
  PROVE  Member(u, g).in \/ \E s \in Clients : Brings(call[s], u, g)
<1>1. ASSUME NEW s \in Clients, AttachMember(s), u = call[s].user, g = call[s].group
      PROVE  Brings(call[s], u, g)
  BY <1>1 DEF AttachMember, At, ConnectPcs, Brings
<1>2. ASSUME NEW s \in Clients, BuildGroupSession(s), g = call[s].group,
             Restored(call[s], u).in
      PROVE  Brings(call[s], u, g)
  <2>1. call[s].seen[u].in
    BY <1>2 DEF Restored, Absent
  <2>2. QED
    BY <1>2, <2>1 DEF BuildGroupSession, At, ConnectPcs, Brings
<1>3. ASSUME NEW s, NEW d, NEW n, Deals(s, u, d, n)
      PROVE  n.in = heap[call[s].obj][u].in
  BY <1>3 DEF Deals
<1>4. QED
  BY <1>1, <1>2, <1>3, RecordSteps DEF RecordStep, Absent

\* Also of those who are on their way into a session.
StrangersLeft ==
  \A u \in Users, g \in Groups : Holds(u, g) => rows[g][u].in \/ <<u, g>> \in left

StrangersInv == Typed /\ Mapped /\ StrangersLeft

LEMMA InitStrangers == Init => StrangersInv
<1> SUFFICES ASSUME Init PROVE StrangersInv
  OBVIOUS
<1>1. \A u \in Users, g \in Groups : ~Holds(u, g)
  BY Nones DEF Init, Holds, RequireMember, NoCall, ConnectPcs
<1>2. QED
  BY <1>1, InitTyped, InitMapped DEF StrangersInv, StrangersLeft

LEMMA MappedNext == Typed /\ Mapped /\ [Next]_vars => Mapped'
<1>1. CASE UNCHANGED vars
  BY <1>1 DEF vars, memory, Mapped, At
<1>2. QED
  BY <1>1, MappedKept DEF Next

LEMMA NextStrangers == StrangersInv /\ [Next]_vars => StrangersInv'
<1> SUFFICES ASSUME StrangersInv, [Next]_vars PROVE StrangersInv'
  OBVIOUS
<1>1. Typed' /\ Mapped'
  BY NextTyped, MappedNext DEF StrangersInv
<1>2. CASE UNCHANGED vars
  <2>1. StrangersLeft'
    BY <1>2 DEF vars, memory, database, StrangersInv, StrangersLeft, Holds, RequireMember
  <2>2. QED
    BY <1>1, <2>1 DEF StrangersInv
<1>3. CASE Next
  <2>1. ASSUME NEW u \in Users, NEW g \in Groups, Holds(u, g)'
        PROVE  rows'[g][u].in \/ <<u, g>> \in left'
    <3>1. Member(u, g)'.in \/ \E s \in Clients : Brings(call'[s], u, g)
      BY <2>1 DEF Holds, RequireMember, Member, Brings
    <3>2. Holds(u, g) \/ rows'[g][u].in
      BY <1>3, <3>1, InKept, BringsKept, HeldOrComing DEF StrangersInv, Next
    <3>3. CASE Holds(u, g) /\ ~rows'[g][u].in
      <4>1. rows[g][u].in \/ <<u, g>> \in left
        BY <3>3 DEF StrangersInv, StrangersLeft
      <4> DEFINE p == <<u, g>>
      <4>2. p \in Pairs /\ p[1] = u /\ p[2] = g
        BY PairsOf
      <4>3. p \in left'
        BY <1>3, <2>1, <3>3, <4>1, <4>2 DEF Next
      <4>4. QED
        BY <4>3
    <3>4. QED
      BY <3>2, <3>3
  <2>2. QED
    BY <1>1, <2>1 DEF StrangersInv, StrangersLeft
<1>4. QED
  BY <1>2, <1>3

\* Nobody is in a live session without being a member, but those it held when
\* they left; this is also so of who is on the way into one.
THEOREM OnlyMembersHeld == Spec => []NoStrangers
<1>1. StrangersInv => NoStrangers
  BY DEF StrangersInv, StrangersLeft, NoStrangers, Holds
<1>2. QED
  BY <1>1, InitStrangers, NextStrangers, PTL DEF Spec

-----------------------------------------------------------------------------
(* OfflineSaved *)

\* A pass that saves somebody's place goes on, unless it has saved it or failed.
LEMMA SaversKept ==
  ASSUME Typed, Step, NEW t \in Sweeps, call[t].pc = "sw_save"
  PROVE  SameHandler(call'[t], call[t]) \/ SnapshotMember(t) \/ Fail(t) \/ Crash
<1>1. ASSUME NEW s \in Slots, NEW c, Await(s, c), s # t
      PROVE  SameHandler(call'[t], call[t])
  BY <1>1, Nones DEF Await, Typed, TypeOK, SameHandler
<1>2. ASSUME UNCHANGED call
      PROVE  SameHandler(call'[t], call[t])
  BY <1>2 DEF SameHandler
<1>3. ASSUME NEW s \in Clients,
             \/ \E u \in Users, g \in Groups, loc \in BOOLEAN : Connect(s, u, g, loc)
             \/ \E k \in Sockets, to \in BOOLEAN : ChangeSos(s, k, to)
             \/ \E k \in Sockets : Disconnect(s, k)
             \/ AttachMember(s) \/ StartBuilding(s) \/ ReadGroup(s) \/ BuildGroupSession(s)
             \/ Reject(s) \/ PersistLastLocation(s)
      PROVE  SameHandler(call'[t], call[t])
  <2>1. PICK c : Await(s, c) \/ UNCHANGED call
    BY <1>3 DEF Connect, ChangeSos, SetSos, Disconnect, AttachMember, StartBuilding, ReadGroup,
                BuildGroupSession, Reject, PersistLastLocation, Return
  <2>2. QED
    BY <1>1, <1>2, <2>1, Nones
<1>4. ASSUME NEW u \in Users, NEW g \in Groups,
             UpdateLocation(u, g) \/ LeaveGroup(u, g) \/ AddUserToGroup(u, g)
      PROVE  UNCHANGED call
  BY <1>4 DEF UpdateLocation, LeaveGroup, AddUserToGroup
<1>5. ASSUME NEW s \in Slots, SaveFlag(s)
      PROVE  SameHandler(call'[t], call[t])
  <2>1. PICK c : Await(s, c)
    BY <1>5 DEF SaveFlag, Return
  <2>2. s # t
    BY <1>5 DEF SaveFlag, At
  <2>3. QED
    BY <1>1, <2>1, <2>2
<1>6. ASSUME NEW s \in Sweeps,
             \/ \E u \in Users : Visit(s, u)
             \/ SweepAlarmed(s) \/ SweepNoticed(s)
      PROVE  SameHandler(call'[t], call[t])
  <2>1. s # t
    BY <1>6 DEF Visit, SweepAlarmed, SweepNoticed, At
  <2>2. PICK u \in Users : \/ Visit(s, u)
                           \/ (SweepAlarmed(s) \/ SweepNoticed(s)) /\ u = call[s].user
    BY <1>6, SweepingSlot DEF SweepAlarmed, SweepNoticed, At, Typed
  <2>3. PICK c : Await(s, c)
    BY <2>2, PassCases DEF Deals, Alarms, SetSos
  <2>4. QED
    BY <1>1, <2>1, <2>3, Nones
<1>7. ASSUME NEW s \in Sweeps, \E g \in Groups : StartPass(s, g)
      PROVE  SameHandler(call'[t], call[t])
  BY <1>1, <1>7, Nones DEF StartPass, At
<1>8. ASSUME NEW s \in Sweeps, EndGroup(s)
      PROVE  SameHandler(call'[t], call[t])
  BY <1>8, EndCalls, Nones DEF EndGroup, At
<1>9. ASSUME NEW s \in Slots, Fail(s)
      PROVE  SameHandler(call'[t], call[t]) \/ Fail(t)
  <2>1. PICK c : Await(s, c)
    BY <1>9 DEF Fail
  <2>2. QED
    BY <1>1, <1>9, <2>1
<1>10. ASSUME NEW s \in Sweeps, SnapshotMember(s)
       PROVE  SameHandler(call'[t], call[t]) \/ SnapshotMember(t)
  <2>1. PICK c : Await(s, c)
    BY <1>10 DEF SnapshotMember
  <2>2. QED
    BY <1>1, <1>10, <2>1, Nones
<1>11. QED
  BY <1>2, <1>3, <1>4, <1>5, <1>6, <1>7, <1>8, <1>9, <1>10 DEF Step

\* A record is offline because it was, because it has been built so, or
\* because a pass has just marked it and goes on to save it.
Saver(c, u, g) == c.pc = "sw_save" /\ c.user = u /\ c.group = g

LEMMA OfflineGrows ==
  ASSUME Typed, Mapped, Step, NEW u \in Users, NEW g \in Groups, Member(u, g)'.offline
  PROVE  \/ Member(u, g).offline /\ (Member(u, g)'.in => Member(u, g).in)
         \/ \E s \in Clients : BuildGroupSession(s) /\ call[s].group = g
         \/ \E s \in Sweeps : Saver(call'[s], u, g)
<1>1. ASSUME NEW s \in Sweeps, NEW d, g = call[s].group, Member(u, g) = heap[call[s].obj][u],
             Deals(s, u, d, Member(u, g)')
      PROVE  \/ Member(u, g).offline /\ (Member(u, g)'.in => Member(u, g).in)
             \/ Saver(call'[s], u, g)
  <2>1. call'[s] = d
    BY <1>1, Nones DEF Deals, Await, Typed, TypeOK
  <2>2. QED
    BY <1>1, <2>1 DEF Deals, Saver
<1>2. QED
  BY <1>1, RecordSteps DEF RecordStep, Absent

\* A place that is saved stays saved while the row is there, and nobody who is
\* held leaves hist.unsaved but by a save.
LEMMA PlacesKept ==
  ASSUME Typed, Mapped, Step, NEW u \in Users, NEW g \in Groups,
         ~\E s \in Clients : BuildGroupSession(s) /\ call[s].group = g,
         Member(u, g).in, Member(u, g)'.in, rows'[g][u].in, <<u, g>> \notin hist'.unsaved
  PROVE  \/ rows'[g][u].loc
         \/ rows[g][u].in /\ <<u, g>> \notin hist.unsaved /\ ~rows[g][u].loc
<1> DEFINE Kept == rows'[g][u].in = rows[g][u].in /\ rows'[g][u].loc = rows[g][u].loc
<1> DEFINE Goal == \/ rows'[g][u].loc
                   \/ rows[g][u].in /\ <<u, g>> \notin hist.unsaved /\ ~rows[g][u].loc
<1>1. ASSUME UNCHANGED rows, <<u, g>> \in hist.unsaved => <<u, g>> \in hist'.unsaved
      PROVE  Goal
  BY <1>1
<1>2. ASSUME NEW v \in Users, NEW h \in Groups, rows' = WithPlace(v, h), hist' = SavedAt(v, h)
      PROVE  Goal
  <2>1. CASE u = v /\ g = h
    BY <1>2, <2>1 DEF WithPlace, Typed, TypeOK
  <2>2. CASE ~(u = v /\ g = h)
    <3>1. Kept
      BY <1>2, <2>2 DEF WithPlace, Typed, TypeOK
    <3>2. <<u, g>> \in hist.unsaved => <<u, g>> \in hist'.unsaved
      BY <1>2, <2>2, StateTyped DEF SavedAt, Typed, HistType
    <3>3. QED
      BY <3>1, <3>2
  <2>3. QED
    BY <2>1, <2>2
<1>3. ASSUME NEW s \in Slots, PersistLastLocation(s)
      PROVE  Goal
  BY <1>2, <1>3, StateTyped DEF PersistLastLocation, At, CallOK, Typed
<1>4. ASSUME NEW s \in Sweeps, SnapshotMember(s)
      PROVE  Goal
  BY <1>2, <1>4, SweepingSlot DEF SnapshotMember, At, Typed
<1>5. ASSUME NEW v \in Users, NEW h \in Groups, LeaveGroup(v, h)
      PROVE  Goal
  <2>1. ~(u = v /\ g = h)
    BY <1>5 DEF LeaveGroup, NoRow, Typed, TypeOK
  <2>2. Kept /\ UNCHANGED hist
    BY <1>5, <2>1 DEF LeaveGroup, Typed, TypeOK
  <2>3. QED
    BY <2>2
<1>6. ASSUME NEW v \in Users, NEW h \in Groups, AddUserToGroup(v, h)
      PROVE  Goal
  <2> DEFINE X == {<<v, h>>} \cap Held
  <2>1. hist'.unsaved = hist.unsaved \cup X
    BY <1>6, StateTyped DEF AddUserToGroup, Typed, HistType
  <2>2. <<u, g>> \in Held
    <3> DEFINE p == <<u, g>>
    <3>1. p \in Pairs /\ RequireMember(p[1], p[2])
      BY PairsOf, LiveIsMember DEF Typed
    <3>2. p \in Held
      BY <3>1 DEF Held
    <3>3. QED
      BY <3>2
  <2>3. ~(u = v /\ g = h)
    BY <2>1, <2>2
  <2>4. Kept
    BY <1>6, <2>3 DEF AddUserToGroup, Typed, TypeOK
  <2>5. QED
    BY <2>1, <2>4
<1>7. ASSUME NEW s \in Sweeps, EndGroup(s)
      PROVE  Goal
  <2>1. UNCHANGED rows
    BY <1>7 DEF EndGroup, database
  <2>2. ~AllOffline(s) \/ g # call[s].group
    BY <1>7, EndBecomes DEF Absent
  <2>3. <<u, g>> \in hist.unsaved => <<u, g>> \in hist'.unsaved
    <3>1. CASE ~AllOffline(s)
      BY <1>7, <3>1 DEF EndGroup, AllOffline
    <3>2. CASE AllOffline(s) /\ g # call[s].group
      <4> DEFINE U == hist.unsaved \ (Users \X {call[s].group})
      <4>1. hist'.unsaved = U
        BY <1>7, <3>2 DEF EndGroup, AllOffline
      <4>2. <<u, g>> \notin Users \X {call[s].group}
        BY <3>2
      <4>3. QED
        BY <4>1, <4>2
    <3>3. QED
      BY <2>2, <3>1, <3>2
  <2>4. QED
    BY <1>1, <2>1, <2>3
<1>8. ASSUME NEW s \in Slots, Fail(s)
      PROVE  Goal
  <2>1. PICK P, Q : hist' = [hist EXCEPT !.apart = @ \cup P, !.unsaved = @ \cup Q]
    BY <1>8 DEF Fail
  <2>2. hist'.unsaved = hist.unsaved \cup Q /\ UNCHANGED rows
    BY <1>8, <2>1, StateTyped DEF Typed, HistType, Fail, database
  <2>3. QED
    BY <1>1, <2>2
<1>9. CASE Crash
  BY <1>9, CrashBecomes DEF Absent
<1>10. ASSUME NEW s \in Clients, BuildGroupSession(s)
       PROVE  Goal
  <2> DEFINE h == call[s].group
             differ == {v \in Users : call[s].sos[v] # flag[v] \/ Saving(v)}
             unsaved == {v \in Users : call[s].seen[v].loc /\ ~rows[h][v].loc}
             L == hist.lost \cup (SocketsIn(h) \ (IF call[s].seen[call[s].user].in
                                                  THEN {call[s].sock} ELSE {}))
             A == (hist.apart \ (Users \X {h})) \cup (differ \X {h})
             U == (hist.unsaved \ (Users \X {h})) \cup (unsaved \X {h})
  <2>1. hist' = [hist EXCEPT !.lost = L, !.apart = A, !.unsaved = U] /\ UNCHANGED rows
    BY <1>10 DEF BuildGroupSession, database
  <2>2. <<u, g>> \notin Users \X {h}
    BY <1>10
  <2>3. hist'.unsaved = U
    <3> HIDE DEF L, A, U
    <3>1. QED
      BY <2>1, StateTyped DEF Typed, HistType
  <2>4. <<u, g>> \in hist.unsaved => <<u, g>> \in hist'.unsaved
    BY <2>2, <2>3
  <2>5. QED
    BY <1>1, <2>1, <2>4
<1>11. ASSUME NEW s \in Sweeps, NEW v \in Users,
              \/ Visit(s, v)
              \/ (SweepAlarmed(s) \/ SweepNoticed(s)) /\ v = call[s].user
       PROVE  Goal
  <2>1. UNCHANGED rows
    BY <1>11, PassCases DEF database
  <2>2. PICK L, A : \/ hist' = [hist EXCEPT !.lost = L] \/ hist' = [hist EXCEPT !.apart = A]
                    \/ hist' = hist
    BY <1>11, PassCases DEF Deals, Alarms, SetSos
  <2>3. hist'.unsaved = hist.unsaved
    BY <2>2, StateTyped DEF Typed, HistType
  <2>4. QED
    BY <1>1, <2>1, <2>3
<1>12. ASSUME NEW s \in Sweeps, SweepAlarmed(s) \/ SweepNoticed(s)
       PROVE  Goal
  <2>1. call[s].user \in Users
    BY <1>12, SweepingSlot DEF SweepAlarmed, SweepNoticed, At, Typed
  <2>2. QED
    BY <1>11, <1>12, <2>1
<1>13. ASSUME NEW s \in Clients,
              \/ \E k \in Sockets : Disconnect(s, k)
              \/ AttachMember(s)
              \/ \E k \in Sockets, to \in BOOLEAN : ChangeSos(s, k, to)
       PROVE  Goal
  <2>1. UNCHANGED rows
    BY <1>13 DEF Disconnect, AttachMember, ChangeSos, database
  <2>2. PICK L, A : \/ hist' = [hist EXCEPT !.lost = L] \/ hist' = [hist EXCEPT !.apart = A]
                    \/ hist' = [hist EXCEPT !.lost = L, !.apart = A]
    BY <1>13 DEF Disconnect, AttachMember, ChangeSos, SetSos
  <2>3. hist'.unsaved = hist.unsaved
    BY <2>2, StateTyped DEF Typed, HistType
  <2>4. QED
    BY <1>1, <2>1, <2>3
<1>14. ASSUME \/ \E s \in Clients :
                   \/ \E v \in Users, h \in Groups, loc \in BOOLEAN : Connect(s, v, h, loc)
                   \/ StartBuilding(s) \/ ReadGroup(s) \/ Reject(s)
              \/ \E v \in Users, h \in Groups : UpdateLocation(v, h)
              \/ \E s \in Slots : SaveFlag(s)
              \/ \E s \in Sweeps, h \in Groups : StartPass(s, h)
       PROVE  Goal
  <2>1. UNCHANGED rows /\ UNCHANGED hist
    BY <1>14 DEF Connect, StartBuilding, ReadGroup, Reject, UpdateLocation, SaveFlag, StartPass,
       database
  <2>2. QED
    BY <1>1, <2>1
<1> HIDE DEF Goal
<1>15. CASE \E s \in Clients :
              \/ \E v \in Users, h \in Groups, loc \in BOOLEAN : Connect(s, v, h, loc)
              \/ \E k \in Sockets, to \in BOOLEAN : ChangeSos(s, k, to)
              \/ \E k \in Sockets : Disconnect(s, k)
              \/ AttachMember(s) \/ StartBuilding(s) \/ ReadGroup(s)
              \/ BuildGroupSession(s) \/ Reject(s) \/ PersistLastLocation(s)
  BY <1>3, <1>10, <1>13, <1>14, <1>15, Nones DEF Goal
<1>16. Goal
  BY <1>3, <1>4, <1>5, <1>6, <1>7, <1>8, <1>9, <1>11, <1>12, <1>14, <1>15 DEF Step, Goal
<1>17. QED
  BY <1>16 DEF Goal

\* The rows of who is in the session that is built.
LEMMA BuiltPlaces ==
  ASSUME Typed, Mapped, NEW s \in Clients, BuildGroupSession(s), NEW u \in Users,
         NEW g \in Groups, g = call[s].group, Member(u, g)'.in, Member(u, g)'.offline,
         <<u, g>> \notin hist'.unsaved
  PROVE  rows'[g][u].loc
<1> DEFINE c == call[s]
           differ == {v \in Users : c.sos[v] # flag[v] \/ Saving(v)}
           unsaved == {v \in Users : c.seen[v].loc /\ ~rows[g][v].loc}
           L == hist.lost \cup (SocketsIn(g) \ (IF c.seen[c.user].in THEN {c.sock} ELSE {}))
           A == (hist.apart \ (Users \X {g})) \cup (differ \X {g})
           U == (hist.unsaved \ (Users \X {g})) \cup (unsaved \X {g})
<1>1. c \in CallType
  BY Nones, ConnectingSlot DEF BuildGroupSession, At, ConnectPcs, Typed
<1>2. UNCHANGED rows /\ hist'.unsaved = U
  <2>1. hist' = [hist EXCEPT !.lost = L, !.apart = A, !.unsaved = U] /\ UNCHANGED rows
    BY DEF BuildGroupSession, database
  <2> HIDE DEF L, A, U
  <2>2. QED
    BY <2>1, StateTyped DEF Typed, HistType
<1>3. Member(u, g)' = Restored(c, u)
  BY Nones, BuildBecomes
<1>4. Restored(c, u).in /\ Restored(c, u).offline
  BY <1>3
<1>5. c.seen[u].loc
  BY <1>1, <1>4 DEF Restored, Absent, CallType, RowType
<1>6. <<u, g>> \notin unsaved \X {g}
  BY <1>2
<1>7. rows[g][u].loc
  BY <1>5, <1>6
<1>8. QED
  BY <1>2, <1>7

Placed ==
  \A u \in Users, g \in Groups :
    Member(u, g).in /\ Member(u, g).offline /\ rows[g][u].in /\ <<u, g>> \notin hist.unsaved
      => rows[g][u].loc \/ \E s \in Sweeps : Saver(call[s], u, g)

PlacedInv == Typed /\ Mapped /\ Placed

LEMMA PlacedMeans == PlacedInv => OfflineSaved
<1> SUFFICES ASSUME PlacedInv, NEW u \in Users, NEW g \in Groups,
                    RequireMember(u, g), Rec(u, g).offline, rows[g][u].in,
                    <<u, g>> \notin hist.unsaved
             PROVE  \/ rows[g][u].loc
                    \/ \E s \in Sweeps : /\ At(s, "sw_save") /\ call[s].user = u
                                         /\ call[s].group = g
  BY DEF OfflineSaved
<1>1. Member(u, g).in /\ Member(u, g).offline
  BY LiveIsMember DEF PlacedInv
<1>2. QED
  BY <1>1 DEF PlacedInv, Placed, Saver, At

LEMMA InitPlaced == Init => PlacedInv
BY InitTyped, InitMapped DEF Init, PlacedInv, Placed, Member, Absent

LEMMA NextPlaced == PlacedInv /\ [Next]_vars => PlacedInv'
<1> SUFFICES ASSUME PlacedInv, [Next]_vars PROVE PlacedInv'
  OBVIOUS
<1>1. Typed' /\ Mapped'
  BY NextTyped, MappedNext DEF PlacedInv
<1>2. CASE UNCHANGED vars
  <2>1. Placed'
    BY <1>2 DEF vars, memory, database, PlacedInv, Placed, Member
  <2>2. QED
    BY <1>1, <2>1 DEF PlacedInv
<1>3. CASE Next
  <2>1. ASSUME NEW u \in Users, NEW g \in Groups, Member(u, g)'.in, Member(u, g)'.offline,
               rows'[g][u].in, <<u, g>> \notin hist'.unsaved
        PROVE  rows'[g][u].loc \/ \E s \in Sweeps : Saver(call'[s], u, g)
    <3>1. Step /\ Typed /\ Mapped
      BY <1>3 DEF Next, PlacedInv
    <3>2. CASE \E s \in Clients : BuildGroupSession(s) /\ call[s].group = g
      BY <2>1, <3>1, <3>2, BuiltPlaces
    <3>3. CASE /\ Member(u, g).in /\ Member(u, g).offline
               /\ ~\E s \in Clients : BuildGroupSession(s) /\ call[s].group = g
      <4>1. \/ rows'[g][u].loc
            \/ rows[g][u].in /\ <<u, g>> \notin hist.unsaved /\ ~rows[g][u].loc
        BY <2>1, <3>1, <3>3, PlacesKept
      <4>2. CASE rows[g][u].in /\ <<u, g>> \notin hist.unsaved /\ ~rows[g][u].loc
        <5>1. PICK t \in Sweeps : Saver(call[t], u, g)
          BY <3>3, <4>2 DEF PlacedInv, Placed
        <5>2. CASE SameHandler(call'[t], call[t])
          BY <5>1, <5>2 DEF SameHandler, Saver
        <5>3. CASE SnapshotMember(t)
          <6>1. rows' = WithPlace(u, g)
            BY <5>1, <5>3 DEF SnapshotMember, Saver
          <6>2. QED
            BY <3>1, <4>2, <6>1 DEF WithPlace, Typed, TypeOK
        <5>4. CASE Fail(t)
          <6> DEFINE p == <<u, g>>
          <6>1. p \in Held
            BY <3>1, <3>3, PairsOf, LiveIsMember DEF Held
          <6>2. PICK P : hist' = [hist EXCEPT !.apart = @ \cup P, !.unsaved = @ \cup ({p} \cap Held)]
            BY <5>1, <5>4 DEF Fail, Saver
          <6>3. hist'.unsaved = hist.unsaved \cup ({p} \cap Held)
            BY <3>1, <6>2, StateTyped DEF Typed, HistType
          <6>4. QED
            BY <2>1, <6>1, <6>3
        <5>5. CASE Crash
          BY <2>1, <5>5, CrashBecomes DEF Absent
        <5>6. QED
          BY <3>1, <5>1, <5>2, <5>3, <5>4, <5>5, SaversKept DEF Saver
      <4>3. QED
        BY <4>1, <4>2
    <3>4. QED
      BY <2>1, <3>1, <3>2, <3>3, OfflineGrows
  <2>2. QED
    BY <1>1, <2>1 DEF PlacedInv, Placed
<1>4. QED
  BY <1>2, <1>3

\* An offline member's place is saved, or about to be: the session may go.
THEOREM OfflineMembersSaved == Spec => []OfflineSaved
BY PlacedMeans, InitPlaced, NextPlaced, PTL DEF Spec

-----------------------------------------------------------------------------
(* Sockets of connections *)

\* A connection in progress has its socket for itself, and client.data unset.
Connecting ==
  \A s \in Clients : call[s].pc \in ConnectPcs =>
    LET c == call[s]
        k == sock[c.sock]
    IN  /\ k.st # "unused" /\ ~k.data /\ k.user = c.user /\ k.group = c.group
        /\ \A t \in Clients : call[t].pc \in ConnectPcs /\ call[t].sock = c.sock => t = s

Awaiting(k) == \E s \in Clients : call[s].pc \in ConnectPcs /\ call[s].sock = k

\* The end of a connection.
Settles(s, k) ==
  /\ call[s].pc \in ConnectPcs /\ k = call[s].sock /\ call'[s].pc \notin ConnectPcs
  /\ \/ sock' = Admitted(k) /\ (AttachMember(s) \/ BuildGroupSession(s))
     \/ sock' = Refused(k)

LEMMA SettlesCases ==
  ASSUME Typed, NEW s \in Slots,
         \/ AttachMember(s) \/ BuildGroupSession(s) \/ Reject(s)
         \/ Fail(s) /\ call[s].pc \in ConnectPcs
  PROVE  s \in Clients /\ Settles(s, call[s].sock)
<1>1. call[s].pc \in ConnectPcs
  BY DEF AttachMember, BuildGroupSession, Reject, At, ConnectPcs
<1>2. s \in Clients /\ s \notin Sweeps
  BY <1>1, ConnectingSlot, Nones DEF Typed
<1>3. Return(s)
  BY <1>2 DEF AttachMember, BuildGroupSession, Reject, Fail, Return
<1>4. call'[s].pc \notin ConnectPcs
  BY <1>3 DEF Return, Await, Typed, TypeOK, NoCall, ConnectPcs
<1>5. QED
  BY <1>1, <1>2, <1>4 DEF Settles, AttachMember, BuildGroupSession, Reject, Fail

LEMMA SockSteps ==
  ASSUME Typed, Step
  PROVE  \/ UNCHANGED sock
         \/ \E s \in Clients, u \in Users, g \in Groups, loc \in BOOLEAN : Connect(s, u, g, loc)
         \/ \E s \in Clients : \E k \in Sockets : Settles(s, k)
         \/ \E s \in Clients : \E k \in Sockets : Disconnect(s, k)
         \/ Crash
<1>1. ASSUME NEW s \in Slots,
             \/ AttachMember(s) \/ BuildGroupSession(s) \/ Reject(s)
             \/ Fail(s) /\ call[s].pc \in ConnectPcs
      PROVE  s \in Clients /\ \E k \in Sockets : Settles(s, k)
  <2>1. s \in Clients /\ Settles(s, call[s].sock)
    BY <1>1, SettlesCases
  <2>2. call[s].sock \in Sockets
    BY <2>1, Nones, ConnectingSlot DEF Settles, Typed
  <2>3. QED
    BY <2>1, <2>2
<1>2. ASSUME NEW s \in Sweeps, NEW u \in Users,
             \/ Visit(s, u)
             \/ (SweepAlarmed(s) \/ SweepNoticed(s)) /\ u = call[s].user
      PROVE  UNCHANGED sock
  BY <1>2, PassCases
<1>3. ASSUME NEW s \in Sweeps, SweepAlarmed(s) \/ SweepNoticed(s)
      PROVE  UNCHANGED sock
  BY <1>3 DEF SweepAlarmed, SweepNoticed
<1>4. ASSUME \/ \E s \in Clients :
                  \/ \E k \in Sockets, to \in BOOLEAN : ChangeSos(s, k, to)
                  \/ StartBuilding(s) \/ ReadGroup(s) \/ PersistLastLocation(s)
             \/ \E v \in Users, h \in Groups :
                  UpdateLocation(v, h) \/ LeaveGroup(v, h) \/ AddUserToGroup(v, h)
             \/ \E s \in Slots : SaveFlag(s) \/ (Fail(s) /\ call[s].pc \notin ConnectPcs)
             \/ \E s \in Sweeps :
                  SnapshotMember(s) \/ EndGroup(s) \/ \E h \in Groups : StartPass(s, h)
      PROVE  UNCHANGED sock
  BY <1>4 DEF ChangeSos, StartBuilding, ReadGroup, PersistLastLocation, UpdateLocation,
     LeaveGroup, AddUserToGroup, SaveFlag, Fail, SnapshotMember, EndGroup, StartPass
<1>5. QED
  BY <1>1, <1>2, <1>3, <1>4, Nones DEF Step

\* What ends a connection, or closes a socket, leaves the rest of them alone.
LEMMA SettledSock ==
  ASSUME Typed, Connecting, NEW s \in Clients, NEW k \in Sockets, Settles(s, k)
  PROVE  /\ \A j \in Sockets \ {k} : sock'[j] = sock[j]
         /\ \A t \in Clients : t # s /\ call[t].pc \in ConnectPcs => call[t].sock # k
         /\ sock' = Admitted(k) =>
              /\ sock'[k].user = sock[k].user /\ sock'[k].group = sock[k].group
              /\ sock'[k].st = sock[k].st
         /\ sock' = Refused(k) => ~Authenticated(k)' /\ sock'[k].st # "unused"
<1>1. \A t \in Clients : t # s /\ call[t].pc \in ConnectPcs => call[t].sock # k
  BY DEF Connecting, Settles
<1>2. \A j \in Sockets \ {k} : sock'[j] = sock[j]
  BY DEF Settles, Admitted, Refused, Typed, TypeOK
<1>3. sock' = Admitted(k) =>
              /\ sock'[k].user = sock[k].user /\ sock'[k].group = sock[k].group
              /\ sock'[k].st = sock[k].st
  BY DEF Admitted, Typed, TypeOK, SockType
<1>4. sock' = Refused(k) => ~Authenticated(k)' /\ sock'[k].st # "unused"
  BY GoneTyped DEF Refused, Authenticated, Typed, TypeOK
<1>5. QED
  BY <1>1, <1>2, <1>3, <1>4

LEMMA ClosedSock ==
  ASSUME Typed, NEW s \in Slots, NEW k \in Sockets, Disconnect(s, k)
  PROVE  /\ \A j \in Sockets \ {k} : sock'[j] = sock[j]
         /\ sock'[k].st = "closed" /\ ~sock'[k].data
         /\ ~sock[k].data => sock'[k].user = sock[k].user /\ sock'[k].group = sock[k].group
<1>1. sock' = Closed(k) /\ sock[k] \in SockType
  BY StateTyped DEF Disconnect, Typed
<1>2. QED
  BY <1>1, GoneTyped DEF Closed, Typed, TypeOK, SockType

LEMMA OpenedSock ==
  ASSUME Typed, NEW s \in Slots, NEW u \in Users, NEW g \in Groups, NEW loc \in BOOLEAN,
         Connect(s, u, g, loc)
  PROVE  /\ NextSocket \in Sockets /\ sock[NextSocket].st = "unused"
         /\ \A j \in Sockets \ {NextSocket} : sock'[j] = sock[j]
         /\ sock'[NextSocket].st = "open" /\ sock'[NextSocket].user = u
         /\ sock'[NextSocket].group = g /\ ~sock'[NextSocket].data
         /\ call'[s].sock = NextSocket /\ call'[s].user = u /\ call'[s].group = g
         /\ \A t \in Slots \ {s} : call'[t] = call[t]
<1> DEFINE k == NextSocket
           c == [NoCall EXCEPT !.pc = "con_member", !.sock = k, !.user = u,
                               !.group = g, !.loc = loc, !.ok = rows[g][u].in]
<1>1. k \in Sockets /\ sock[k].st = "unused"
  BY PickedSocket DEF Connect
<1>2. sock' = [sock EXCEPT ![k] = [st |-> "open", user |-> u, group |-> g, data |-> FALSE]]
      /\ Await(s, c)
  BY DEF Connect
<1>3. c.sock = k /\ c.user = u /\ c.group = g
  BY NoCallTyped DEF CallType
<1> HIDE DEF c, k
<1>4. QED
  BY <1>1, <1>2, <1>3 DEF Await, Typed, TypeOK, k

\* A connection that goes on keeps its socket and whose it is.
LEMMA ConnectionKept ==
  ASSUME Typed, Step, NEW t \in Clients, call'[t].pc \in ConnectPcs
  PROVE  \/ \E u \in Users, g \in Groups, loc \in BOOLEAN : Connect(t, u, g, loc)
         \/ /\ call[t].pc \in ConnectPcs
            /\ call'[t].sock = call[t].sock /\ call'[t].user = call[t].user
            /\ call'[t].group = call[t].group
<1>1. CASE SameHandler(call'[t], call[t])
  BY <1>1 DEF SameHandler
<1>2. CASE StartBuilding(t)
  <2> DEFINE c == [call[t] EXCEPT !.pc = "con_group"]
  <2>1. c.user = call[t].user /\ c.group = call[t].group /\ c.sock = call[t].sock
    BY StateTyped, Nones DEF CallType, Typed
  <2>2. Await(t, c) /\ call[t].pc \in ConnectPcs
    BY <1>2 DEF StartBuilding, At, ConnectPcs
  <2> HIDE DEF c
  <2>3. QED
    BY <2>1, <2>2, Nones DEF Await, Typed, TypeOK
<1>3. CASE ReadGroup(t)
  <2> DEFINE c == [call[t] EXCEPT !.pc = "con_build", !.seen = rows[call[t].group],
                                  !.sos = flag]
  <2>1. c.user = call[t].user /\ c.group = call[t].group /\ c.sock = call[t].sock
    BY StateTyped, Nones DEF CallType, Typed
  <2>2. Await(t, c) /\ call[t].pc \in ConnectPcs
    BY <1>3 DEF ReadGroup, At, ConnectPcs
  <2> HIDE DEF c
  <2>3. QED
    BY <2>1, <2>2, Nones DEF Await, Typed, TypeOK
<1>4. QED
  BY <1>1, <1>2, <1>3, ConnectsKept

LEMMA ConnectingKept == ASSUME Typed, Connecting, Step PROVE Connecting'
<1>1. ASSUME NEW s \in Clients, NEW u \in Users, NEW g \in Groups, NEW loc \in BOOLEAN,
             Connect(s, u, g, loc)
      PROVE  Connecting'
  <2>1. \A t \in Clients : t # s /\ call'[t].pc \in ConnectPcs =>
          /\ call[t].pc \in ConnectPcs /\ call'[t].sock = call[t].sock
          /\ call[t].sock \in Sockets \ {NextSocket}
    BY <1>1, Nones, OpenedSock, ConnectingSlot DEF Connecting, Typed
  <2>2. QED
    BY <1>1, <2>1, Nones, OpenedSock DEF Connecting
<1>2. ASSUME ~\E s \in Clients, u \in Users, g \in Groups, loc \in BOOLEAN : Connect(s, u, g, loc)
      PROVE  \A t \in Clients : call'[t].pc \in ConnectPcs =>
               /\ call[t].pc \in ConnectPcs /\ call[t].sock \in Sockets
               /\ call'[t].sock = call[t].sock /\ call'[t].user = call[t].user
               /\ call'[t].group = call[t].group
  BY <1>2, Nones, ConnectionKept, ConnectingSlot DEF Typed
<1>3. ASSUME ~\E s \in Clients, u \in Users, g \in Groups, loc \in BOOLEAN : Connect(s, u, g, loc),
             UNCHANGED sock
      PROVE  Connecting'
  BY <1>2, <1>3 DEF Connecting
<1>4. ASSUME ~\E s \in Clients, u \in Users, g \in Groups, loc \in BOOLEAN : Connect(s, u, g, loc),
             NEW s \in Clients, NEW k \in Sockets, Settles(s, k)
      PROVE  Connecting'
  <2>1. \A t \in Clients : call'[t].pc \in ConnectPcs => sock'[call[t].sock] = sock[call[t].sock]
    BY <1>2, <1>4, SettledSock DEF Settles
  <2>2. QED
    BY <1>2, <1>4, <2>1 DEF Connecting
<1>5. ASSUME ~\E s \in Clients, u \in Users, g \in Groups, loc \in BOOLEAN : Connect(s, u, g, loc),
             NEW s \in Clients, NEW k \in Sockets, Disconnect(s, k)
      PROVE  Connecting'
  <2>1. \A t \in Clients : call'[t].pc \in ConnectPcs =>
          LET j == call[t].sock
          IN  /\ sock'[j].st # "unused" /\ ~sock'[j].data
              /\ sock'[j].user = sock[j].user /\ sock'[j].group = sock[j].group
    BY <1>2, <1>5, Nones, ClosedSock DEF Connecting
  <2>2. QED
    BY <1>2, <1>5, <2>1 DEF Connecting
<1>6. CASE Crash
  BY <1>6, Nones DEF Crash, Connecting, NoCall, ConnectPcs
<1>7. QED
  BY <1>1, <1>3, <1>4, <1>5, <1>6, SockSteps

LEMMA InitConnecting == Init => Connecting
BY Nones DEF Init, Connecting, NoCall, ConnectPcs

LEMMA ConnectingNext == Typed /\ Connecting /\ [Next]_vars => Connecting'
<1>1. CASE UNCHANGED vars
  BY <1>1 DEF vars, Connecting
<1>2. QED
  BY <1>1, ConnectingKept DEF Next

-----------------------------------------------------------------------------
(* SocketsKnown *)

\* Whose k is, and that its connection is over.
Settled(k, u, g) ==
  sock[k].user = u /\ sock[k].group = g /\ sock[k].st # "unused" /\ ~Awaiting(k)

Known ==
  \A u \in Users, g \in Groups :
    LET m == Member(u, g)
    IN  m.in /\ m.sock # None => Settled(m.sock, u, g)

KnownInv == Typed /\ Mapped /\ Connecting /\ Known

LEMMA KnownMeans == KnownInv => SocketsKnown
<1> SUFFICES ASSUME KnownInv, NEW u \in Users, NEW g \in Groups,
                    RequireMember(u, g), Rec(u, g).sock # None
             PROVE  Rec(u, g).sock \in SocketsOf(u, g)
  BY DEF SocketsKnown
<1>1. Member(u, g).in /\ Rec(u, g) = Member(u, g) /\ Member(u, g) \in MemberType
  BY LiveIsMember DEF KnownInv
<1>2. QED
  BY <1>1 DEF KnownInv, Known, Settled, SocketsOf, MemberType, Maybe

\* The socket of a connection that is over stays somebody's until it closes.
LEMMA SettledKept ==
  ASSUME Typed, Connecting, Step, NEW k \in Sockets, NEW u, NEW g, Settled(k, u, g)
  PROVE  Settled(k, u, g)' \/ Crash \/ \E s \in Clients : Disconnect(s, k) /\ sock[k].data
<1>1. ~Awaiting(k)'
  <2> SUFFICES ASSUME NEW t \in Clients, call'[t].pc \in ConnectPcs, call'[t].sock = k
               PROVE  FALSE
    BY DEF Awaiting
  <2>1. CASE \E v \in Users, h \in Groups, loc \in BOOLEAN : Connect(t, v, h, loc)
    BY <2>1, Nones, OpenedSock DEF Settled
  <2>2. CASE call[t].pc \in ConnectPcs /\ call'[t].sock = call[t].sock
    BY <2>2 DEF Settled, Awaiting
  <2>3. QED
    BY <2>1, <2>2, ConnectionKept
<1>2. CASE sock'[k] = sock[k]
  BY <1>1, <1>2 DEF Settled
<1>3. ASSUME NEW s \in Clients, NEW v \in Users, NEW h \in Groups, NEW loc \in BOOLEAN,
             Connect(s, v, h, loc)
      PROVE  sock'[k] = sock[k]
  BY <1>3, Nones, OpenedSock DEF Settled
<1>4. ASSUME NEW s \in Clients, NEW j \in Sockets, Settles(s, j)
      PROVE  sock'[k] = sock[k]
  BY <1>4, SettledSock DEF Settled, Awaiting, Settles
<1>5. ASSUME NEW s \in Clients, NEW j \in Sockets, Disconnect(s, j)
      PROVE  Settled(k, u, g)' \/ (Disconnect(s, k) /\ sock[k].data)
  <2>1. CASE j # k
    BY <1>2, <1>5, <2>1, Nones, ClosedSock, <1>1 DEF Settled
  <2>2. CASE j = k
    BY <1>1, <1>5, <2>2, Nones, ClosedSock DEF Settled
  <2>3. QED
    BY <2>1, <2>2
<1>6. QED
  BY <1>2, <1>3, <1>4, <1>5, SockSteps

\* The socket that a connection has put into a record is settled.
LEMMA JoinedSettled ==
  ASSUME Typed, Connecting, NEW s \in Clients, NEW k \in Sockets, Settles(s, k),
         sock' = Admitted(k), \A t \in Clients \ {s} : call'[t] = call[t]
  PROVE  \A u, g : u = call[s].user /\ g = call[s].group => Settled(k, u, g)'
<1>1. sock[k].st # "unused" /\ sock[k].user = call[s].user /\ sock[k].group = call[s].group
  BY DEF Connecting, Settles
<1>2. ~Awaiting(k)'
  BY SettledSock DEF Awaiting, Settles
<1>3. QED
  BY <1>1, <1>2, SettledSock DEF Settled

LEMMA JoinSettles ==
  ASSUME Typed, Connecting, NEW s \in Clients, AttachMember(s) \/ BuildGroupSession(s)
  PROVE  /\ Settles(s, call[s].sock) /\ call[s].sock \in Sockets
         /\ sock' = Admitted(call[s].sock)
         /\ \A t \in Clients \ {s} : call'[t] = call[t]
<1>1. Settles(s, call[s].sock) /\ sock' = Admitted(call[s].sock) /\ Return(s)
  BY Nones, SettlesCases DEF AttachMember, BuildGroupSession
<1>2. call[s].sock \in Sockets
  BY <1>1, Nones, ConnectingSlot DEF Settles, Typed
<1>3. QED
  BY <1>1, <1>2, Nones DEF Return, Await, Typed, TypeOK

LEMMA KnownKept ==
  ASSUME KnownInv, Step, NEW u \in Users, NEW g \in Groups,
         Member(u, g)'.in, Member(u, g)'.sock # None
  PROVE  \A k : k = Member(u, g)'.sock => Settled(k, u, g)'
<1> DEFINE m == Member(u, g)
<1> USE DEF KnownInv
<1>1. ASSUME m.in, Member(u, g)'.sock = m.sock
      PROVE  \A k : k = Member(u, g)'.sock => Settled(k, u, g)'
  <2>1. PICK k : k = m.sock
    OBVIOUS
  <2>2. k \in Sockets /\ Settled(k, u, g)
    BY <1>1, <2>1, LiveIsMember DEF Known, MemberType, Maybe
  <2>3. ASSUME Crash
        PROVE  FALSE
    BY <2>3, CrashBecomes DEF Absent
  <2>4. ASSUME NEW s \in Clients, Disconnect(s, k), sock[k].data
        PROVE  FALSE
    <3>1. sock[k].user = u /\ sock[k].group = g /\ RequireMember(u, g)
      BY <1>1, <2>2, LiveIsMember DEF Settled
    <3>2. Becomes(u, g, [m EXCEPT !.sock = None])
      BY <2>2, <2>4, <3>1, Nones, DisconnectBecomes
    <3>3. Member(u, g)' = [m EXCEPT !.sock = None]
      BY <3>2 DEF Becomes
    <3>4. m \in MemberType
      BY LiveIsMember
    <3>5. QED
      BY <3>3, <3>4 DEF MemberType
  <2>5. Settled(k, u, g)'
    BY <2>2, <2>3, <2>4, SettledKept
  <2>6. QED
    BY <1>1, <2>1, <2>5
<1>2. ASSUME NEW s \in Clients, AttachMember(s) \/ BuildGroupSession(s),
             u = call[s].user, g = call[s].group, Member(u, g)'.sock = call[s].sock
      PROVE  \A k : k = Member(u, g)'.sock => Settled(k, u, g)'
  BY <1>2, JoinSettles, JoinedSettled
<1>3. ASSUME NEW s \in Clients, BuildGroupSession(s), g = call[s].group,
             Member(u, g)' = Restored(call[s], u)
      PROVE  u = call[s].user /\ Member(u, g)'.sock = call[s].sock
  BY <1>3 DEF Restored, Absent
<1>4. ASSUME NEW s, NEW d, NEW n, Deals(s, u, d, n)
      PROVE  n.in = heap[call[s].obj][u].in /\ n.sock = heap[call[s].obj][u].sock
  BY <1>4 DEF Deals
<1>5. QED
  BY <1>1, <1>2, <1>3, <1>4, RecordSteps DEF RecordStep, Absent

LEMMA InitKnown == Init => KnownInv
BY InitTyped, InitMapped, InitConnecting DEF Init, KnownInv, Known, Member, Absent

LEMMA NextKnown == KnownInv /\ [Next]_vars => KnownInv'
<1> SUFFICES ASSUME KnownInv, [Next]_vars PROVE KnownInv'
  OBVIOUS
<1>1. Typed' /\ Mapped' /\ Connecting'
  BY NextTyped, MappedNext, ConnectingNext DEF KnownInv
<1>2. CASE UNCHANGED vars
  <2>1. Known'
    BY <1>2 DEF vars, memory, KnownInv, Known, Member, Settled, Awaiting
  <2>2. QED
    BY <1>1, <2>1 DEF KnownInv
<1>3. CASE Next
  <2>1. ASSUME NEW u \in Users, NEW g \in Groups, Member(u, g)'.in, Member(u, g)'.sock # None
        PROVE  \A k : k = Member(u, g)'.sock => Settled(k, u, g)'
    BY <1>3, <2>1, KnownKept DEF Next
  <2>2. Known'
    BY <2>1 DEF Known, Settled, Awaiting
  <2>3. QED
    BY <1>1, <2>2 DEF KnownInv
<1>4. QED
  BY <1>2, <1>3

\* No record names a socket of somebody else, nor one that has closed after
\* its client.data was set.
THEOREM RecordsNameOwnSockets == Spec => []SocketsKnown
BY KnownMeans, InitKnown, NextKnown, PTL DEF Spec

-----------------------------------------------------------------------------
(* ConnectedTracked *)

\* A socket that may send could do so before, or its connection has just ended.
LEMMA AuthKept ==
  ASSUME Typed, Connecting, Step, NEW k \in Sockets, Authenticated(k)'
  PROVE  \/ Authenticated(k) /\ sock'[k] = sock[k]
         \/ \E s \in Clients : (AttachMember(s) \/ BuildGroupSession(s)) /\ k = call[s].sock
<1>1. CASE sock'[k] = sock[k]
  BY <1>1 DEF Authenticated
<1>2. ASSUME NEW s \in Clients, NEW u \in Users, NEW g \in Groups, NEW loc \in BOOLEAN,
             Connect(s, u, g, loc)
      PROVE  sock'[k] = sock[k]
  BY <1>2, Nones, OpenedSock DEF Authenticated
<1>3. ASSUME NEW s \in Clients, NEW j \in Sockets, Settles(s, j)
      PROVE  \/ sock'[k] = sock[k]
             \/ (AttachMember(s) \/ BuildGroupSession(s)) /\ k = call[s].sock
  BY <1>3, SettledSock DEF Settles
<1>4. ASSUME NEW s \in Clients, NEW j \in Sockets, Disconnect(s, j)
      PROVE  sock'[k] = sock[k]
  BY <1>4, Nones, ClosedSock DEF Authenticated
<1>5. ASSUME Crash
      PROVE  FALSE
  BY <1>5, GoneTyped DEF Crash, Authenticated, Unused
<1>6. QED
  BY <1>1, <1>2, <1>3, <1>4, <1>5, SockSteps

\* A socket stays in hist.lost until it closes.
LEMMA LostKept ==
  ASSUME Typed, Step, NEW k \in hist.lost
  PROVE  k \in hist'.lost \/ Crash \/ \E s \in Clients : Disconnect(s, k)
<1> DEFINE Goal == k \in hist'.lost
<1>1. ASSUME NEW X, NEW Y, NEW Z,
             \/ hist' = hist \/ hist' = [hist EXCEPT !.lost = @ \cup X]
             \/ hist' = [hist EXCEPT !.lost = @ \cup X, !.apart = Y]
             \/ hist' = [hist EXCEPT !.lost = @ \cup X, !.apart = Y, !.unsaved = Z]
             \/ hist' = [hist EXCEPT !.apart = Y]
             \/ hist' = [hist EXCEPT !.unsaved = Z]
             \/ hist' = [hist EXCEPT !.apart = Y, !.unsaved = Z]
      PROVE  Goal
  BY <1>1, StateTyped DEF Typed, HistType
<1> HIDE DEF Goal
<1>2. ASSUME \/ \E s \in Clients :
                  \/ \E v \in Users, h \in Groups, loc \in BOOLEAN : Connect(s, v, h, loc)
                  \/ StartBuilding(s) \/ ReadGroup(s) \/ Reject(s)
             \/ \E v \in Users, h \in Groups : UpdateLocation(v, h) \/ LeaveGroup(v, h)
             \/ \E s \in Slots : SaveFlag(s)
             \/ \E s \in Sweeps, h \in Groups : StartPass(s, h)
      PROVE  Goal
  <2>1. hist' = hist
    BY <1>2 DEF Connect, StartBuilding, ReadGroup, Reject, UpdateLocation, LeaveGroup, SaveFlag,
       StartPass
  <2>2. QED
    BY <1>1, <2>1
<1>3. ASSUME NEW s \in Slots,
             PersistLastLocation(s) \/ SnapshotMember(s)
      PROVE  Goal
  <2>1. PICK Z : hist' = hist \/ hist' = [hist EXCEPT !.unsaved = Z]
    BY <1>3 DEF PersistLastLocation, SnapshotMember, SavedAt
  <2>2. QED
    BY <1>1, <2>1
<1>4. ASSUME NEW s \in Slots, Fail(s)
      PROVE  Goal
  <2>1. PICK Y, Z : hist' = [hist EXCEPT !.apart = Y, !.unsaved = Z]
    BY <1>4 DEF Fail
  <2>2. QED
    BY <1>1, <2>1
<1>5. ASSUME NEW s \in Slots, AttachMember(s)
      PROVE  Goal
  <2>1. PICK X, Y : hist' = [hist EXCEPT !.lost = @ \cup X, !.apart = Y]
    BY <1>5 DEF AttachMember
  <2>2. QED
    BY <1>1, <2>1
<1>6. ASSUME NEW s \in Slots, BuildGroupSession(s)
      PROVE  Goal
  <2>1. PICK X, Y, Z : hist' = [hist EXCEPT !.lost = @ \cup X, !.apart = Y, !.unsaved = Z]
    BY <1>6 DEF BuildGroupSession
  <2>2. QED
    BY <1>1, <2>1
<1>7. ASSUME NEW s, NEW u, NEW g, NEW to, NEW c, SetSos(s, u, g, to, c)
      PROVE  Goal
  <2>1. PICK Y : hist' = [hist EXCEPT !.apart = Y]
    BY <1>7 DEF SetSos
  <2>2. QED
    BY <1>1, <2>1
<1>8. ASSUME NEW s \in Clients, NEW j \in Sockets, NEW to \in BOOLEAN, ChangeSos(s, j, to)
      PROVE  Goal
  BY <1>7, <1>8 DEF ChangeSos
<1>9. ASSUME NEW s \in Sweeps, NEW u \in Users,
             \/ Visit(s, u)
             \/ (SweepAlarmed(s) \/ SweepNoticed(s)) /\ u = call[s].user
      PROVE  Goal
  <2>1. ASSUME NEW d, NEW m, Deals(s, u, d, m)
        PROVE  Goal
    <3>1. PICK X : hist' = hist \/ hist' = [hist EXCEPT !.lost = @ \cup X]
      BY <2>1 DEF Deals
    <3>2. QED
      BY <1>1, <3>1
  <2>2. QED
    BY <1>7, <1>9, <2>1, PassCases DEF Alarms
<1>10. ASSUME NEW s \in Sweeps, SweepAlarmed(s) \/ SweepNoticed(s)
       PROVE  Goal
  <2>1. call[s].user \in Users
    BY <1>10, SweepingSlot DEF SweepAlarmed, SweepNoticed, At, Typed
  <2>2. QED
    BY <1>9, <1>10, <2>1
<1>11. ASSUME NEW s \in Sweeps, EndGroup(s)
       PROVE  Goal
  <2>1. hist' = hist \/ hist'.lost = hist.lost \/ \E X : hist'.lost = hist.lost \cup X
    BY <1>11 DEF EndGroup
  <2>2. QED
    BY <2>1 DEF Goal
<1>12. ASSUME NEW s \in Clients, NEW j \in Sockets, Disconnect(s, j)
       PROVE  Goal \/ Disconnect(s, k)
  <2>1. PICK X : /\ \/ X = (hist.lost \cup SocketsOf(sock[j].user, sock[j].group)) \ {j}
                    \/ X = hist.lost \ {j}
                 /\ hist' = [hist EXCEPT !.lost = X]
    BY <1>12 DEF Disconnect
  <2>2. QED
    BY <1>12, <2>1, StateTyped DEF Typed, HistType, Goal
<1>13. CASE \E s \in Clients :
              \/ \E v \in Users, h \in Groups, loc \in BOOLEAN : Connect(s, v, h, loc)
              \/ \E j \in Sockets, to \in BOOLEAN : ChangeSos(s, j, to)
              \/ \E j \in Sockets : Disconnect(s, j)
              \/ AttachMember(s) \/ StartBuilding(s) \/ ReadGroup(s)
              \/ BuildGroupSession(s) \/ Reject(s) \/ PersistLastLocation(s)
  BY <1>2, <1>3, <1>5, <1>6, <1>8, <1>12, <1>13, Nones DEF Goal
<1>14. CASE \E v \in Users, h \in Groups : AddUserToGroup(v, h)
  <2>1. PICK Z : hist' = [hist EXCEPT !.unsaved = Z]
    BY <1>14 DEF AddUserToGroup
  <2>2. QED
    BY <1>1, <2>1 DEF Goal
<1>15. QED
  BY <1>2, <1>3, <1>4, <1>9, <1>10, <1>11, <1>13, <1>14, Nones DEF Step, Goal

IsTracked(k, u, g) == Member(u, g).in /\ Member(u, g).sock = k /\ ~Member(u, g).offline

Tracked ==
  \A k \in Sockets \ hist.lost, u \in Users, g \in Groups :
    Authenticated(k) /\ sock[k].user = u /\ sock[k].group = g => IsTracked(k, u, g)

TrackedInv == Typed /\ Mapped /\ Connecting /\ Tracked

LEMMA TrackedMeans == TrackedInv => ConnectedTracked
<1> SUFFICES ASSUME TrackedInv, NEW k \in Sockets \ hist.lost, Authenticated(k)
             PROVE  LET u == sock[k].user
                        g == sock[k].group
                    IN  RequireMember(u, g) /\ Rec(u, g).sock = k /\ ~Rec(u, g).offline
  BY DEF ConnectedTracked
<1>1. sock[k].user \in Users /\ sock[k].group \in Groups
  BY DEF TrackedInv, Typed, SocksOwned, Authenticated
<1>2. IsTracked(k, sock[k].user, sock[k].group)
  BY <1>1 DEF TrackedInv, Tracked
<1>3. QED
  BY <1>1, <1>2, LiveIsMember DEF TrackedInv, IsTracked

\* The socket of a connection that has ended is tracked, or lost.
LEMMA JoinerTracked ==
  ASSUME TrackedInv, NEW s \in Clients, AttachMember(s) \/ BuildGroupSession(s),
         NEW k \in Sockets, k = call[s].sock, NEW u \in Users, NEW g \in Groups,
         sock'[k].user = u, sock'[k].group = g
  PROVE  IsTracked(k, u, g)' \/ k \in hist'.lost
<1> USE DEF TrackedInv
<1> DEFINE c == call[s]
<1>1. c.user = u /\ c.group = g /\ sock[k].user = u /\ sock[k].group = g
  BY JoinSettles, SettledSock DEF Connecting, Settles
<1>2. CASE AttachMember(s)
  <2> DEFINE m == Member(u, g)
             n == IF m.in THEN Attached(m, c.sock, c.loc) ELSE Newcomer(c.sock, c.loc)
  <2>1. n.in /\ n.sock = c.sock /\ ~n.offline
    BY LiveIsMember DEF Attached, Newcomer, Absent, MemberType
  <2>2. Becomes(u, g, n)
    BY <1>1, <1>2, Nones, AttachBecomes
  <2> HIDE DEF n
  <2>3. Member(u, g)' = n
    BY <2>2 DEF Becomes
  <2>4. QED
    BY <2>1, <2>3 DEF IsTracked
<1>3. CASE BuildGroupSession(s)
  <2>1. Member(u, g)' = Restored(c, u)
    BY <1>1, <1>3, Nones, BuildBecomes
  <2>2. CASE c.seen[u].in
    <3>1. Restored(c, u).in /\ Restored(c, u).sock = k /\ ~Restored(c, u).offline
      BY <1>1, <2>2 DEF Restored
    <3>2. QED
      BY <2>1, <3>1 DEF IsTracked
  <2>3. CASE ~c.seen[u].in
    <3>1. PICK Y, Z : hist' = [hist EXCEPT !.lost = @ \cup SocketsIn(g), !.apart = Y, !.unsaved = Z]
      <4>1. SocketsIn(g) \ (IF c.seen[c.user].in THEN {c.sock} ELSE {}) = SocketsIn(g)
        BY <1>1, <2>3
      <4>2. QED
        BY <1>1, <1>3, <4>1 DEF BuildGroupSession
    <3>2. k \in SocketsIn(g)
      BY <1>1 DEF SocketsIn, SocketsOf
    <3>3. QED
      BY <3>1, <3>2, StateTyped DEF Typed, HistType
  <2>4. QED
    BY <2>2, <2>3
<1>4. QED
  BY <1>2, <1>3

\* A socket that was tracked, and stays open, is tracked still, or lost.
LEMMA TrackedStays ==
  ASSUME TrackedInv, Step, NEW k \in Sockets, NEW u \in Users, NEW g \in Groups,
         Authenticated(k), sock'[k] = sock[k], sock[k].user = u, sock[k].group = g,
         IsTracked(k, u, g)
  PROVE  IsTracked(k, u, g)' \/ k \in hist'.lost
<1> USE DEF TrackedInv
<1> DEFINE m == Member(u, g)
           n == Member(u, g)'
           Goal == IsTracked(k, u, g)' \/ k \in hist'.lost
<1>1. ASSUME n.in = m.in, n.sock = m.sock, n.offline = m.offline \/ ~n.offline
      PROVE  Goal
  BY <1>1 DEF IsTracked
<1>2. /\ k \in SocketsOf(u, g) /\ k \in SocketsIn(g) /\ k # None /\ sock[k].data
      /\ sock[k].st = "open"
  BY Nones DEF SocketsOf, SocketsIn, Authenticated
<1>3. ASSUME NEW s \in Clients, AttachMember(s), u = call[s].user, g = call[s].group
      PROVE  Goal
  <2>1. k # call[s].sock
    BY <1>2, <1>3, JoinSettles DEF Connecting, Settles
  <2> DEFINE X == SocketsOf(u, g) \ {call[s].sock}
  <2>2. PICK Y : hist' = [hist EXCEPT !.lost = @ \cup X, !.apart = Y]
    BY <1>3 DEF AttachMember
  <2>3. k \in X
    BY <1>2, <2>1
  <2> HIDE DEF X
  <2>4. QED
    BY <2>2, <2>3, StateTyped DEF Typed, HistType
<1>4. ASSUME NEW s \in Clients, BuildGroupSession(s), g = call[s].group
      PROVE  Goal
  <2>1. k # call[s].sock
    BY <1>2, <1>4, JoinSettles DEF Connecting, Settles
  <2> DEFINE X == SocketsIn(g) \ (IF call[s].seen[call[s].user].in THEN {call[s].sock} ELSE {})
  <2>2. PICK Y, Z : hist' = [hist EXCEPT !.lost = @ \cup X, !.apart = Y, !.unsaved = Z]
    BY <1>4 DEF BuildGroupSession
  <2>3. k \in X
    BY <1>2, <2>1
  <2> HIDE DEF X
  <2>4. QED
    BY <2>2, <2>3, StateTyped DEF Typed, HistType
<1>5. ASSUME NEW s \in Clients, NEW j \in Sockets, Disconnect(s, j), u = sock[j].user,
             g = sock[j].group
      PROVE  Goal
  <2>1. j # k
    BY <1>2, <1>5, Nones, ClosedSock
  <2>2. RequireMember(u, g)
    BY LiveIsMember DEF IsTracked
  <2>3. CASE sock[j].data
    <3> DEFINE X == (hist.lost \cup SocketsOf(u, g)) \ {j}
    <3>1. hist' = [hist EXCEPT !.lost = X]
      BY <1>5, <2>2, <2>3 DEF Disconnect
    <3>2. k \in X
      BY <1>2, <2>1
    <3> HIDE DEF X
    <3>3. QED
      BY <3>1, <3>2, StateTyped DEF Typed, HistType
  <2>4. CASE ~sock[j].data
    <3>1. Stays
      BY <1>5, <2>4, Nones, DisconnectBecomes
    <3>2. QED
      BY <1>1, <3>1 DEF Stays
  <2>5. QED
    BY <2>3, <2>4
<1>6. ASSUME NEW s \in Sweeps, NEW d, Deals(s, u, d, n), m = heap[call[s].obj][u]
      PROVE  Goal
  <2>1. n.in = m.in /\ n.sock = m.sock
    BY <1>6 DEF Deals
  <2>2. CASE n.offline = m.offline
    BY <1>1, <2>1, <2>2
  <2>3. CASE hist' = [hist EXCEPT !.lost = @ \cup ({m.sock} \ {None})]
    <3>1. k \in {m.sock} \ {None}
      BY <1>2 DEF IsTracked
    <3>2. QED
      BY <2>3, <3>1, StateTyped DEF Typed, HistType
  <2>4. QED
    BY <1>6, <2>2, <2>3 DEF Deals
<1>7. ASSUME NEW s \in Sweeps, EndGroup(s), AllOffline(s), g = call[s].group
      PROVE  Goal
  <2>1. groups[g] # call[s].obj
    BY <1>7 DEF IsTracked, Member, AllOffline, Absent
  <2>2. hist'.lost = hist.lost \cup SocketsIn(g)
    BY <1>7, <2>1 DEF EndGroup, AllOffline
  <2>3. QED
    BY <1>2, <2>2
<1>8. ASSUME Crash
      PROVE  FALSE
  BY <1>2, <1>8, GoneTyped DEF Crash, Unused
<1> HIDE DEF Goal
<1>9. ASSUME NEW to, SosStep(u, g, to), n.in = m.in, n.sock = m.sock, n.offline = m.offline
      PROVE  Goal
  BY <1>1, <1>9
<1>10. Goal
  <2> HIDE DEF m, n
  <2>1. RecordStep(u, g, m, n)
    BY RecordSteps DEF m, n
  <2>2. QED
    BY <1>1, <1>3, <1>4, <1>5, <1>6, <1>7, <1>8, <2>1 DEF RecordStep
<1>11. QED
  BY <1>10 DEF Goal

LEMMA InitTracked == Init => TrackedInv
BY InitTyped, InitMapped, InitConnecting DEF Init, TrackedInv, Tracked, Authenticated, Unused

LEMMA NextTracked == TrackedInv /\ [Next]_vars => TrackedInv'
<1> SUFFICES ASSUME TrackedInv, [Next]_vars PROVE TrackedInv'
  OBVIOUS
<1>1. Typed' /\ Mapped' /\ Connecting'
  BY NextTyped, MappedNext, ConnectingNext DEF TrackedInv
<1>2. CASE UNCHANGED vars
  <2>1. Tracked'
    BY <1>2 DEF vars, memory, TrackedInv, Tracked, IsTracked, Member, Authenticated
  <2>2. QED
    BY <1>1, <2>1 DEF TrackedInv
<1>3. CASE Next
  <2>1. ASSUME NEW k \in Sockets, k \notin hist'.lost, NEW u \in Users, NEW g \in Groups,
               Authenticated(k)', sock'[k].user = u, sock'[k].group = g
        PROVE  IsTracked(k, u, g)'
    <3>1. Step /\ Typed /\ Connecting
      BY <1>3 DEF Next, TrackedInv
    <3>2. CASE \E s \in Clients : (AttachMember(s) \/ BuildGroupSession(s)) /\ k = call[s].sock
      BY <2>1, <3>2, JoinerTracked
    <3>3. CASE Authenticated(k) /\ sock'[k] = sock[k]
      <4>1. k \notin hist.lost
        <5>1. ASSUME Crash
              PROVE  FALSE
          BY <2>1, <5>1, GoneTyped DEF Crash, Authenticated, Unused
        <5>2. ASSUME NEW s \in Clients, Disconnect(s, k)
              PROVE  FALSE
          BY <2>1, <5>2, <3>1, Nones, ClosedSock DEF Authenticated
        <5>3. QED
          BY <2>1, <3>1, <5>1, <5>2, LostKept
      <4>2. IsTracked(k, u, g)
        BY <2>1, <3>3, <4>1 DEF TrackedInv, Tracked
      <4>3. QED
        BY <2>1, <3>1, <3>3, <4>2, TrackedStays
    <3>4. QED
      BY <2>1, <3>1, <3>2, <3>3, AuthKept
  <2>2. Tracked'
    BY <2>1 DEF Tracked
  <2>3. QED
    BY <1>1, <2>2 DEF TrackedInv
<1>4. QED
  BY <1>2, <1>3

\* What an open, authenticated socket sends is accepted and watched, but for
\* the sockets that hist.lost has taken.
THEOREM SocketsTracked == Spec => []ConnectedTracked
BY TrackedMeans, InitTracked, NextTracked, PTL DEF Spec

-----------------------------------------------------------------------------
(* SosOfSessions *)

\* A handler that is about to save the flag of u.
SavesFlag(c, u) == c.pc \in FlagPcs /\ c.user = u

\* No handler starts or ends saving a flag.
SavesKept(b, c) ==
  \/ b.pc \notin FlagPcs /\ c.pc \notin FlagPcs
  \/ b.pc = c.pc /\ b.user = c.user /\ b.to = c.to

Quiet == UNCHANGED flag /\ \A t \in Slots : SavesKept(call[t], call'[t])

\* The first segment of startSos or endSos, called by a client or by a pass.
SosSegment(s, u, g, to) ==
  /\ RequireMember(u, g) /\ UNCHANGED <<groups, flag>>
  /\ call[s].pc \notin FlagPcs
  /\ SavesFlag(call'[s], u) /\ call'[s].to = to
  /\ \A t \in Slots \ {s} : call'[t] = call[t]
  /\ \E c : SetSos(s, u, g, to, c)

LEMMA QuietAwait ==
  ASSUME Typed, NEW s \in Slots, call[s].pc \notin FlagPcs, NEW c, c.pc \notin FlagPcs,
         Await(s, c), UNCHANGED flag
  PROVE  Quiet
BY DEF Quiet, SavesKept, Await, Typed, TypeOK

LEMMA QuietSame == ASSUME UNCHANGED <<call, flag>> PROVE Quiet
BY DEF Quiet, SavesKept

LEMMA SegmentOf ==
  ASSUME Typed, NEW s \in Slots, NEW u \in Users, NEW g \in Groups, NEW to \in BOOLEAN,
         NEW c \in CallType, c.pc \in FlagPcs, SetSos(s, u, g, to, c),
         RequireMember(u, g), UNCHANGED <<groups, flag>>, call[s].pc \notin FlagPcs
  PROVE  SosSegment(s, u, g, to)
<1> DEFINE d == [c EXCEPT !.user = u, !.to = to]
<1>1. d.pc = c.pc /\ d.user = u /\ d.to = to
  BY DEF CallType
<1>2. Await(s, d)
  BY DEF SetSos
<1> HIDE DEF d
<1>3. call'[s] = d /\ \A t \in Slots \ {s} : call'[t] = call[t]
  BY <1>2 DEF Await, Typed, TypeOK
<1>4. SavesFlag(call'[s], u) /\ call'[s].to = to
  BY <1>1, <1>3 DEF SavesFlag
<1>5. QED
  BY <1>3, <1>4 DEF SosSegment

LEMMA FlagSteps ==
  ASSUME Typed, Step
  PROVE  \/ Quiet
         \/ \E s \in Slots, u \in Users, g \in Groups, to \in BOOLEAN : SosSegment(s, u, g, to)
         \/ \E s \in Slots : SaveFlag(s)
         \/ \E s \in Slots : Fail(s) /\ call[s].pc \in FlagPcs
         \/ Crash
<1> DEFINE Goal ==
      \/ Quiet
      \/ \E s \in Slots, u \in Users, g \in Groups, to \in BOOLEAN : SosSegment(s, u, g, to)
<1>1. NoCall.pc \notin FlagPcs
  BY DEF NoCall, FlagPcs
<1>2. ASSUME NEW s \in Clients,
             \/ AttachMember(s) \/ BuildGroupSession(s) \/ Reject(s) \/ PersistLastLocation(s)
             \/ StartBuilding(s) \/ ReadGroup(s)
      PROVE  Goal
  <2>1. call[s].pc \notin FlagPcs /\ UNCHANGED flag
    BY <1>2 DEF AttachMember, BuildGroupSession, Reject, PersistLastLocation, StartBuilding,
       ReadGroup, At, FlagPcs, database
  <2>2. PICK c : Await(s, c) /\ c.pc \notin FlagPcs
    <3> DEFINE x == [call[s] EXCEPT !.pc = "con_group"]
               y == [call[s] EXCEPT !.pc = "con_build", !.seen = rows[call[s].group],
                                    !.sos = flag]
    <3>1. x.pc = "con_group" /\ y.pc = "con_build"
      BY StateTyped, Nones DEF CallType, Typed
    <3>2. Await(s, NoCall) \/ Await(s, x) \/ Await(s, y)
      BY <1>2 DEF AttachMember, BuildGroupSession, Reject, PersistLastLocation, StartBuilding,
         ReadGroup, Return
    <3> HIDE DEF x, y
    <3>3. QED
      BY <1>1, <3>1, <3>2 DEF FlagPcs
  <2>3. QED
    BY <2>1, <2>2, QuietAwait, Nones
<1>3. ASSUME NEW s \in Clients, NEW u \in Users, NEW g \in Groups, NEW loc \in BOOLEAN,
             Connect(s, u, g, loc)
      PROVE  Goal
  <2> DEFINE c == [NoCall EXCEPT !.pc = "con_member", !.sock = NextSocket, !.user = u,
                                 !.group = g, !.loc = loc, !.ok = rows[g][u].in]
  <2>1. c.pc = "con_member"
    BY NoCallTyped DEF CallType
  <2>2. Await(s, c) /\ call[s].pc \notin FlagPcs /\ UNCHANGED flag
    BY <1>3 DEF Connect, Issue, At, FlagPcs, database
  <2> HIDE DEF c
  <2>3. QED
    BY <2>1, <2>2, Nones, QuietAwait DEF FlagPcs
<1>4. ASSUME NEW s \in Clients, NEW k \in Sockets, Disconnect(s, k)
      PROVE  Goal
  <2> DEFINE c == [NoCall EXCEPT !.pc = "dis_save", !.user = sock[k].user,
                                 !.group = sock[k].group]
  <2>1. c.pc = "dis_save"
    BY NoCallTyped DEF CallType
  <2>2. Await(s, c) \/ UNCHANGED call
    BY <1>4 DEF Disconnect
  <2>3. call[s].pc \notin FlagPcs /\ UNCHANGED flag
    BY <1>4 DEF Disconnect, At, FlagPcs, database
  <2> HIDE DEF c
  <2>4. QED
    BY <2>1, <2>2, <2>3, Nones, QuietAwait, QuietSame DEF FlagPcs
<1>5. ASSUME NEW s \in Clients, NEW k \in Sockets, NEW to \in BOOLEAN, ChangeSos(s, k, to)
      PROVE  Goal
  <2> DEFINE c == [NoCall EXCEPT !.pc = "sos_flag"]
             u == sock[k].user
             g == sock[k].group
  <2>1. c \in CallType /\ c.pc = "sos_flag"
    BY NoCallTyped DEF CallType, Pcs
  <2>2. u \in Users /\ g \in Groups
    BY <1>5 DEF ChangeSos, Authenticated, Typed, SocksOwned
  <2>3. /\ SetSos(s, u, g, to, c) /\ RequireMember(u, g) /\ UNCHANGED <<groups, flag>>
        /\ call[s].pc \notin FlagPcs
    BY <1>5 DEF ChangeSos, Issue, At, FlagPcs, database
  <2> HIDE DEF c, u, g
  <2>4. SosSegment(s, u, g, to)
    BY <2>1, <2>2, <2>3, Nones, SegmentOf DEF FlagPcs
  <2>5. QED
    BY <2>2, <2>4, Nones
<1>6. ASSUME NEW s \in Sweeps, NEW u \in Users,
             \/ Visit(s, u)
             \/ (SweepAlarmed(s) \/ SweepNoticed(s)) /\ u = call[s].user
      PROVE  Goal
  <2>1. /\ call[s].pc \notin FlagPcs /\ ~At(s, "idle")
        /\ UNCHANGED <<groups, flag>> /\ s \in Slots
    BY <1>6, PassCases, Nones DEF Visit, SweepAlarmed, SweepNoticed, At, FlagPcs, database
  <2>2. ASSUME NEW d, NEW m, Deals(s, u, d, m)
        PROVE  Goal
    <3>1. Await(s, d) /\ d.pc \notin FlagPcs
      BY <2>2 DEF Deals, FlagPcs
    <3>2. QED
      BY <2>1, <3>1, QuietAwait
  <2>3. CASE Alarms(s, u)
    <3> DEFINE c == [call[s] EXCEPT !.pc = "sw_flag"]
               g == call[s].group
    <3>1. c \in CallType /\ c.pc = "sw_flag" /\ g \in Groups
      BY <2>1, SweepingSlot, SweepingPcs DEF Typed, CallType
    <3>2. SetSos(s, u, g, TRUE, c) /\ RequireMember(u, g)
      BY <2>3 DEF Alarms
    <3> HIDE DEF c, g
    <3>3. SosSegment(s, u, g, TRUE)
      BY <2>1, <3>1, <3>2, SegmentOf DEF FlagPcs
    <3>4. QED
      BY <2>1, <3>1, <3>3
  <2>4. QED
    BY <1>6, <2>2, <2>3, PassCases
<1>7. ASSUME NEW s \in Sweeps, SweepAlarmed(s) \/ SweepNoticed(s)
      PROVE  Goal
  <2>1. call[s].user \in Users
    BY <1>7, SweepingSlot DEF SweepAlarmed, SweepNoticed, At, Typed
  <2>2. QED
    BY <1>6, <1>7, <2>1
<1>8. ASSUME NEW s \in Sweeps, SnapshotMember(s) \/ \E g \in Groups : StartPass(s, g)
      PROVE  Goal
  <2>1. call[s] \in CallType
    BY Nones, StateTyped DEF Typed
  <2>2. /\ \A u : Visited(call[s], u).pc = "sw_visit"
        /\ \A g, map : Entering(NoCall, g, map).pc = "sw_visit"
    BY <2>1, NoCallTyped DEF Visited, Entering, CallType
  <2>3. call[s].pc \notin FlagPcs /\ UNCHANGED flag
    BY <1>8 DEF SnapshotMember, StartPass, At, FlagPcs, database
  <2>4. PICK c : Await(s, c) /\ c.pc = "sw_visit"
    BY <1>8, <2>2 DEF SnapshotMember, StartPass
  <2>5. QED
    BY <2>3, <2>4, Nones, QuietAwait DEF FlagPcs
<1>9. ASSUME NEW s \in Slots, Fail(s), call[s].pc \notin FlagPcs
      PROVE  Goal
  <2>1. \A u : Visited(call[s], u).pc = "sw_visit"
    BY StateTyped DEF Visited, Typed, CallType
  <2>2. PICK c : Await(s, c) /\ c.pc \notin FlagPcs
    BY <1>1, <1>9, <2>1 DEF Fail, FlagPcs
  <2>3. QED
    BY <1>9, <2>2, QuietAwait DEF Fail, database
<1>10. ASSUME NEW s \in Sweeps, EndGroup(s)
       PROVE  Goal
  <2>1. \A t \in Slots \ {s} : SavesKept(call[t], call'[t])
    BY <1>10, EndCalls DEF SameHandler, SavesKept
  <2>2. SavesKept(call[s], call'[s]) /\ UNCHANGED flag
    BY <1>10, EndCalls DEF EndGroup, At, NextGroup, SavesKept, FlagPcs, database
  <2>3. QED
    BY <2>1, <2>2 DEF Quiet
<1>11. ASSUME NEW u \in Users, NEW g \in Groups,
              UpdateLocation(u, g) \/ LeaveGroup(u, g) \/ AddUserToGroup(u, g)
       PROVE  Goal
  BY <1>11, QuietSame DEF UpdateLocation, LeaveGroup, AddUserToGroup, database
<1> HIDE DEF Goal
<1>12. CASE \E s \in Clients :
              \/ \E v \in Users, h \in Groups, loc \in BOOLEAN : Connect(s, v, h, loc)
              \/ \E j \in Sockets, to \in BOOLEAN : ChangeSos(s, j, to)
              \/ \E j \in Sockets : Disconnect(s, j)
              \/ AttachMember(s) \/ StartBuilding(s) \/ ReadGroup(s)
              \/ BuildGroupSession(s) \/ Reject(s) \/ PersistLastLocation(s)
  BY <1>2, <1>3, <1>4, <1>5, <1>12 DEF Goal
<1>13. QED
  BY <1>6, <1>7, <1>8, <1>9, <1>10, <1>11, <1>12 DEF Step, Goal

\* What changes an SOS is not quiet.
LEMMA SosNotQuiet ==
  ASSUME Typed, Quiet, NEW u, NEW g, NEW to, SosStep(u, g, to)
  PROVE  FALSE
<1>1. ASSUME NEW s \in Slots, NEW v, NEW h, NEW c \in CallType, c.pc \in FlagPcs,
             SetSos(s, v, h, to, c), call[s].pc \notin FlagPcs
      PROVE  FALSE
  <2> DEFINE d == [c EXCEPT !.user = v, !.to = to]
  <2>1. d.pc = c.pc
    BY DEF CallType
  <2>2. Await(s, d)
    BY <1>1 DEF SetSos
  <2> HIDE DEF d
  <2>3. QED
    BY <1>1, <2>1, <2>2 DEF Quiet, SavesKept, Await, Typed, TypeOK
<1>2. ASSUME NEW s \in Clients, NEW k \in Sockets, ChangeSos(s, k, to)
      PROVE  FALSE
  <2> DEFINE c == [NoCall EXCEPT !.pc = "sos_flag"]
  <2>1. c \in CallType /\ c.pc = "sos_flag"
    BY NoCallTyped DEF CallType, Pcs
  <2>2. PICK v, h : SetSos(s, v, h, to, c)
    BY <1>2 DEF ChangeSos
  <2>3. call[s].pc \notin FlagPcs
    BY <1>2 DEF ChangeSos, Issue, At, FlagPcs
  <2> HIDE DEF c
  <2>4. QED
    BY <1>1, <2>1, <2>2, <2>3, Nones DEF FlagPcs
<1>3. ASSUME NEW s \in Sweeps, Alarms(s, u), call[s].pc \notin FlagPcs, to = TRUE
      PROVE  FALSE
  <2> DEFINE c == [call[s] EXCEPT !.pc = "sw_flag"]
  <2>1. c \in CallType /\ c.pc = "sw_flag"
    BY StateTyped, SweepingPcs, Nones DEF Typed, CallType
  <2>2. SetSos(s, u, call[s].group, to, c)
    BY <1>3 DEF Alarms
  <2> HIDE DEF c
  <2>3. QED
    BY <1>1, <1>3, <2>1, <2>2, Nones DEF FlagPcs
<1>4. QED
  BY <1>2, <1>3 DEF SosStep

\* A session leaves hist.apart only as its record is made, or goes.
LEMMA ApartKept ==
  ASSUME Typed, Mapped, Step, Quiet, NEW u \in Users, NEW g \in Groups, <<u, g>> \in hist.apart
  PROVE  \/ <<u, g>> \in hist'.apart
         \/ \E s \in Clients :
              AttachMember(s) /\ u = call[s].user /\ g = call[s].group /\ ~Member(u, g).in
         \/ \E s \in Clients : BuildGroupSession(s) /\ g = call[s].group
         \/ ~Member(u, g)'.in
<1> DEFINE Goal == <<u, g>> \in hist'.apart
<1>1. ASSUME NEW X, NEW Y, NEW Z,
             \/ hist' = hist \/ hist' = [hist EXCEPT !.lost = X]
             \/ hist' = [hist EXCEPT !.unsaved = X]
             \/ hist' = [hist EXCEPT !.apart = @ \cup Y, !.unsaved = Z]
      PROVE  Goal
  BY <1>1, StateTyped DEF Typed, HistType
<1>2. ASSUME NEW s \in Clients, AttachMember(s)
      PROVE  \/ Goal
             \/ u = call[s].user /\ g = call[s].group /\ ~Member(u, g).in
  <2> DEFINE v == call[s].user
             h == call[s].group
  <2>1. groups[h] # None
    BY <1>2 DEF AttachMember
  <2>2. Rec(v, h) = Member(v, h)
    BY <2>1 DEF Rec, Member
  <2>3. PICK X : hist' = [hist EXCEPT !.lost = X,
                            !.apart = IF Rec(v, h).in THEN @ ELSE Compared(v, h, FALSE)]
    BY <1>2 DEF AttachMember
  <2>4. hist'.apart = IF Member(v, h).in THEN hist.apart ELSE Compared(v, h, FALSE)
    BY <2>2, <2>3, StateTyped DEF Typed, HistType
  <2>5. ~(u = v /\ g = h) => <<u, g>> \in Compared(v, h, FALSE)
    BY DEF Compared
  <2>6. QED
    BY <2>4, <2>5
<1>3. ASSUME NEW s \in Clients, BuildGroupSession(s)
      PROVE  Goal \/ g = call[s].group
  <2> DEFINE h == call[s].group
             differ == {v \in Users : call[s].sos[v] # flag[v] \/ Saving(v)}
             A == (hist.apart \ (Users \X {h})) \cup (differ \X {h})
  <2>1. PICK X, Z : hist' = [hist EXCEPT !.lost = X, !.apart = A, !.unsaved = Z]
    BY <1>3 DEF BuildGroupSession
  <2>2. g # h => <<u, g>> \in A
    OBVIOUS
  <2> HIDE DEF A
  <2>3. hist'.apart = A
    BY <2>1, StateTyped DEF Typed, HistType
  <2>4. QED
    BY <2>2, <2>3
<1>4. ASSUME NEW s \in Sweeps, EndGroup(s)
      PROVE  Goal \/ ~Member(u, g)'.in
  <2>1. CASE ~AllOffline(s)
    BY <1>1, <1>4, <2>1 DEF EndGroup, AllOffline
  <2>2. CASE AllOffline(s) /\ g = call[s].group
    BY <1>4, <2>2, EndBecomes DEF Absent
  <2>3. CASE AllOffline(s) /\ g # call[s].group
    <3> DEFINE A == hist.apart \ (Users \X {call[s].group})
    <3>1. hist'.apart = A
      BY <1>4, <2>3 DEF EndGroup, AllOffline
    <3>2. <<u, g>> \in A
      BY <2>3
    <3>3. QED
      BY <3>1, <3>2
  <2>4. QED
    BY <2>1, <2>2, <2>3
<1>5. ASSUME Crash
      PROVE  ~Member(u, g)'.in
  BY <1>5, CrashBecomes DEF Absent
<1>6. ASSUME NEW s \in Clients, NEW k \in Sockets, NEW to \in BOOLEAN, ChangeSos(s, k, to)
      PROVE  FALSE
  BY <1>6, SosNotQuiet DEF SosStep
<1>7. ASSUME NEW s \in Sweeps, NEW v \in Users,
             \/ Visit(s, v)
             \/ (SweepAlarmed(s) \/ SweepNoticed(s)) /\ v = call[s].user
      PROVE  Goal
  <2>1. CASE Alarms(s, v)
    <3>1. SosStep(v, call[s].group, TRUE)
      BY <1>7, <2>1 DEF SosStep, Visit, SweepAlarmed, SweepNoticed, At, FlagPcs
    <3>2. QED
      BY <3>1, SosNotQuiet
  <2>2. ASSUME NEW d, NEW m, Deals(s, v, d, m)
        PROVE  Goal
    <3>1. PICK X : hist' = hist \/ hist' = [hist EXCEPT !.lost = X]
      BY <2>2 DEF Deals
    <3>2. QED
      BY <1>1, <3>1
  <2>3. QED
    BY <1>7, <2>1, <2>2, PassCases
<1>8. ASSUME NEW s \in Sweeps, SweepAlarmed(s) \/ SweepNoticed(s)
      PROVE  Goal
  <2>1. call[s].user \in Users
    BY <1>8, SweepingSlot DEF SweepAlarmed, SweepNoticed, At, Typed
  <2>2. QED
    BY <1>7, <1>8, <2>1
<1>9. ASSUME NEW s \in Slots, Fail(s)
       PROVE  Goal
  <2>1. PICK Y, Z : hist' = [hist EXCEPT !.apart = @ \cup Y, !.unsaved = Z]
    BY <1>9 DEF Fail
  <2>2. QED
    BY <1>1, <2>1
<1>10. ASSUME \/ \E s \in Clients :
                   \/ \E v \in Users, h \in Groups, loc \in BOOLEAN : Connect(s, v, h, loc)
                   \/ StartBuilding(s) \/ ReadGroup(s) \/ Reject(s)
              \/ \E v \in Users, h \in Groups : UpdateLocation(v, h) \/ LeaveGroup(v, h)
              \/ \E s \in Slots : SaveFlag(s)
              \/ \E s \in Sweeps, h \in Groups : StartPass(s, h)
       PROVE  Goal
  <2>1. hist' = hist
    BY <1>10 DEF Connect, StartBuilding, ReadGroup, Reject, UpdateLocation, LeaveGroup, SaveFlag,
       StartPass
  <2>2. QED
    BY <1>1, <2>1
<1>11. ASSUME \/ \E s \in Clients : PersistLastLocation(s) \/ \E k \in Sockets : Disconnect(s, k)
              \/ \E s \in Sweeps : SnapshotMember(s)
              \/ \E v \in Users, h \in Groups : AddUserToGroup(v, h)
       PROVE  Goal
  <2>1. PICK X : \/ hist' = hist \/ hist' = [hist EXCEPT !.lost = X]
                 \/ hist' = [hist EXCEPT !.unsaved = X]
    BY <1>11 DEF PersistLastLocation, SnapshotMember, SavedAt, AddUserToGroup, Disconnect
  <2>2. QED
    BY <1>1, <2>1
<1> HIDE DEF Goal
<1>12. CASE \E s \in Clients :
              \/ \E v \in Users, h \in Groups, loc \in BOOLEAN : Connect(s, v, h, loc)
              \/ \E j \in Sockets, to \in BOOLEAN : ChangeSos(s, j, to)
              \/ \E j \in Sockets : Disconnect(s, j)
              \/ AttachMember(s) \/ StartBuilding(s) \/ ReadGroup(s)
              \/ BuildGroupSession(s) \/ Reject(s) \/ PersistLastLocation(s)
  BY <1>2, <1>3, <1>6, <1>10, <1>11, <1>12 DEF Goal
<1>13. QED
  BY <1>4, <1>5, <1>7, <1>8, <1>9, <1>10, <1>11, <1>12 DEF Step, Goal

\* The value b of u's SOS agrees with the flag, and with all who will save it.
Agrees(u, b) ==
  /\ Saving(u) \/ b = flag[u]
  /\ \A t \in Slots : SavesFlag(call[t], u) => call[t].to = b

SosInv ==
  /\ Typed /\ Mapped
  /\ \A u \in Users, g \in Groups : Member(u, g).in /\ <<u, g>> \notin hist.apart
       => Agrees(u, Member(u, g).sos)

LEMMA SavingMeans == \A u : Saving(u) <=> \E s \in Slots : SavesFlag(call[s], u)
BY DEF Saving, SavesFlag, FlagPcs

LEMMA SosMeans == SosInv => SosOfSessions
<1> SUFFICES ASSUME SosInv, NEW u \in Users, NEW g \in Groups,
                    RequireMember(u, g), ~Saving(u), <<u, g>> \notin hist.apart
             PROVE  Rec(u, g).sos = flag[u]
  BY DEF SosOfSessions
<1>1. Member(u, g).in /\ Rec(u, g) = Member(u, g)
  BY LiveIsMember DEF SosInv
<1>2. QED
  BY <1>1 DEF SosInv, Agrees

LEMMA QuietAgrees ==
  ASSUME Quiet, NEW u \in Users, NEW b, Agrees(u, b)
  PROVE  Agrees(u, b)'
<1>1. \A t \in Slots : /\ SavesFlag(call'[t], u) <=> SavesFlag(call[t], u)
                       /\ SavesFlag(call[t], u) => call'[t].to = call[t].to
  BY DEF Quiet, SavesKept, SavesFlag
<1>2. Saving(u)' <=> Saving(u)
  BY <1>1 DEF Saving, SavesFlag, FlagPcs
<1>3. QED
  BY <1>1, <1>2 DEF Agrees, Quiet

LEMMA SosQuiet ==
  ASSUME SosInv, Step, Quiet, NEW u \in Users, NEW g \in Groups,
         Member(u, g)'.in, <<u, g>> \notin hist'.apart, NEW b, b = Member(u, g)'.sos
  PROVE  Agrees(u, b)'
<1> USE DEF SosInv
<1> DEFINE m == Member(u, g)
           n == Member(u, g)'
<1>1. b = flag[u] /\ ~Saving(u) => Agrees(u, b)
  BY SavingMeans DEF Agrees
<1>2. ASSUME NEW s \in Clients, BuildGroupSession(s), g = call[s].group
      PROVE  n.sos = flag[u] /\ ~Saving(u)
  <2> DEFINE differ == {v \in Users : call[s].sos[v] # flag[v] \/ Saving(v)}
             A == (hist.apart \ (Users \X {g})) \cup (differ \X {g})
  <2>1. PICK X, Z : hist' = [hist EXCEPT !.lost = X, !.apart = A, !.unsaved = Z]
    BY <1>2 DEF BuildGroupSession
  <2>2. <<u, g>> \notin A
    <3> HIDE DEF A
    <3>1. QED
      BY <2>1, StateTyped DEF Typed, HistType
  <2>3. u \notin differ
    BY <2>2
  <2>4. n = Restored(call[s], u)
    BY <1>2, Nones, BuildBecomes
  <2>5. Restored(call[s], u).in => Restored(call[s], u).sos = call[s].sos[u]
    BY DEF Restored, Absent
  <2>6. QED
    BY <2>3, <2>4, <2>5
<1>3. ASSUME NEW s \in Clients, AttachMember(s), u = call[s].user, g = call[s].group, ~m.in
      PROVE  n.sos = flag[u] /\ ~Saving(u)
  <2>1. n = Newcomer(call[s].sock, call[s].loc)
    BY <1>3, Nones, AttachBecomes DEF Becomes
  <2>2. Rec(u, g) = m
    BY <1>3 DEF AttachMember, Rec, Member
  <2>3. PICK X : hist' = [hist EXCEPT !.lost = X, !.apart = Compared(u, g, FALSE)]
    BY <1>3, <2>2 DEF AttachMember
  <2>4. <<u, g>> \notin Compared(u, g, FALSE)
    BY <2>3, StateTyped DEF Typed, HistType
  <2>5. FALSE = flag[u] /\ ~Saving(u)
    BY <2>4 DEF Compared
  <2>6. QED
    BY <2>1, <2>5 DEF Newcomer, Absent
<1>4. CASE n.sos = flag[u] /\ ~Saving(u)
  BY <1>1, <1>4, QuietAgrees
<1>5. ASSUME ~\E s \in Clients : BuildGroupSession(s) /\ g = call[s].group,
             ~\E s \in Clients :
                AttachMember(s) /\ u = call[s].user /\ g = call[s].group /\ ~m.in
      PROVE  m.in /\ n.sos = m.sos
  <2>1. ASSUME NEW s, NEW d, Deals(s, u, d, n)
        PROVE  n.in = heap[call[s].obj][u].in /\ n.sos = heap[call[s].obj][u].sos
    BY <2>1 DEF Deals
  <2>2. ASSUME NEW to, SosStep(u, g, to), Member(u, g).in
        PROVE  FALSE
    BY <2>2, SosNotQuiet
  <2>3. m.sos \in BOOLEAN
    BY LiveIsMember DEF MemberType
  <2>4. ~Absent.in
    BY DEF Absent
  <2>5. ASSUME NEW s \in Clients, AttachMember(s), u = call[s].user, g = call[s].group,
               n.in, n.sos = (m.in /\ m.sos)
        PROVE  m.in /\ n.sos = m.sos
    BY <1>5, <2>3, <2>5
  <2>6. RecordStep(u, g, m, n)
    BY RecordSteps
  <2>7. CASE \E s \in Clients :
       /\ AttachMember(s) /\ u = call[s].user /\ g = call[s].group
       /\ n.in /\ n.sock = call[s].sock /\ ~n.offline /\ n.sos = (m.in /\ m.sos)
     BY <2>5, <2>7
  <2>8. CASE \E to \in BOOLEAN :
       /\ SosStep(u, g, to)
       /\ n.in = m.in /\ n.sock = m.sock /\ n.sos = to /\ n.offline = m.offline
     BY <2>2, <2>8
  <2>9. CASE \E s \in Sweeps :
       /\ ~At(s, "idle") /\ g = call[s].group /\ m = heap[call[s].obj][u]
       /\ \E d : Deals(s, u, d, n)
     BY <2>1, <2>9
  <2>10. CASE n = Absent
     BY <2>4, <2>10
  <2>11. CASE n = m
     BY <2>11
  <2>12. CASE n.in = m.in /\ n.sos = m.sos
     BY <2>12
  <2>13. QED
    BY <1>5, <2>6, <2>7, <2>8, <2>9, <2>10, <2>11, <2>12 DEF RecordStep
<1>6. CASE m.in /\ n.sos = m.sos /\ <<u, g>> \notin hist.apart
  BY <1>6, QuietAgrees
<1>7. QED
  BY <1>2, <1>3, <1>4, <1>5, <1>6, ApartKept

\* The first segment of startSos or endSos: u's other sessions may differ.
LEMMA SosSegmentAgrees ==
  ASSUME SosInv, NEW s \in Slots, NEW v \in Users, NEW h \in Groups, NEW to \in BOOLEAN,
         SosSegment(s, v, h, to), NEW u \in Users, NEW g \in Groups,
         Member(u, g)'.in, <<u, g>> \notin hist'.apart, NEW b, b = Member(u, g)'.sos
  PROVE  Agrees(u, b)'
<1> USE DEF SosInv
<1>1. PICK c : SetSos(s, v, h, to, c)
  BY DEF SosSegment
<1>2. Becomes(v, h, [Member(v, h) EXCEPT !.sos = to])
  BY <1>1, SosBecomes DEF SosSegment
<1>3. hist'.apart = (hist.apart \ {<<v, h>>}) \cup
        {<<v, x>> : x \in {x \in Groups : /\ RequireMember(v, x)
                                          /\ Saving(v) \/ (x # h /\ Rec(v, x).sos # to)}}
  BY <1>1, StateTyped DEF SetSos, Typed, HistType
<1>4. /\ SavesFlag(call'[s], v) /\ call'[s].to = to /\ ~SavesFlag(call[s], u)
      /\ \A t \in Slots \ {s} : call'[t] = call[t]
      /\ UNCHANGED flag
  BY DEF SosSegment, SavesFlag
<1>5. CASE u # v
  <2>1. Member(u, g)' = Member(u, g)
    BY <1>2, <1>5 DEF Becomes
  <2>2. <<u, g>> \notin hist.apart
    BY <1>3, <1>5
  <2>3. Agrees(u, b)
    BY <2>1, <2>2
  <2>4. \A t \in Slots : SavesFlag(call'[t], u) <=> SavesFlag(call[t], u)
    BY <1>4, <1>5 DEF SavesFlag
  <2>5. Saving(u)' <=> Saving(u)
    BY <2>4 DEF Saving, SavesFlag, FlagPcs
  <2>6. QED
    BY <1>4, <2>3, <2>4, <2>5 DEF Agrees
<1>6. CASE u = v
  <2>1. Saving(u)'
    BY <1>4, <1>6 DEF Saving, SavesFlag, FlagPcs
  <2>2. RequireMember(u, g) /\ Rec(u, g) = Member(u, g) /\ Member(u, g) \in MemberType
    <3>1. Member(u, g).in
      <4>1. CASE g = h
        BY <1>6, <4>1, LiveIsMember DEF SosSegment
      <4>2. CASE g # h
        BY <1>2, <4>2 DEF Becomes
      <4>3. QED
        BY <4>1, <4>2
    <3>2. QED
      BY <3>1, LiveIsMember
  <2>3. ~(Saving(u) \/ (g # h /\ Member(u, g).sos # to))
    <3> DEFINE X == {x \in Groups : /\ RequireMember(v, x)
                                    /\ Saving(v) \/ (x # h /\ Rec(v, x).sos # to)}
    <3>1. g \notin X
      BY <1>3, <1>6
    <3>2. QED
      BY <1>6, <2>2, <3>1
  <2>4. b = to
    <3>1. CASE g = h
      <4>1. Member(u, g)' = [Member(u, g) EXCEPT !.sos = to]
        BY <1>2, <1>6, <3>1 DEF Becomes
      <4>2. QED
        BY <2>2, <4>1 DEF MemberType
    <3>2. CASE g # h
      BY <1>2, <2>3, <3>2 DEF Becomes
    <3>3. QED
      BY <3>1, <3>2
  <2>5. \A t \in Slots \ {s} : ~SavesFlag(call[t], u)
    BY <2>3, SavingMeans
  <2>6. QED
    BY <1>4, <2>1, <2>4, <2>5 DEF Agrees
<1>7. QED
  BY <1>5, <1>6

\* The flag is saved: all who agreed had it so.
LEMMA SaveFlagAgrees ==
  ASSUME SosInv, NEW s \in Slots, SaveFlag(s), NEW u \in Users, NEW g \in Groups,
         Member(u, g)'.in, <<u, g>> \notin hist'.apart, NEW b, b = Member(u, g)'.sos
  PROVE  Agrees(u, b)'
<1> USE DEF SosInv
<1>1. /\ UNCHANGED memory /\ UNCHANGED hist /\ call[s].pc \in FlagPcs
      /\ flag' = [flag EXCEPT ![call[s].user] = call[s].to]
  BY DEF SaveFlag, At, FlagPcs
<1>2. Agrees(u, b)
  BY <1>1 DEF memory, Member
<1>3. ~SavesFlag(call'[s], u) /\ \A t \in Slots \ {s} : call'[t] = call[t]
  <2> DEFINE c == [call[s] EXCEPT !.pc = "sw_alarmed"]
  <2>1. c.pc = "sw_alarmed"
    BY StateTyped DEF Typed, CallType
  <2>2. Await(s, NoCall) \/ Await(s, c)
    BY DEF SaveFlag, Return
  <2> HIDE DEF c
  <2>3. NoCall.pc \notin FlagPcs /\ c.pc \notin FlagPcs
    BY <2>1 DEF NoCall, FlagPcs
  <2>4. QED
    BY <2>2, <2>3 DEF Await, Typed, TypeOK, SavesFlag
<1>4. CASE u = call[s].user
  <2>1. flag'[u] = call[s].to
    BY <1>1, <1>4 DEF Typed, TypeOK
  <2>2. call[s].to = b
    BY <1>1, <1>2, <1>4 DEF Agrees, SavesFlag
  <2>3. QED
    BY <1>2, <1>3, <2>1, <2>2 DEF Agrees
<1>5. CASE u # call[s].user
  <2>1. flag'[u] = flag[u]
    BY <1>1, <1>5 DEF Typed, TypeOK
  <2>2. \A t \in Slots : SavesFlag(call'[t], u) <=> SavesFlag(call[t], u)
    BY <1>3, <1>5 DEF SavesFlag
  <2>3. Saving(u)' <=> Saving(u)
    BY <2>2 DEF Saving, SavesFlag, FlagPcs
  <2>4. QED
    BY <1>2, <1>3, <2>1, <2>2, <2>3 DEF Agrees
<1>6. QED
  BY <1>4, <1>5

\* Saving the flag fails: none of the user's sessions is sure to agree.
LEMMA FailAgrees ==
  ASSUME SosInv, NEW s \in Slots, Fail(s), call[s].pc \in FlagPcs,
         NEW u \in Users, NEW g \in Groups,
         Member(u, g)'.in, <<u, g>> \notin hist'.apart, NEW b, b = Member(u, g)'.sos
  PROVE  Agrees(u, b)'
<1> USE DEF SosInv
<1>1. UNCHANGED <<memory, flag>>
  BY DEF Fail, database
<1>2. Member(u, g)' = Member(u, g)
  BY <1>1 DEF memory, Member
<1>3. hist'.apart = hist.apart \cup (({call[s].user} \X Groups) \cap Held)
  <2> DEFINE P == ({call[s].user} \X Groups) \cap Held
  <2>1. PICK Z : hist' = [hist EXCEPT !.apart = @ \cup P, !.unsaved = Z]
    BY DEF Fail, FlagPcs
  <2> HIDE DEF P
  <2>2. hist'.apart = hist.apart \cup P
    BY <2>1, StateTyped DEF Typed, HistType
  <2>3. QED
    BY <2>2 DEF P
<1>4. <<u, g>> \notin hist.apart
  BY <1>3
<1>5. u # call[s].user
  <2> DEFINE p == <<u, g>>
  <2>1. p \in Held
    BY <1>2, PairsOf, LiveIsMember DEF Held
  <2>2. QED
    BY <1>3, <2>1
<1>6. Agrees(u, b)
  BY <1>2, <1>4
<1>7. ~SavesFlag(call'[s], u) /\ \A t \in Slots \ {s} : call'[t] = call[t]
  <2>1. \A x : Visited(call[s], x).pc = "sw_visit"
    BY StateTyped DEF Visited, Typed, CallType
  <2>2. NoCall.pc = "idle"
    BY DEF NoCall
  <2>3. PICK c : Await(s, c) /\ c.pc \notin FlagPcs
    BY <2>1, <2>2 DEF Fail, FlagPcs
  <2>4. QED
    BY <2>3 DEF Await, Typed, TypeOK, SavesFlag
<1>8. \A t \in Slots : SavesFlag(call'[t], u) <=> SavesFlag(call[t], u)
  BY <1>5, <1>7 DEF SavesFlag
<1>9. Saving(u)' <=> Saving(u)
  BY <1>8 DEF Saving, SavesFlag, FlagPcs
<1>10. QED
  BY <1>1, <1>6, <1>7, <1>8, <1>9 DEF Agrees

LEMMA InitSos == Init => SosInv
BY InitTyped, InitMapped DEF Init, SosInv, Member, Absent

LEMMA NextSos == SosInv /\ [Next]_vars => SosInv'
<1> SUFFICES ASSUME SosInv, [Next]_vars PROVE SosInv'
  OBVIOUS
<1>1. Typed' /\ Mapped'
  BY NextTyped, MappedNext DEF SosInv
<1>2. SUFFICES ASSUME NEW u \in Users, NEW g \in Groups,
                      Member(u, g)'.in, <<u, g>> \notin hist'.apart,
                      NEW b, b = Member(u, g)'.sos
               PROVE  Agrees(u, b)'
  BY <1>1 DEF SosInv, Agrees, SavesFlag, Saving
<1>3. CASE UNCHANGED vars
  <2>1. Agrees(u, b)
    BY <1>2, <1>3 DEF vars, memory, Member, SosInv
  <2>2. QED
    BY <1>3, <2>1 DEF vars, memory, database, Agrees, Saving, SavesFlag
<1>4. CASE Next
  <2>1. Typed /\ Mapped /\ Step
    BY <1>4 DEF Next, SosInv
  <2>2. ASSUME Crash
        PROVE  FALSE
    BY <1>2, <2>2, CrashBecomes DEF Absent
  <2>3. QED
    BY <1>2, <2>1, <2>2, FlagSteps, SosQuiet, SosSegmentAgrees, SaveFlagAgrees, FailAgrees
<1>5. QED
  BY <1>3, <1>4

\* User.sos agrees with every live session that hist.apart has not taken; so
\* does the value that any handler is still to save.
THEOREM FlagOfSessions == Spec => []SosOfSessions
BY SosMeans, InitSos, NextSos, PTL DEF Spec

=============================================================================
