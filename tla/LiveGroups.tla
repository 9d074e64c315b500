----------------------------- MODULE LiveGroups -----------------------------
(***************************************************************************)
(* LiveSessionService.groups, the map of live sessions                     *)
(* (src/realtime/services/live-session.service.ts), over several users and *)
(* groups: which socket a member's record names, who builds, joins and     *)
(* drops a session, and the one SOS flag that a user's groups share.  Trips,*)
(* paths and what the members are told are in LiveMember, which is the     *)
(* view of one user in one group.                                          *)
(*                                                                         *)
(* As there, a slot of `call` holds a handler suspended at an await.  What *)
(* a handler awaits and nothing here depends on is not a step; a write that *)
(* ends a handler is one step with its end.                                *)
(*                                                                         *)
(* `hist` and `left` are history variables: no guard reads them.           *)
(***************************************************************************)
EXTENDS Integers, FiniteSets

CONSTANTS
  Users, Groups,
  Sockets,    \* tracking sockets, each used for one connection
  Objs,       \* identities of LiveGroup objects
  Clients,    \* slots for handlers started by sockets
  Sweeps,     \* slots for passes of the @Interval sweep, which may overlap
  Memberships,\* the <<user, group>> pairs that may have GroupMember rows at first
  None,       \* the code's null
  MaxEvents   \* bound: client operations, overdue trips, overlapping passes,
              \* awaited operations that throw and restarts, all together

Slots == Clients \cup Sweeps
Pairs == Users \X Groups

ASSUME LiveSlots == Clients \cap Sweeps = {}
ASSUME LiveNone == None \notin Users \cup Groups \cup Sockets \cup Objs
ASSUME LiveMembers == Memberships \subseteq SUBSET Pairs
ASSUME LiveUsers == IsFiniteSet(Users)
ASSUME LiveBound == MaxEvents \in Nat

VARIABLES
  groups,  \* Groups -> the object the map holds, or None
  heap,    \* Objs -> Users -> the user's record in that object
  rows,    \* Groups -> Users -> the GroupMember row: is there one, has it a location
  flag,    \* Users -> User.sos
  sock,    \* Sockets -> whose, for which group, open or not, client.data set or not
  call,    \* Slots -> suspended handler
  used,    \* how much of the bound is spent
  hist,    \* history: sockets no longer tracked, flags that differ, places not saved
  left     \* history: who left a group while its live session held them

memory == <<groups, heap>>
database == <<rows, flag>>
vars == <<groups, heap, rows, flag, sock, call, used, hist, left>>

-----------------------------------------------------------------------------
(* State *)

Maybe(S) == S \cup {None}

\* `in` says that the members array holds the user; `loc` that the record, or
\* the row, has a location.
MemberType ==
  [in : BOOLEAN, sock : Maybe(Sockets), loc : BOOLEAN, sos : BOOLEAN,
   offline : BOOLEAN, inactive : BOOLEAN]
Absent ==
  [in |-> FALSE, sock |-> None, loc |-> FALSE, sos |-> FALSE,
   offline |-> FALSE, inactive |-> FALSE]
NoSession == [u \in Users |-> Absent]

RowType == [in : BOOLEAN, loc : BOOLEAN]
NoRow == [in |-> FALSE, loc |-> FALSE]

SockType ==
  [st : {"unused", "open", "closed"}, user : Maybe(Users), group : Maybe(Groups),
   data : BOOLEAN]
Unused == [st |-> "unused", user |-> None, group |-> None, data |-> FALSE]

ConnectPcs == {"con_member", "con_group", "con_build"}
SweepPcs == {"sw_visit", "sw_flag", "sw_alarmed", "sw_notice", "sw_save"}
Pcs == {"idle", "dis_save", "sos_flag"} \cup ConnectPcs \cup SweepPcs

\* `ok` and `loc` are the membership check and the handshake location of a
\* connection, `seen` and `sos` the rows its builder has read, `to` the flag
\* to save, `done` the members a pass has visited and `past` the groups.
CallType ==
  [pc : Pcs, sock : Maybe(Sockets), user : Maybe(Users), group : Maybe(Groups),
   obj : Maybe(Objs), ok : BOOLEAN, loc : BOOLEAN, seen : [Users -> RowType],
   sos : [Users -> BOOLEAN], to : BOOLEAN, done : SUBSET Users,
   past : SUBSET Groups]
NoCall ==
  [pc |-> "idle", sock |-> None, user |-> None, group |-> None, obj |-> None,
   ok |-> FALSE, loc |-> FALSE, seen |-> [u \in Users |-> NoRow],
   sos |-> [u \in Users |-> FALSE], to |-> FALSE, done |-> {}, past |-> {}]

Gone == [Unused EXCEPT !.st = "closed"]

Blank == [lost |-> {}, apart |-> {}, unsaved |-> {}]

\* A process that ran before may have left locations saved, and an SOS raised by
\* a user without one.
Init ==
  /\ groups = [g \in Groups |-> None]
  /\ heap = [o \in Objs |-> NoSession]
  /\ rows \in [Groups -> [Users -> RowType]]
  /\ \E M \in Memberships : \A u \in Users, g \in Groups :
       /\ rows[g][u].in = (<<u, g>> \in M)
       /\ rows[g][u].loc => rows[g][u].in
  /\ flag \in [Users -> BOOLEAN]
  /\ \A u \in Users : flag[u] => \E g \in Groups : rows[g][u].in /\ ~rows[g][u].loc
  /\ used = Cardinality({u \in Users : flag[u]})
  /\ sock = [k \in Sockets |-> Unused]
  /\ call = [s \in Slots |-> NoCall]
  /\ hist = Blank /\ left = {}

-----------------------------------------------------------------------------
(* Handlers and sessions *)

At(s, pc) == call[s].pc = pc
Await(s, c) == call' = [call EXCEPT ![s] = c]
Return(s) == Await(s, NoCall)

Spend == used < MaxEvents /\ used' = used + 1
Issue(s) == s \in Clients /\ At(s, "idle") /\ Spend

\* requireMember: the map has a session of the group and it holds the user.
RequireMember(u, g) == groups[g] # None /\ heap[groups[g]][u].in
Rec(u, g) == heap[groups[g]][u]

\* client.data is set and the socket is open.
Authenticated(k) == sock[k].st = "open" /\ sock[k].data
SocketsOf(u, g) == {k \in Sockets : sock[k].user = u /\ sock[k].group = g}
Held == {p \in Pairs : RequireMember(p[1], p[2])}
SocketsIn(g) == UNION {SocketsOf(u, g) : u \in Users}

\* Identities mean nothing but what refers to them, so any will do for a new one.
NextSocket == CHOOSE k \in Sockets : sock[k].st = "unused"
Unreferenced ==
  Objs \ ({groups[g] : g \in Groups} \cup {call[s].obj : s \in Sweeps})

\* Some handler is about to save the user's flag.
Saving(u) == \E s \in Slots : call[s].pc \in {"sos_flag", "sw_flag"} /\ call[s].user = u

\* An object that neither the map nor a pass refers to any more is forgotten.
Collected(h, map, passes) ==
  LET refs == {map[g] : g \in Groups} \cup {c.obj : c \in passes}
  IN  [o \in Objs |-> IF o \in refs THEN h[o] ELSE NoSession]
Passes == {call[s] : s \in Sweeps}

-----------------------------------------------------------------------------
(* Connecting *)

\* The membership is read as the handler starts; loc: the handshake has a
\* location.
Connect(s, u, g, loc) ==
  /\ Issue(s) /\ \E k \in Sockets : sock[k].st = "unused"
  /\ sock' = [sock EXCEPT ![NextSocket] =
                [st |-> "open", user |-> u, group |-> g, data |-> FALSE]]
  /\ Await(s, [NoCall EXCEPT !.pc = "con_member", !.sock = NextSocket, !.user = u,
                             !.group = g, !.loc = loc, !.ok = rows[g][u].in])
  /\ UNCHANGED <<memory, database, hist>>

\* The gateway disconnects a socket it refuses; its client.data is not set.
Refused(k) == [sock EXCEPT ![k] = Gone]

\* The end of handleConnection: the socket, if still there, may send from now on.
Admitted(k) == [sock EXCEPT ![k] = [@ EXCEPT !.data = (sock[k].st = "open")]]

\* Mutant: a reconnecting member keeps its offline flag.
AttachedOffline(m, k, loc) == [m EXCEPT !.sock = k, !.inactive = FALSE, !.loc = @ \/ loc]

Attached(m, k, loc) ==
  [m EXCEPT !.sock = k, !.offline = FALSE, !.inactive = FALSE, !.loc = @ \/ loc]

\* Mutant: the pushed record has no offline flag.
NewcomerPartial(k, loc) == [Absent EXCEPT !.in = TRUE, !.sock = k, !.loc = loc, !.offline = None]

Newcomer(k, loc) == [Absent EXCEPT !.in = TRUE, !.sock = k, !.loc = loc]

\* The flag of a record put into the session of g agrees with the row, or not.
Compared(u, g, sos) ==
  IF sos = flag[u] /\ ~Saving(u) THEN hist.apart \ {<<u, g>>}
  ELSE hist.apart \cup {<<u, g>>}

\* Mutant: who is not a member is let in when the session is live.
AdmitAnyone(s) ==
  LET c == call[s]
      k == c.sock  u == c.user  g == c.group
  IN  /\ At(s, "con_member") /\ groups[g] # None
      /\ heap' = [heap EXCEPT ![groups[g]][u] =
                    IF @.in THEN Attached(@, k, c.loc) ELSE Newcomer(k, c.loc)]
      /\ sock' = Admitted(k)
      /\ Return(s)
      /\ UNCHANGED <<groups, database, used, hist>>

\* The map has a session: join it, at once.  A record the session does not
\* have yet is pushed, without looking at the rows.
AttachMember(s) ==
  LET c == call[s]
      k == c.sock  u == c.user  g == c.group
      m == Rec(u, g)
  IN  /\ At(s, "con_member") /\ c.ok /\ groups[g] # None
      /\ heap' = [heap EXCEPT ![groups[g]][u] =
                    IF m.in THEN Attached(m, k, c.loc) ELSE Newcomer(k, c.loc)]
      /\ hist' = [hist EXCEPT !.lost = @ \cup (SocketsOf(u, g) \ {k}),
                              !.apart = IF m.in THEN @ ELSE Compared(u, g, FALSE)]
      /\ sock' = Admitted(k)
      /\ Return(s)
      /\ UNCHANGED <<groups, database, used>>

\* There is none: it is built from the rows, which takes several queries.
StartBuilding(s) ==
  /\ At(s, "con_member") /\ call[s].ok /\ groups[call[s].group] = None
  /\ Await(s, [call[s] EXCEPT !.pc = "con_group"])
  /\ UNCHANGED <<memory, database, sock, used, hist>>

ReadGroup(s) ==
  /\ At(s, "con_group")
  /\ Await(s, [call[s] EXCEPT !.pc = "con_build", !.seen = rows[call[s].group],
                              !.sos = flag])
  /\ UNCHANGED <<memory, database, sock, used, hist>>

\* The record buildGroupSession makes of u's row, for the connection c.
Restored(c, u) ==
  LET self == u = c.user
      loc == c.seen[u].loc \/ (self /\ c.loc)
  IN  IF c.seen[u].in /\ (self \/ loc)
      THEN [in |-> TRUE, sock |-> IF self THEN c.sock ELSE None, loc |-> loc,
            sos |-> c.sos[u], offline |-> ~self, inactive |-> ~self]
      ELSE Absent

\* Whatever the map holds by now is replaced.  Who has left since the check
\* is connected to a session without a record of it.
BuildGroupSession(s) ==
  LET c == call[s]
      g == c.group
      differ == {u \in Users : c.sos[u] # flag[u] \/ Saving(u)}
      unsaved == {u \in Users : c.seen[u].loc /\ ~rows[g][u].loc}
  IN  /\ At(s, "con_build")
      /\ Unreferenced # {}
      /\ LET o == CHOOSE o \in Unreferenced : TRUE
         IN  /\ groups' = [groups EXCEPT ![g] = o]
             /\ heap' = Collected([heap EXCEPT ![o] = [u \in Users |-> Restored(c, u)]],
                                  groups', Passes)
      /\ hist' = [hist EXCEPT
           !.lost = @ \cup (SocketsIn(g) \ (IF c.seen[c.user].in THEN {c.sock} ELSE {})),
           !.apart = (@ \ (Users \X {g})) \cup (differ \X {g}),
           !.unsaved = (@ \ (Users \X {g})) \cup (unsaved \X {g})]
      /\ sock' = Admitted(c.sock)
      /\ Return(s)
      /\ UNCHANGED <<database, used>>

\* Not a member, or 'Group not found' (the last member has left since).
Reject(s) ==
  /\ \/ At(s, "con_member") /\ ~call[s].ok
     \/ At(s, "con_build") /\ \A u \in Users : ~call[s].seen[u].in
  /\ sock' = Refused(call[s].sock)
  /\ Return(s)
  /\ UNCHANGED <<memory, database, used, hist>>

-----------------------------------------------------------------------------
(* Disconnecting, and what clients send *)

\* Nothing here asks whose an authenticated socket was once it has closed.
Closed(k) == [sock EXCEPT ![k] = IF @.data THEN Gone ELSE [@ EXCEPT !.st = "closed"]]

\* Mutant: handleDisconnect leaves a member without a location alone.
CloseLocated(s, k) ==
  LET u == sock[k].user  g == sock[k].group
  IN  /\ s \in Clients /\ At(s, "idle") /\ sock[k].st = "open"
      /\ sock' = Closed(k)
      /\ IF sock[k].data /\ RequireMember(u, g) /\ Rec(u, g).loc
         THEN /\ heap' = [heap EXCEPT ![groups[g]][u].sock = None]
              /\ Await(s, [NoCall EXCEPT !.pc = "dis_save", !.user = u, !.group = g])
         ELSE UNCHANGED <<heap, call>>
      /\ UNCHANGED <<groups, database, used, hist>>

\* The record's socketId is cleared whichever socket it names; a socket that
\* closes before its client.data is set changes nothing.
Disconnect(s, k) ==
  LET u == sock[k].user  g == sock[k].group
  IN  /\ s \in Clients /\ At(s, "idle") /\ sock[k].st = "open"
      /\ sock' = Closed(k)
      /\ IF sock[k].data /\ RequireMember(u, g)
         THEN /\ heap' = [heap EXCEPT ![groups[g]][u].sock = None]
              /\ IF Rec(u, g).loc
                 THEN Await(s, [NoCall EXCEPT !.pc = "dis_save", !.user = u, !.group = g])
                 ELSE UNCHANGED call
              /\ hist' = [hist EXCEPT !.lost = (@ \cup SocketsOf(u, g)) \ {k}]
         ELSE /\ hist' = [hist EXCEPT !.lost = @ \ {k}]
              /\ UNCHANGED <<heap, call>>
      /\ UNCHANGED <<groups, database, used>>

\* updateMany changes the row, if there still is one.
WithPlace(u, g) == [rows EXCEPT ![g][u].loc = rows[g][u].in]

SavedAt(u, g) ==
  IF rows[g][u].in THEN [hist EXCEPT !.unsaved = @ \ {<<u, g>>}] ELSE hist

PersistLastLocation(s) ==
  /\ At(s, "dis_save")
  /\ rows' = WithPlace(call[s].user, call[s].group)
  /\ hist' = SavedAt(call[s].user, call[s].group)
  /\ Return(s)
  /\ UNCHANGED <<memory, flag, sock, used>>

\* From an authenticated socket, or over HTTP with no socket at all.
UpdateLocation(u, g) ==
  /\ Spend /\ RequireMember(u, g)
  /\ heap' = [heap EXCEPT ![groups[g]][u] =
                [@ EXCEPT !.loc = TRUE, !.offline = FALSE, !.inactive = FALSE]]
  /\ UNCHANGED <<groups, database, sock, call, hist>>

\* The first segment of startSos and endSos, on the record in the map: other
\* sessions of the user keep their flag.
SetSos(s, u, g, to, c) ==
  /\ heap' = [heap EXCEPT ![groups[g]][u].sos = to]
  /\ hist' = [hist EXCEPT !.apart =
       (@ \ {<<u, g>>}) \cup
       {<<u, h>> : h \in {h \in Groups : /\ RequireMember(u, h)
                                         /\ Saving(u) \/ (h # g /\ Rec(u, h).sos # to)}}]
  /\ Await(s, [c EXCEPT !.user = u, !.to = to])

ChangeSos(s, k, to) ==
  LET u == sock[k].user  g == sock[k].group
  IN  /\ Issue(s) /\ Authenticated(k) /\ RequireMember(u, g)
      /\ Rec(u, g).sos # to
      /\ SetSos(s, u, g, to, [NoCall EXCEPT !.pc = "sos_flag"])
      /\ UNCHANGED <<groups, database, sock>>

\* Mutant: endSos does not save the flag.
SaveRaisedFlag(s) ==
  /\ \/ At(s, "sos_flag") /\ Return(s)
     \/ At(s, "sw_flag") /\ Await(s, [call[s] EXCEPT !.pc = "sw_alarmed"])
  /\ flag' = [flag EXCEPT ![call[s].user] = @ \/ call[s].to]
  /\ UNCHANGED <<memory, rows, sock, used, hist>>

SaveFlag(s) ==
  /\ \/ At(s, "sos_flag") /\ Return(s)
     \/ At(s, "sw_flag") /\ Await(s, [call[s] EXCEPT !.pc = "sw_alarmed"])
  /\ flag' = [flag EXCEPT ![call[s].user] = call[s].to]
  /\ UNCHANGED <<memory, rows, sock, used, hist>>

\* GroupService: neither touches the live session.
LeaveGroup(u, g) ==
  /\ Spend /\ rows[g][u].in
  /\ rows' = [rows EXCEPT ![g][u] = NoRow]
  /\ UNCHANGED <<memory, flag, sock, call, hist>>

AddUserToGroup(u, g) ==
  /\ Spend /\ ~rows[g][u].in /\ \E v \in Users : rows[g][v].in
  /\ rows' = [rows EXCEPT ![g][u].in = TRUE]
  /\ hist' = [hist EXCEPT !.unsaved = @ \cup ({<<u, g>>} \cap Held)]
  /\ UNCHANGED <<memory, flag, sock, call>>

-----------------------------------------------------------------------------
(* The sweep *)

\* A pass is at group g of the map, in the object found there; the order of
\* the groups and of the members is the map's and the array's, any here.
Entering(c, g, map) == [c EXCEPT !.pc = "sw_visit", !.group = g, !.obj = map[g], !.done = {}]

StartPass(s, g) ==
  /\ s \in Sweeps /\ At(s, "idle") /\ groups[g] # None
  /\ Await(s, Entering(NoCall, g, groups))
  /\ IF \A t \in Sweeps : At(t, "idle") THEN UNCHANGED used ELSE Spend
  /\ UNCHANGED <<memory, database, sock, hist>>

Visited(c, u) == [c EXCEPT !.pc = "sw_visit", !.user = None, !.to = FALSE, !.done = @ \cup {u}]

\* The last lines of processMember.  Ages carry the client's clock, so
\* whether a location is old enough is open.
OfflineCheck(s, c, u) ==
  \/ Await(s, Visited(c, u)) /\ UNCHANGED <<heap, hist>>
  \/ /\ ~heap[c.obj][u].offline
     /\ heap' = [heap EXCEPT ![c.obj][u].offline = TRUE]
     /\ Await(s, [c EXCEPT !.pc = "sw_save", !.user = u, !.to = FALSE])
     /\ hist' = [hist EXCEPT !.lost = @ \cup ({heap[c.obj][u].sock} \ {None})]

\* A disconnected member is reported, and goes offline when silent for longer.
Presence(s, c, u) ==
  LET m == heap[c.obj][u]
  IN  IF ~m.loc \/ m.sock # None
      THEN Await(s, Visited(c, u)) /\ UNCHANGED <<heap, hist>>
      ELSE IF m.inactive THEN OfflineCheck(s, c, u)
      ELSE \/ Await(s, Visited(c, u)) /\ UNCHANGED <<heap, hist>>
           \/ /\ heap' = [heap EXCEPT ![c.obj][u].inactive = TRUE]
              /\ Await(s, [c EXCEPT !.pc = "sw_notice", !.user = u])
              /\ UNCHANGED hist

\* processMember: the trip of the record may be overdue (see LiveMember; the
\* request that started it counts here), and startSos then takes the record of the map, which need not be this one.
Visit(s, u) ==
  LET c == call[s]
      m == heap[c.obj][u]
      g == c.group
  IN  /\ At(s, "sw_visit") /\ m.in /\ u \notin c.done
      /\ \/ Presence(s, c, u) /\ UNCHANGED used
         \/ /\ Spend /\ ~m.sos /\ RequireMember(u, g) /\ ~Rec(u, g).sos
            /\ SetSos(s, u, g, TRUE, [c EXCEPT !.pc = "sw_flag"])
         \/ /\ Spend /\ ~m.sos /\ ~RequireMember(u, g)
            /\ Await(s, Visited(c, u))
            /\ UNCHANGED <<heap, hist>>
      /\ UNCHANGED <<groups, database, sock>>

SweepAlarmed(s) ==
  /\ At(s, "sw_alarmed")
  /\ Presence(s, call[s], call[s].user)
  /\ UNCHANGED <<groups, database, sock, used>>

\* The socket is not looked at again.
SweepNoticed(s) ==
  /\ At(s, "sw_notice")
  /\ OfflineCheck(s, call[s], call[s].user)
  /\ UNCHANGED <<groups, database, sock, used>>

\* Mutant: the snapshot leaves out the location.
SnapshotPath(s) ==
  /\ At(s, "sw_save")
  /\ Await(s, Visited(call[s], call[s].user))
  /\ UNCHANGED <<memory, database, sock, used, hist>>

SnapshotMember(s) ==
  /\ At(s, "sw_save")
  /\ rows' = WithPlace(call[s].user, call[s].group)
  /\ hist' = SavedAt(call[s].user, call[s].group)
  /\ Await(s, Visited(call[s], call[s].user))
  /\ UNCHANGED <<memory, flag, sock, used>>

\* All members of the object are visited.  When they are offline the map
\* loses the session of that group, be it this object or a later one.  A pass
\* meets a group again that has been dropped and built again.
EndGroup(s) ==
  LET c == call[s]
      g == c.group
      gone == \A u \in Users : heap[c.obj][u].in => heap[c.obj][u].offline
      map == IF gone THEN [groups EXCEPT ![g] = None] ELSE groups
      past == IF map[g] = c.obj THEN c.past \cup {g} ELSE c.past
      rest == {h \in Groups : map[h] # None /\ h \notin past}
  IN  /\ At(s, "sw_visit")
      /\ \A u \in Users : heap[c.obj][u].in => u \in c.done
      /\ groups' = map
      /\ call' \in
           LET others == [t \in Slots |->
                 IF gone THEN [call[t] EXCEPT !.past = @ \ {g}] ELSE call[t]]
           IN  IF rest = {} THEN {[others EXCEPT ![s] = NoCall]}
               ELSE {[others EXCEPT ![s] = Entering([NoCall EXCEPT !.past = past], h, map)] :
                     h \in rest}
      /\ heap' = Collected(heap, map, {call'[t] : t \in Sweeps})
      /\ hist' = IF ~gone THEN hist
                 ELSE [lost |-> IF groups[g] = c.obj THEN hist.lost
                                ELSE hist.lost \cup SocketsIn(g),
                       apart |-> hist.apart \ (Users \X {g}),
                       unsaved |-> hist.unsaved \ (Users \X {g})]
      /\ UNCHANGED <<database, sock, used>>

-----------------------------------------------------------------------------
(* Failures and restarts *)

\* The awaited operation throws: a connection is refused, a sweep leaves the
\* member, other handlers end.
Fail(s) ==
  LET c == call[s]
  IN  /\ c.pc \notin {"idle", "sw_visit"}
      /\ Spend
      /\ sock' = IF c.pc \in ConnectPcs THEN Refused(c.sock) ELSE sock
      /\ Await(s, IF s \in Sweeps THEN Visited(c, c.user) ELSE NoCall)
      /\ hist' = [hist EXCEPT
           !.apart = @ \cup (IF c.pc \in {"sos_flag", "sw_flag"}
                             THEN ({c.user} \X Groups) \cap Held ELSE {}),
           !.unsaved = @ \cup (IF c.pc = "sw_save"
                               THEN {<<c.user, c.group>>} \cap Held ELSE {})]
      /\ UNCHANGED <<memory, database>>

\* Only the rows survive.
Crash ==
  /\ Spend
  /\ groups' = [g \in Groups |-> None]
  /\ heap' = [o \in Objs |-> NoSession]
  /\ sock' = [k \in Sockets |-> IF sock[k].st = "unused" THEN Unused ELSE Gone]
  /\ call' = [s \in Slots |-> NoCall]
  /\ hist' = Blank
  /\ UNCHANGED database

-----------------------------------------------------------------------------
(* Specification *)

\* A live session, or a connection on its way into one, holds the user.
Holds(u, g) ==
  \/ RequireMember(u, g)
  \/ \E s \in Clients : LET c == call[s]
                        IN  /\ c.pc \in ConnectPcs /\ c.group = g
                            /\ (c.user = u /\ c.ok) \/ c.seen[u].in

Step ==
  \/ \E s \in Clients, u \in Users, g \in Groups, loc \in BOOLEAN : Connect(s, u, g, loc)
  \/ \E s \in Clients, k \in Sockets, to \in BOOLEAN : ChangeSos(s, k, to)
  \/ \E s \in Clients, k \in Sockets : Disconnect(s, k)
  \/ \E u \in Users, g \in Groups : UpdateLocation(u, g)
  \/ \E u \in Users, g \in Groups : LeaveGroup(u, g)
  \/ \E u \in Users, g \in Groups : AddUserToGroup(u, g)
  \/ \E s \in Clients : AttachMember(s)
  \/ \E s \in Clients : StartBuilding(s)
  \/ \E s \in Clients : ReadGroup(s)
  \/ \E s \in Clients : BuildGroupSession(s)
  \/ \E s \in Clients : Reject(s)
  \/ \E s \in Clients : PersistLastLocation(s)
  \/ \E s \in Slots : SaveFlag(s)
  \/ \E s \in Sweeps, g \in Groups : StartPass(s, g)
  \/ \E s \in Sweeps, u \in Users : Visit(s, u)
  \/ \E s \in Sweeps : SweepAlarmed(s)
  \/ \E s \in Sweeps : SweepNoticed(s)
  \/ \E s \in Sweeps : SnapshotMember(s)
  \/ \E s \in Sweeps : EndGroup(s)
  \/ \E s \in Slots : Fail(s)
  \/ Crash

\* A pair is in `left` from the moment the user leaves the group until nothing
\* holds it in a session of the group any more, or it is added again.
Next ==
  /\ Step
  /\ left' = {p \in Pairs :
       LET u == p[1]  g == p[2]
       IN  /\ ~rows'[g][u].in /\ Holds(u, g)'
           /\ p \in left \/ (rows[g][u].in /\ Holds(u, g))}

Spec == Init /\ [][Next]_vars

-----------------------------------------------------------------------------
(* Properties *)

\* Every variable has its type, and every suspended handler what it will use.
TypeOK ==
  /\ groups \in [Groups -> Maybe(Objs)]
  /\ heap \in [Objs -> [Users -> MemberType]]
  /\ rows \in [Groups -> [Users -> RowType]]
  /\ flag \in [Users -> BOOLEAN]
  /\ sock \in [Sockets -> SockType]
  /\ call \in [Slots -> CallType]
  /\ used \in Nat
  /\ hist \in [lost : SUBSET Sockets, apart : SUBSET Pairs, unsaved : SUBSET Pairs]
  /\ left \in SUBSET Pairs
  /\ \A s \in Slots :
       LET c == call[s]
       IN  /\ c.pc \in SweepPcs <=> s \in Sweeps /\ c.pc # "idle"
           /\ c.pc \in SweepPcs => c.group \in Groups /\ c.obj \in Objs
           /\ c.pc \in ConnectPcs \cup {"dis_save"} => c.group \in Groups
           /\ c.pc \in ConnectPcs => c.sock \in Sockets
           /\ c.pc \notin {"idle", "sw_visit"} => c.user \in Users

\* An open, authenticated socket is tracked: its group's session is live, its
\* user's record names it and is not offline, so what it sends is accepted,
\* broadcast and watched.  The only ways to lose that are in hist.lost: a newer socket of the user,
\* the close of an older one, a concurrent builder, leaving
\* before the session is built, a pass that was suspended while its session
\* was dropped and built again, and a reconnection while the notice of its
\* absence was awaited (handleConnection, handleDisconnect, sweep).
ConnectedTracked ==
  \A k \in Sockets \ hist.lost : Authenticated(k) =>
    LET u == sock[k].user  g == sock[k].group
    IN  RequireMember(u, g) /\ Rec(u, g).sock = k /\ ~Rec(u, g).offline

\* A record never names a socket of somebody else, nor one that closed, unless
\* it closed before handleConnection had set its client.data: a member whose
\* record does is never reported silent, and its session never ends.
SocketsKnown ==
  \A u \in Users, g \in Groups : RequireMember(u, g) /\ Rec(u, g).sock # None =>
    Rec(u, g).sock \in SocketsOf(u, g)

\* User.sos agrees with every live session of the user once startSos, endSos
\* and the sweep have saved it.  Sessions that may differ are in hist.apart:
\* the SOS was changed in another group since, two handlers overlapped or one
\* failed, a session was built from a flag read before it changed, or a member
\* without a saved location joined with an SOS raised.
SosOfSessions ==
  \A u \in Users, g \in Groups :
    RequireMember(u, g) /\ ~Saving(u) /\ <<u, g>> \notin hist.apart
      => Rec(u, g).sos = flag[u]

\* A session is dropped when all its members are offline, and an offline member
\* has a saved location, so the next session has it again: unless saving it
\* failed, or the user has left and come back (snapshotMember).
OfflineSaved ==
  \A u \in Users, g \in Groups :
    /\ RequireMember(u, g) /\ Rec(u, g).offline
    /\ rows[g][u].in /\ <<u, g>> \notin hist.unsaved
    => \/ rows[g][u].loc
       \/ \E s \in Sweeps : At(s, "sw_save") /\ call[s].user = u /\ call[s].group = g

\* A live session holds only members and those it held already when they left:
\* leaveGroup does not reach the session, but nobody comes back into a session,
\* or into the next one, without being a member.
NoStrangers ==
  \A u \in Users, g \in Groups :
    RequireMember(u, g) => rows[g][u].in \/ <<u, g>> \in left

=============================================================================
