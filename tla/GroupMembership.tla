--------------------------- MODULE GroupMembership ---------------------------
(***************************************************************************)
(* Who is a member of which group (src/group/group.service.ts), and which  *)
(* sockets of the `groups` namespace are in which room                     *)
(* (src/realtime/gateways/group-events.gateway.ts).                        *)
(*                                                                         *)
(* As in LiveMember, a handler is a chain of segments: an awaited query    *)
(* takes effect in a Commit action and the handler resumes in the action   *)
(* named after the segment it runs then.                                   *)
(***************************************************************************)
EXTENDS Naturals, FiniteSets

CONSTANTS
  Users,
  Groups,    \* ids of group rows
  Sockets,   \* connections to the `groups` namespace, each used once
  Slots,     \* handlers in progress
  None,
  MaxCalls,  \* bound: HTTP requests and connections
  MaxFails,  \* bound: queries that throw
  MaxCrashes \* bound: process restarts

ASSUME NoneAssumption == None \notin Users \cup Groups \cup Sockets
ASSUME BoundAssumption == MaxCalls \in Nat /\ MaxFails \in Nat /\ MaxCrashes \in Nat

VARIABLES
  rows,   \* groupMember rows: <<user, group>>
  status, \* group rows: none yet, live, or deleted
  sock,   \* a socket's user, whether it is open, its rooms, and the rooms
          \* whose group changed since it was last told (`due`, history)
  reg,    \* socketByUser
  call,   \* Slots -> the handler suspended there
  used,   \* how much of each bound is spent
  latest, \* history: the user's newest socket
  hist    \* history: what overlapped or failed, see NoHist

vars == <<rows, status, sock, reg, call, used, latest, hist>>

-----------------------------------------------------------------------------
(* State *)

Maybe(S) == S \cup {None}
Pairs == Users \X Groups

SockType ==
  [user : Maybe(Users), open : BOOLEAN, rooms : SUBSET Groups, due : SUBSET Groups]
Closed == [user |-> None, open |-> FALSE, rooms |-> {}, due |-> {}]

Pcs == {"idle", "cr_group", "add_check", "add_find", "add_upsert", "lv_rows",
        "lv_count", "lv_delete", "con_rows"}

\* `user` acts for itself except in addUserToGroup, where `by` does; `ok` is
\* the answer of the query, `read` the memberships of a connecting user.
CallType ==
  [pc : Pcs, ran : BOOLEAN, user : Maybe(Users), by : Maybe(Users),
   g : Maybe(Groups), k : Maybe(Sockets), ok : BOOLEAN, read : SUBSET Groups]

NoCall ==
  [pc |-> "idle", ran |-> FALSE, user |-> None, by |-> None, g |-> None,
   k |-> None, ok |-> FALSE, read |-> {}]

\* Memberships that a leaveGroup and another handler changed together, or a
\* handler failed on; those a connecting user was leaving; groups somebody was
\* added to while they were being emptied; groups a handler failed on.
HistType ==
  [raced : SUBSET Pairs, ghosts : SUBSET Pairs, contested : SUBSET Groups,
   failed : SUBSET Groups]
NoHist == [raced |-> {}, ghosts |-> {}, contested |-> {}, failed |-> {}]

Init ==
  /\ rows = {} /\ status = [g \in Groups |-> "none"]
  /\ sock = [k \in Sockets |-> Closed] /\ reg = [u \in Users |-> None]
  /\ call = [s \in Slots |-> NoCall]
  /\ used = [calls |-> 0, fails |-> 0, crashes |-> 0]
  /\ latest = [u \in Users |-> None] /\ hist = NoHist

MembersOf(g) == {u \in Users : <<u, g>> \in rows}

-----------------------------------------------------------------------------
(* Suspended handlers and what they overlap with *)

At(s, pc) == call[s].pc = pc
Resumes(s, pc) == At(s, pc) /\ call[s].ran

Others(s) == {call[t] : t \in Slots \ {s}}
Touches(c, u, g) == c.pc # "idle" /\ c.user = u /\ (c.pc = "con_rows" \/ c.g = g)

\* Handlers in states c and d that interfere, as HistType says.
Pair(c, d, p, q) == <<c.pc, d.pc>> \in {<<p, q>>, <<q, p>>}

Races(c, d) ==
  /\ c.user = d.user /\ c.g = d.g
  /\ \/ Pair(c, d, "lv_rows", "add_upsert")
     \/ Pair(c, d, "lv_rows", "cr_group")

Haunts(c, d) == c.user = d.user /\ Pair(c, d, "lv_rows", "con_rows")

Contests(c, d) ==
  /\ c.g = d.g
  /\ \/ Pair(c, d, "add_upsert", "lv_count")
     \/ Pair(c, d, "add_upsert", "lv_delete")

Ghosts(s, c) ==
  {<<c.user, IF c.pc = "lv_rows" THEN c.g ELSE d.g>> :
     d \in {e \in Others(s) : Haunts(c, e)}}

Await(s, c) ==
  /\ call' = [call EXCEPT ![s] = c]
  /\ hist' = [hist EXCEPT
       !.raced = @ \cup {<<d.user, d.g>> : d \in {e \in Others(s) : Races(c, e)}},
       !.ghosts = @ \cup Ghosts(s, c),
       !.contested = @ \cup {d.g : d \in {e \in Others(s) : Contests(c, e)}}]

Return(s) == call' = [call EXCEPT ![s] = NoCall] /\ UNCHANGED hist

Issue(s) ==
  /\ At(s, "idle") /\ used.calls < MaxCalls
  /\ used' = [used EXCEPT !.calls = @ + 1]

\* A query of slot s takes effect.
Commit(s, pc) ==
  /\ At(s, pc) /\ ~call[s].ran
  /\ UNCHANGED <<reg, used, latest, hist>>

Answer(s, ok) == call' = [call EXCEPT ![s].ran = TRUE, ![s].ok = ok]

-----------------------------------------------------------------------------
(* Rooms *)

\* Every open socket in the room of a group whose members change is due a
\* GROUP_CHANGED; notifyGroupChanged sends it to the room.
Changed(g) ==
  [k \in Sockets |->
     IF g \in sock[k].rooms THEN [sock[k] EXCEPT !.due = @ \cup {g}] ELSE sock[k]]

Notified(ss, g) ==
  [k \in Sockets |->
     IF g \in ss[k].rooms THEN [ss[k] EXCEPT !.due = @ \ {g}] ELSE ss[k]]

\* join and leave act on the user's registered socket, if it has one.
Joined(u, g) ==
  IF reg[u] = None THEN sock
  ELSE [sock EXCEPT ![reg[u]].rooms = @ \cup {g}]

Departed(u, g) ==
  IF reg[u] = None THEN sock
  ELSE [sock EXCEPT ![reg[u]].rooms = @ \ {g}, ![reg[u]].due = @ \ {g}]

\* Mutant: client.data is not set.
ConnectAnonymous(s, k, u) ==
  /\ Issue(s) /\ sock[k].user = None
  /\ sock' = [sock EXCEPT ![k] = [Closed EXCEPT !.open = TRUE]]
  /\ reg' = [reg EXCEPT ![u] = k]
  /\ latest' = [latest EXCEPT ![u] = k]
  /\ Await(s, [NoCall EXCEPT !.pc = "con_rows", !.user = u, !.k = k])
  /\ UNCHANGED <<rows, status>>

\* A new socket starts in no room, so what older handlers did to the rooms of
\* the user's last one no longer matters.
HandleConnection(s, k, u) ==
  /\ Issue(s) /\ sock[k].user = None
  /\ sock' = [sock EXCEPT ![k] = [Closed EXCEPT !.user = u, !.open = TRUE]]
  /\ reg' = [reg EXCEPT ![u] = k]
  /\ latest' = [latest EXCEPT ![u] = k]
  /\ LET c == [NoCall EXCEPT !.pc = "con_rows", !.user = u, !.k = k]
         past == {p \in Pairs : p[1] = u /\ \A d \in Others(s) : ~Touches(d, u, p[2])}
     IN  /\ call' = [call EXCEPT ![s] = c]
         /\ hist' = [hist EXCEPT !.raced = @ \ past,
                                 !.ghosts = (@ \ past) \cup Ghosts(s, c)]
  /\ UNCHANGED <<rows, status>>

CommitMemberships(s) ==
  /\ Commit(s, "con_rows")
  /\ call' = [call EXCEPT ![s].ran = TRUE,
                          ![s].read = {g \in Groups : <<call[s].user, g>> \in rows}]
  /\ UNCHANGED <<rows, status, sock>>

RoomsJoined(s) ==
  /\ Resumes(s, "con_rows")
  /\ LET k == call[s].k
     IN  sock' = IF sock[k].open THEN [sock EXCEPT ![k].rooms = @ \cup call[s].read]
                 ELSE sock
  /\ Return(s)
  /\ UNCHANGED <<rows, status, reg, used, latest>>

\* Mutant: the disconnection of an old socket forgets the newer one.
HandleDisconnectAny(k) ==
  LET u == sock[k].user
  IN  /\ sock[k].open
      /\ sock' = [sock EXCEPT ![k] = [Closed EXCEPT !.user = u]]
      /\ reg' = [reg EXCEPT ![u] = None]
      /\ latest' = [latest EXCEPT ![u] = IF @ = k THEN None ELSE @]
      /\ UNCHANGED <<rows, status, call, used, hist>>

HandleDisconnect(k) ==
  LET u == sock[k].user
  IN  /\ sock[k].open
      /\ sock' = [sock EXCEPT ![k] = [Closed EXCEPT !.user = u]]
      /\ reg' = [reg EXCEPT ![u] = IF @ = k THEN None ELSE @]
      /\ latest' = [latest EXCEPT ![u] = IF @ = k THEN None ELSE @]
      /\ UNCHANGED <<rows, status, call, used, hist>>

-----------------------------------------------------------------------------
(* Creating a group: the group and its first member in one nested write *)

CreateNewGroup(s, u) ==
  /\ Issue(s)
  /\ Await(s, [NoCall EXCEPT !.pc = "cr_group", !.user = u])
  /\ UNCHANGED <<rows, status, sock, reg, latest>>

CommitCreate(s) ==
  /\ Commit(s, "cr_group")
  /\ \E g \in Groups :
       /\ status[g] = "none"
       /\ status' = [status EXCEPT ![g] = "live"]
       /\ rows' = rows \cup {<<call[s].user, g>>}
       /\ call' = [call EXCEPT ![s].ran = TRUE, ![s].g = g]
  /\ UNCHANGED sock

GroupCreated(s) ==
  /\ Resumes(s, "cr_group")
  /\ sock' = Joined(call[s].user, call[s].g)
  /\ Return(s)
  /\ UNCHANGED <<rows, status, reg, used, latest>>

-----------------------------------------------------------------------------
(* Adding a user by secret key *)

\* Requests name groups that exist or existed: ids are generated.
AddUserToGroup(s, by, u, g) ==
  /\ Issue(s) /\ status[g] # "none"
  /\ Await(s, [NoCall EXCEPT !.pc = "add_check", !.by = by, !.user = u, !.g = g])
  /\ UNCHANGED <<rows, status, sock, reg, latest>>

\* The group is looked up together with the membership of who asks.
CommitAccess(s) ==
  /\ Commit(s, "add_check")
  /\ Answer(s, <<call[s].by, call[s].g>> \in rows)
  /\ UNCHANGED <<rows, status, sock>>

AccessChecked(s) ==
  /\ Resumes(s, "add_check")
  /\ IF call[s].ok THEN Await(s, [call[s] EXCEPT !.pc = "add_find"]) ELSE Return(s)
  /\ UNCHANGED <<rows, status, sock, reg, used, latest>>

\* The key may belong to nobody, or to somebody who has not confirmed.
UserFound(s) ==
  /\ Resumes(s, "add_find")
  /\ \/ Return(s)
     \/ Await(s, [call[s] EXCEPT !.pc = "add_upsert", !.ran = FALSE])
  /\ UNCHANGED <<rows, status, sock, reg, used, latest>>

\* Throws (ok is FALSE) when the group is gone: the foreign key refuses.
CommitUpsert(s) ==
  /\ Commit(s, "add_upsert")
  /\ LET u == call[s].user
         g == call[s].g
     IN  /\ Answer(s, status[g] = "live")
         /\ rows' = IF status[g] = "live" THEN rows \cup {<<u, g>>} ELSE rows
         /\ sock' = IF status[g] = "live" /\ <<u, g>> \notin rows THEN Changed(g) ELSE sock
  /\ UNCHANGED status

UserAdded(s) ==
  /\ Resumes(s, "add_upsert")
  /\ LET g == call[s].g
     IN  sock' = IF call[s].ok THEN Notified(Joined(call[s].user, g), g) ELSE sock
  /\ Return(s)
  /\ UNCHANGED <<rows, status, reg, used, latest>>

-----------------------------------------------------------------------------
(* Leaving, which deletes a group that nobody is left in *)

LeaveGroup(s, u, g) ==
  /\ Issue(s) /\ status[g] # "none"
  /\ Await(s, [NoCall EXCEPT !.pc = "lv_rows", !.user = u, !.g = g])
  /\ UNCHANGED <<rows, status, sock, reg, latest>>

CommitLeave(s) ==
  /\ Commit(s, "lv_rows")
  /\ LET p == <<call[s].user, call[s].g>>
     IN  /\ Answer(s, p \in rows)
         /\ rows' = rows \ {p}
         /\ sock' = IF p \in rows THEN Changed(call[s].g) ELSE sock
  /\ UNCHANGED status

\* Mutant: the room keeps the socket of the user who left.
LeftRoomKept(s) ==
  /\ Resumes(s, "lv_rows")
  /\ IF call[s].ok THEN Await(s, [call[s] EXCEPT !.pc = "lv_count", !.ran = FALSE])
     ELSE Return(s)
  /\ UNCHANGED <<rows, status, sock, reg, used, latest>>

Left(s) ==
  /\ Resumes(s, "lv_rows")
  /\ IF call[s].ok
     THEN /\ sock' = Departed(call[s].user, call[s].g)
          /\ Await(s, [call[s] EXCEPT !.pc = "lv_count", !.ran = FALSE])
     ELSE UNCHANGED sock /\ Return(s)
  /\ UNCHANGED <<rows, status, reg, used, latest>>

\* Mutant: one remaining member counts as none.
CommitCountOff(s) ==
  /\ Commit(s, "lv_count")
  /\ Answer(s, Cardinality(MembersOf(call[s].g)) > 1)
  /\ UNCHANGED <<rows, status, sock>>

CommitCount(s) ==
  /\ Commit(s, "lv_count")
  /\ Answer(s, MembersOf(call[s].g) # {})
  /\ UNCHANGED <<rows, status, sock>>

\* Mutants: nobody is told; the empty group stays.
CountedQuietly(s) ==
  /\ Resumes(s, "lv_count")
  /\ IF call[s].ok THEN Return(s)
     ELSE Await(s, [call[s] EXCEPT !.pc = "lv_delete", !.ran = FALSE])
  /\ UNCHANGED <<rows, status, sock, reg, used, latest>>

CountedAndKept(s) ==
  /\ Resumes(s, "lv_count")
  /\ sock' = Notified(sock, call[s].g) /\ Return(s)
  /\ UNCHANGED <<rows, status, reg, used, latest>>

Counted(s) ==
  /\ Resumes(s, "lv_count")
  /\ IF call[s].ok
     THEN sock' = Notified(sock, call[s].g) /\ Return(s)
     ELSE /\ Await(s, [call[s] EXCEPT !.pc = "lv_delete", !.ran = FALSE])
          /\ UNCHANGED sock
  /\ UNCHANGED <<rows, status, reg, used, latest>>

\* Memberships go with the group (onDelete: Cascade).  Throws if it is gone.
CommitDelete(s) ==
  /\ Commit(s, "lv_delete")
  /\ LET g == call[s].g
     IN  /\ Answer(s, status[g] = "live")
         /\ status' = [status EXCEPT ![g] = "gone"]
         /\ rows' = {p \in rows : p[2] # g}
  /\ UNCHANGED sock

GroupDeleted(s) ==
  /\ Resumes(s, "lv_delete")
  /\ Return(s)
  /\ UNCHANGED <<rows, status, sock, reg, used, latest>>

-----------------------------------------------------------------------------
(* Failures *)

\* The awaited call throws, before or after its effect, and nothing follows.
Fail(s) ==
  /\ ~At(s, "idle") /\ used.fails < MaxFails
  /\ used' = [used EXCEPT !.fails = @ + 1]
  /\ call' = [call EXCEPT ![s] = NoCall]
  /\ LET c == call[s]
         gs == IF c.pc = "con_rows" THEN Groups ELSE {c.g} \ {None}
     IN  hist' = [hist EXCEPT !.raced = @ \cup ({c.user} \X gs),
                              !.failed = @ \cup ({c.g} \ {None})]
  /\ UNCHANGED <<rows, status, sock, reg, latest>>

\* The rows survive, the sockets and the handlers do not.
Crash ==
  /\ used.crashes < MaxCrashes
  /\ used' = [used EXCEPT !.crashes = @ + 1]
  /\ sock' = [k \in Sockets |-> [Closed EXCEPT !.user = sock[k].user]]
  /\ reg' = [u \in Users |-> None] /\ latest' = [u \in Users |-> None]
  /\ call' = [s \in Slots |-> NoCall]
  /\ hist' = [hist EXCEPT !.raced = {}, !.ghosts = {},
                          !.failed = @ \cup ({call[s].g : s \in Slots} \ {None})]
  /\ UNCHANGED <<rows, status>>

-----------------------------------------------------------------------------
(* Specification *)

Requests(s) ==
  \/ \E k \in Sockets, u \in Users : HandleConnection(s, k, u)
  \/ \E u \in Users : CreateNewGroup(s, u)
  \/ \E by, u \in Users, g \in Groups : AddUserToGroup(s, by, u, g)
  \/ \E u \in Users, g \in Groups : LeaveGroup(s, u, g)

Continue(s) ==
  \/ RoomsJoined(s)
  \/ GroupCreated(s)
  \/ AccessChecked(s)
  \/ UserFound(s)
  \/ UserAdded(s)
  \/ Left(s)
  \/ Counted(s)
  \/ GroupDeleted(s)

Effect(s) ==
  \/ CommitMemberships(s)
  \/ CommitCreate(s)
  \/ CommitAccess(s)
  \/ CommitUpsert(s)
  \/ CommitLeave(s)
  \/ CommitCount(s)
  \/ CommitDelete(s)

Next ==
  \/ \E s \in Slots : Requests(s)
  \/ \E s \in Slots : Continue(s)
  \/ \E s \in Slots : Effect(s)
  \/ \E s \in Slots : Fail(s)
  \/ \E k \in Sockets : HandleDisconnect(k)
  \/ Crash

Spec == Init /\ [][Next]_vars

-----------------------------------------------------------------------------
(* Properties *)

\* What the handler in slot s, suspended in state c, has captured.
CallOK(c) ==
  /\ c.pc # "idle" => c.user \in Users
  /\ c.pc = "con_rows" => c.k \in Sockets
  /\ c.pc \in {"add_check", "add_find", "add_upsert", "lv_rows", "lv_count", "lv_delete"}
       => c.g \in Groups
  /\ c.pc = "add_check" => c.by \in Users
  /\ c.pc = "cr_group" /\ c.ran => c.g \in Groups

\* Every variable has its type, every suspended handler what it will use.
TypeOK ==
  /\ rows \subseteq Pairs
  /\ status \in [Groups -> {"none", "live", "gone"}]
  /\ sock \in [Sockets -> SockType]
  /\ \A k \in Sockets : sock[k].open => sock[k].user \in Users
  /\ reg \in [Users -> Maybe(Sockets)] /\ latest \in [Users -> Maybe(Sockets)]
  /\ call \in [Slots -> CallType]
  /\ used \in [calls : Nat, fails : Nat, crashes : Nat]
  /\ hist \in HistType
  /\ \A s \in Slots : CallOK(call[s])

Untouched(u, g) == \A s \in Slots : ~Touches(call[s], u, g)

\* Nothing is changing whether u is in g, and no two handlers that did raced.
Settled(u, g) ==
  Untouched(u, g) /\ <<u, g>> \notin hist.raced /\ g \notin hist.contested

\* A member's newest socket is in the room of every group it is a member of,
\* however its connection interleaves with being added: handleConnection
\* registers the socket before it reads the memberships, and an older socket
\* that closes later does not unregister it.
MembersHear ==
  \A u \in Users, g \in Groups :
    Settled(u, g) /\ latest[u] # None /\ <<u, g>> \in rows
      => g \in sock[latest[u]].rooms

\* A user's newest socket is in no room of a group it is not a member of,
\* unless it was leaving while it connected (leaveGroup, handleConnection).
OnlyMembersHear ==
  \A u \in Users, g \in Groups :
    Settled(u, g) /\ <<u, g>> \notin hist.ghosts /\ latest[u] # None
      /\ g \in sock[latest[u]].rooms
      => <<u, g>> \in rows

\* Every change to a group has been told to the members who listen, once the
\* handlers of the group are done (addUserToGroup, leaveGroup).
ChangesAnnounced ==
  \A g \in Groups \ hist.failed : (\A s \in Slots : call[s].g # g) =>
    \A k \in Sockets :
      sock[k].open /\ g \in sock[k].rooms /\ <<sock[k].user, g>> \in rows
        => g \notin sock[k].due

\* A handler that will delete g unless somebody is in it.
Emptying(c, g) ==
  c.g = g /\ (\/ c.pc = "lv_rows" /\ c.ran /\ c.ok
              \/ c.pc = "lv_count" /\ (c.ran => ~c.ok)
              \/ c.pc = "lv_delete")

\* A group without members goes away, however many of them leave at once:
\* nobody could ever be added to it again.  Whoever deletes the last row
\* counts afterwards (leaveGroup).
NoOrphans ==
  \A g \in Groups \ hist.failed :
    status[g] = "live" => MembersOf(g) # {} \/ \E s \in Slots : Emptying(call[s], g)

\* A group that somebody is in is not deleted, unless that user was being
\* added while the others were leaving.
InhabitedKept ==
  [][\A g \in Groups :
       status[g] = "live" /\ status'[g] = "gone" =>
         MembersOf(g) = {} \/ g \in hist.contested]_vars

=============================================================================
