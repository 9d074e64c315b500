----------------------- MODULE GroupMembership_proofs -----------------------
(* Theorems about GroupMembership, for every value of its constants. *)
EXTENDS GroupMembership, TLAPS

-----------------------------------------------------------------------------
(* How the shared pieces of a step type the state after it. *)

LEMMA NoCallTyped == NoCall \in CallType /\ CallOK(NoCall)
BY DEF NoCall, CallType, Pcs, Maybe, CallOK

LEMMA StateTyped ==
  ASSUME TypeOK
  PROVE  /\ \A s \in Slots : call[s] \in CallType /\ CallOK(call[s])
         /\ \A k \in Sockets : sock[k] \in SockType
         /\ \A u \in Users : reg[u] # None => reg[u] \in Sockets
BY DEF TypeOK, Maybe

\* The conjuncts of TypeOK' that speak of the slots.
CallsOK ==
  /\ call' \in [Slots -> CallType] /\ hist' \in HistType
  /\ \A t \in Slots : CallOK(call'[t])

LEMMA SlotTyped ==
  ASSUME TypeOK, NEW s \in Slots, NEW c \in CallType, CallOK(c),
         call' = [call EXCEPT ![s] = c], hist' \in HistType
  PROVE  CallsOK
BY DEF TypeOK, CallsOK

LEMMA GhostsTyped ==
  ASSUME TypeOK, NEW s \in Slots, NEW c \in CallType, CallOK(c)
  PROVE  Ghosts(s, c) \subseteq Pairs
<1> SUFFICES ASSUME NEW d \in Others(s), Haunts(c, d)
             PROVE  <<c.user, IF c.pc = "lv_rows" THEN c.g ELSE d.g>> \in Pairs
  BY DEF Ghosts
<1>1. CallOK(d)
  BY StateTyped DEF Others
<1>2. c.user \in Users
  BY DEF Haunts, Pair, CallOK
<1>3. CASE c.pc = "lv_rows"
  BY <1>2, <1>3 DEF CallOK, Pairs
<1>4. CASE c.pc # "lv_rows"
  BY <1>1, <1>2, <1>4 DEF Haunts, Pair, CallOK, Pairs
<1>5. QED
  BY <1>3, <1>4

LEMMA AwaitTyped ==
  ASSUME TypeOK, NEW s \in Slots, NEW c \in CallType, CallOK(c), Await(s, c)
  PROVE  CallsOK
<1> DEFINE R == {<<d.user, d.g>> : d \in {e \in Others(s) : Races(c, e)}}
           C == {d.g : d \in {e \in Others(s) : Contests(c, e)}}
<1>1. ASSUME NEW d \in Others(s) PROVE CallOK(d)
  BY StateTyped DEF Others
<1>2. R \subseteq Pairs
  <2> SUFFICES ASSUME NEW d \in Others(s), Races(c, d) PROVE <<d.user, d.g>> \in Pairs
    OBVIOUS
  <2>1. c.user \in Users /\ c.user = d.user /\ c.g = d.g
    BY DEF Races, Pair, CallOK
  <2>2. d.g \in Groups
    BY <1>1, <2>1 DEF Races, Pair, CallOK
  <2>3. QED
    BY <2>1, <2>2 DEF Pairs
<1>3. C \subseteq Groups
  BY <1>1 DEF Contests, Pair, CallOK
<1>4. hist' = [hist EXCEPT !.raced = @ \cup R, !.ghosts = @ \cup Ghosts(s, c),
                           !.contested = @ \cup C]
  BY DEF Await
<1> HIDE DEF R, C
<1>5. hist' \in HistType
  BY <1>2, <1>3, <1>4, GhostsTyped DEF TypeOK, HistType
<1>6. QED
  BY <1>5, SlotTyped DEF Await

LEMMA ReturnTyped ==
  ASSUME TypeOK, NEW s \in Slots, Return(s)
  PROVE  CallsOK
BY NoCallTyped, SlotTyped DEF TypeOK, Return

\* A handler that is answered captured what it needs before.
LEMMA AnswerTyped ==
  ASSUME TypeOK, NEW s \in Slots, NEW ok \in BOOLEAN, Answer(s, ok),
         call[s].pc # "cr_group", UNCHANGED hist
  PROVE  CallsOK
<1> DEFINE c == [call[s] EXCEPT !.ran = TRUE, !.ok = ok]
<1>1. c \in CallType /\ CallOK(c)
  BY StateTyped DEF CallType, CallOK
<1>2. call' = [call EXCEPT ![s] = c]
  BY DEF Answer
<1>3. hist' \in HistType
  BY DEF TypeOK
<1>4. QED
  BY <1>1, <1>2, <1>3, SlotTyped

\* The conjuncts of TypeOK' that speak of the sockets.
SocketsOK ==
  /\ sock' \in [Sockets -> SockType]
  /\ \A k \in Sockets : sock'[k].open => sock'[k].user \in Users

LEMMA ChangedTyped ==
  ASSUME TypeOK, NEW g \in Groups, sock' = Changed(g)
  PROVE  SocketsOK
<1>1. ASSUME NEW k \in Sockets PROVE sock'[k] \in SockType /\ sock'[k].open = sock[k].open
                                     /\ sock'[k].user = sock[k].user
  BY StateTyped DEF Changed, SockType
<1>2. QED
  BY <1>1 DEF Changed, TypeOK, SocketsOK

\* What join and leave do to the sockets, of which open and user stay.
SocketsLike(ss) ==
  /\ ss \in [Sockets -> SockType]
  /\ \A k \in Sockets : ss[k].open = sock[k].open /\ ss[k].user = sock[k].user

LEMMA LikeTyped ==
  ASSUME TypeOK, SocketsLike(sock')
  PROVE  SocketsOK
BY DEF TypeOK, SocketsLike, SocketsOK

LEMMA JoinedTyped ==
  ASSUME TypeOK, NEW u \in Users, NEW g \in Groups
  PROVE  SocketsLike(sock) /\ SocketsLike(Joined(u, g)) /\ SocketsLike(Departed(u, g))
<1>1. SocketsLike(sock)
  BY DEF TypeOK, SocketsLike
<1>2. CASE reg[u] = None
  BY <1>1, <1>2 DEF Joined, Departed
<1>3. CASE reg[u] # None
  <2>1. reg[u] \in Sockets /\ \A k \in Sockets : sock[k] \in SockType
    BY <1>3, StateTyped
  <2> DEFINE a == [sock[reg[u]] EXCEPT !.rooms = @ \cup {g}]
             b == [sock[reg[u]] EXCEPT !.rooms = @ \ {g}, !.due = @ \ {g}]
  <2>2. /\ a \in SockType /\ a.open = sock[reg[u]].open /\ a.user = sock[reg[u]].user
        /\ b \in SockType /\ b.open = sock[reg[u]].open /\ b.user = sock[reg[u]].user
    BY <2>1 DEF SockType
  <2>3. /\ Joined(u, g) = [sock EXCEPT ![reg[u]] = a]
        /\ Departed(u, g) = [sock EXCEPT ![reg[u]] = b]
    BY <1>3, <2>1 DEF Joined, Departed, TypeOK
  <2> HIDE DEF a, b
  <2>4. QED
    BY <1>1, <2>1, <2>2, <2>3 DEF SocketsLike
<1>4. QED
  BY <1>1, <1>2, <1>3

LEMMA NotifiedTyped ==
  ASSUME TypeOK, NEW ss, SocketsLike(ss), NEW g \in Groups
  PROVE  SocketsLike(Notified(ss, g))
<1>1. ASSUME NEW k \in Sockets
      PROVE  /\ Notified(ss, g)[k] \in SockType
             /\ Notified(ss, g)[k].open = sock[k].open
             /\ Notified(ss, g)[k].user = sock[k].user
  BY DEF Notified, SocketsLike, SockType
<1>2. QED
  BY <1>1 DEF Notified, SocketsLike

LEMMA IssueTyped ==
  ASSUME TypeOK, NEW s, Issue(s)
  PROVE  used' \in [calls : Nat, fails : Nat, crashes : Nat]
BY DEF TypeOK, Issue

-----------------------------------------------------------------------------
(* Type correctness, one lemma per action. *)

LEMMA HandleConnectionTyped ==
  ASSUME TypeOK, NEW s \in Slots, NEW k \in Sockets, NEW u \in Users,
         HandleConnection(s, k, u)
  PROVE  TypeOK'
<1> DEFINE c == [NoCall EXCEPT !.pc = "con_rows", !.user = u, !.k = k]
           past == {p \in Pairs : p[1] = u /\ \A d \in Others(s) : ~Touches(d, u, p[2])}
           open == [Closed EXCEPT !.user = u, !.open = TRUE]
<1>1. c \in CallType /\ CallOK(c)
  BY NoCallTyped DEF CallType, CallOK, Pcs, Maybe
<1>2. open \in SockType /\ open.user \in Users
  BY DEF Closed, SockType, Maybe
<1>3. /\ call' = [call EXCEPT ![s] = c] /\ sock' = [sock EXCEPT ![k] = open]
      /\ reg' = [reg EXCEPT ![u] = k] /\ latest' = [latest EXCEPT ![u] = k]
      /\ hist' = [hist EXCEPT !.raced = @ \ past, !.ghosts = (@ \ past) \cup Ghosts(s, c)]
      /\ UNCHANGED <<rows, status>>
  BY DEF HandleConnection
<1>4. Ghosts(s, c) \subseteq Pairs
  BY <1>1, GhostsTyped
<1> HIDE DEF c, past, open
<1>5. hist' \in HistType
  BY <1>3, <1>4 DEF TypeOK, HistType
<1>6. CallsOK
  BY <1>1, <1>3, <1>5, SlotTyped
<1>7. SocketsOK
  BY <1>2, <1>3 DEF TypeOK, SocketsOK
<1>8. used' \in [calls : Nat, fails : Nat, crashes : Nat]
  BY IssueTyped DEF HandleConnection
<1>9. reg' \in [Users -> Maybe(Sockets)] /\ latest' \in [Users -> Maybe(Sockets)]
  BY <1>3 DEF TypeOK, Maybe
<1>10. QED
  BY <1>3, <1>6, <1>7, <1>8, <1>9 DEF TypeOK, CallsOK, SocketsOK

LEMMA HandleDisconnectTyped ==
  ASSUME TypeOK, NEW k \in Sockets, HandleDisconnect(k)
  PROVE  TypeOK'
<1> DEFINE u == sock[k].user
           shut == [Closed EXCEPT !.user = u]
<1>1. u \in Users
  BY DEF TypeOK, HandleDisconnect
<1>2. shut \in SockType /\ ~shut.open
  BY <1>1 DEF Closed, SockType, Maybe
<1>3. /\ sock' = [sock EXCEPT ![k] = shut]
      /\ UNCHANGED <<rows, status, call, used, hist>>
  BY DEF HandleDisconnect
<1>4. reg' \in [Users -> Maybe(Sockets)] /\ latest' \in [Users -> Maybe(Sockets)]
  BY <1>1 DEF HandleDisconnect, TypeOK, Maybe
<1> HIDE DEF shut
<1>5. SocketsOK
  BY <1>2, <1>3 DEF TypeOK, SocketsOK
<1>6. QED
  BY <1>3, <1>4, <1>5 DEF TypeOK, SocketsOK

LEMMA CrashTyped ==
  ASSUME TypeOK, Crash
  PROVE  TypeOK'
<1>1. UNCHANGED <<rows, status>>
  BY DEF Crash
<1>2. sock' \in [Sockets -> SockType] /\ \A k \in Sockets : ~sock'[k].open
  <2>1. ASSUME NEW k \in Sockets
        PROVE  [Closed EXCEPT !.user = sock[k].user] \in SockType
               /\ ~[Closed EXCEPT !.user = sock[k].user].open
    BY StateTyped DEF Closed, SockType
  <2>2. QED
    BY <2>1 DEF Crash
<1>3. reg' \in [Users -> Maybe(Sockets)] /\ latest' \in [Users -> Maybe(Sockets)]
  BY DEF Crash, Maybe
<1>4. call' \in [Slots -> CallType] /\ \A s \in Slots : CallOK(call'[s])
  BY NoCallTyped DEF Crash
<1>5. used' \in [calls : Nat, fails : Nat, crashes : Nat]
  BY DEF TypeOK, Crash
<1>6. hist' \in HistType
  <2> DEFINE G == {call[s].g : s \in Slots} \ {None}
  <2>1. G \subseteq Groups
    BY StateTyped DEF CallType, Maybe
  <2>2. hist' = [hist EXCEPT !.raced = {}, !.ghosts = {}, !.failed = @ \cup G]
    BY DEF Crash
  <2> HIDE DEF G
  <2>3. QED
    BY <2>1, <2>2 DEF TypeOK, HistType
<1>7. QED
  BY <1>1, <1>2, <1>3, <1>4, <1>5, <1>6 DEF TypeOK

LEMMA FailTyped ==
  ASSUME TypeOK, NEW s \in Slots, Fail(s)
  PROVE  TypeOK'
<1> DEFINE c == call[s]
           gs == IF c.pc = "con_rows" THEN Groups ELSE {c.g} \ {None}
           past == {c.user} \X gs
           bad == {c.g} \ {None}
<1>1. c \in CallType /\ c.user \in Users
  BY StateTyped DEF Fail, At, CallOK
<1>2. past \subseteq Pairs /\ bad \subseteq Groups
  BY <1>1 DEF CallType, Maybe, Pairs
<1>3. hist' = [hist EXCEPT !.raced = @ \cup past, !.failed = @ \cup bad]
  BY DEF Fail
<1> HIDE DEF past, bad
<1>4. hist' \in HistType
  BY <1>2, <1>3 DEF TypeOK, HistType
<1>5. CallsOK
  BY <1>4, NoCallTyped, SlotTyped DEF Fail
<1>6. used' \in [calls : Nat, fails : Nat, crashes : Nat]
  BY DEF TypeOK, Fail
<1>7. QED
  BY <1>5, <1>6 DEF TypeOK, Fail, CallsOK

LEMMA RequestsTyped ==
  ASSUME TypeOK, NEW s \in Slots, Requests(s)
  PROVE  TypeOK'
<1>1. ASSUME NEW k \in Sockets, NEW u \in Users, HandleConnection(s, k, u) PROVE TypeOK'
  BY <1>1, HandleConnectionTyped
<1>2. ASSUME NEW u \in Users, CreateNewGroup(s, u) PROVE TypeOK'
  <2> DEFINE c == [NoCall EXCEPT !.pc = "cr_group", !.user = u]
  <2>1. c \in CallType /\ CallOK(c)
    BY NoCallTyped DEF NoCall, CallType, CallOK, Pcs, Maybe
  <2>2. Await(s, c) /\ Issue(s) /\ UNCHANGED <<rows, status, sock, reg, latest>>
    BY <1>2 DEF CreateNewGroup
  <2> HIDE DEF c
  <2>3. QED
    BY <2>1, <2>2, AwaitTyped, IssueTyped DEF TypeOK, CallsOK
<1>3. ASSUME NEW by \in Users, NEW u \in Users, NEW g \in Groups, AddUserToGroup(s, by, u, g)
      PROVE  TypeOK'
  <2> DEFINE c == [NoCall EXCEPT !.pc = "add_check", !.by = by, !.user = u, !.g = g]
  <2>1. c \in CallType /\ CallOK(c)
    BY NoCallTyped DEF CallType, CallOK, Pcs, Maybe
  <2>2. Await(s, c) /\ Issue(s) /\ UNCHANGED <<rows, status, sock, reg, latest>>
    BY <1>3 DEF AddUserToGroup
  <2> HIDE DEF c
  <2>3. QED
    BY <2>1, <2>2, AwaitTyped, IssueTyped DEF TypeOK, CallsOK
<1>4. ASSUME NEW u \in Users, NEW g \in Groups, LeaveGroup(s, u, g) PROVE TypeOK'
  <2> DEFINE c == [NoCall EXCEPT !.pc = "lv_rows", !.user = u, !.g = g]
  <2>1. c \in CallType /\ CallOK(c)
    BY NoCallTyped DEF CallType, CallOK, Pcs, Maybe
  <2>2. Await(s, c) /\ Issue(s) /\ UNCHANGED <<rows, status, sock, reg, latest>>
    BY <1>4 DEF LeaveGroup
  <2> HIDE DEF c
  <2>3. QED
    BY <2>1, <2>2, AwaitTyped, IssueTyped DEF TypeOK, CallsOK
<1>5. QED
  BY <1>1, <1>2, <1>3, <1>4 DEF Requests

LEMMA ContinueTyped ==
  ASSUME TypeOK, NEW s \in Slots, Continue(s)
  PROVE  TypeOK'
<1> DEFINE c == call[s]
           Then(pc) == [c EXCEPT !.pc = pc, !.ran = FALSE]
<1>1. c \in CallType /\ CallOK(c)
  BY StateTyped
<1>2. c.pc \in {"lv_rows", "lv_count", "add_check", "add_find"} =>
        /\ [c EXCEPT !.pc = "add_find"] \in CallType
        /\ c.pc = "add_check" => CallOK([c EXCEPT !.pc = "add_find"])
        /\ \A pc \in {"add_upsert", "lv_count", "lv_delete"} :
             Then(pc) \in CallType /\ CallOK(Then(pc))
  BY <1>1 DEF CallType, CallOK, Pcs
<1>3. SocketsLike(sock)
  BY DEF TypeOK, SocketsLike
<1>4. ASSUME CallsOK, SocketsOK, UNCHANGED <<rows, status, reg, used, latest>> PROVE TypeOK'
  BY <1>4 DEF TypeOK, CallsOK, SocketsOK
<1> HIDE DEF Then
<1>5. CASE RoomsJoined(s)
  <2>1. CallsOK /\ UNCHANGED <<rows, status, reg, used, latest>>
    BY <1>5, ReturnTyped DEF RoomsJoined
  <2>2. c.k \in Sockets /\ c.read \subseteq Groups
    BY <1>1, <1>5 DEF RoomsJoined, Resumes, At, CallOK, CallType
  <2> DEFINE a == [sock[c.k] EXCEPT !.rooms = @ \cup c.read]
  <2>3. a \in SockType /\ a.open = sock[c.k].open /\ a.user = sock[c.k].user
    BY <2>2, StateTyped DEF SockType
  <2>4. sock' = sock \/ sock' = [sock EXCEPT ![c.k] = a]
    BY <1>5, <2>2 DEF RoomsJoined, TypeOK
  <2> HIDE DEF a
  <2>5. SocketsLike(sock')
    BY <1>3, <2>2, <2>3, <2>4 DEF SocketsLike
  <2>6. QED
    BY <1>4, <2>1, <2>5, LikeTyped
<1>6. CASE GroupCreated(s)
  <2>1. c.user \in Users /\ c.g \in Groups
    BY <1>1, <1>6 DEF GroupCreated, Resumes, At, CallOK
  <2>2. SocketsLike(sock')
    BY <1>6, <2>1, JoinedTyped DEF GroupCreated
  <2>3. QED
    BY <1>4, <1>6, <2>2, LikeTyped, ReturnTyped DEF GroupCreated
<1>7. CASE AccessChecked(s)
  <2>1. CallsOK
    BY <1>2, <1>7, AwaitTyped, ReturnTyped DEF AccessChecked, Resumes, At
  <2>2. QED
    BY <1>3, <1>4, <1>7, <2>1, LikeTyped DEF AccessChecked
<1>8. CASE UserFound(s)
  <2>1. CallsOK
    BY <1>2, <1>8, AwaitTyped, ReturnTyped DEF UserFound, Resumes, At, Then
  <2>2. QED
    BY <1>3, <1>4, <1>8, <2>1, LikeTyped DEF UserFound
<1>9. CASE UserAdded(s)
  <2>1. c.user \in Users /\ c.g \in Groups
    BY <1>1, <1>9 DEF UserAdded, Resumes, At, CallOK
  <2>2. SocketsLike(sock')
    BY <1>3, <1>9, <2>1, JoinedTyped, NotifiedTyped DEF UserAdded
  <2>3. QED
    BY <1>4, <1>9, <2>2, LikeTyped, ReturnTyped DEF UserAdded
<1>10. CASE Left(s)
  <2>1. c.user \in Users /\ c.g \in Groups
    BY <1>1, <1>10 DEF Left, Resumes, At, CallOK
  <2>2. SocketsLike(sock')
    BY <1>3, <1>10, <2>1, JoinedTyped DEF Left
  <2>3. CallsOK
    BY <1>2, <1>10, AwaitTyped, ReturnTyped DEF Left, Resumes, At, Then
  <2>4. QED
    BY <1>4, <1>10, <2>2, <2>3, LikeTyped DEF Left
<1>11. CASE Counted(s)
  <2>1. c.g \in Groups
    BY <1>1, <1>11 DEF Counted, Resumes, At, CallOK
  <2>2. SocketsLike(sock')
    BY <1>3, <1>11, <2>1, NotifiedTyped DEF Counted
  <2>3. CallsOK
    BY <1>2, <1>11, AwaitTyped, ReturnTyped DEF Counted, Resumes, At, Then
  <2>4. QED
    BY <1>4, <1>11, <2>2, <2>3, LikeTyped DEF Counted
<1>12. CASE GroupDeleted(s)
  BY <1>3, <1>4, <1>12, LikeTyped, ReturnTyped DEF GroupDeleted
<1>13. QED
  BY <1>5, <1>6, <1>7, <1>8, <1>9, <1>10, <1>11, <1>12 DEF Continue

LEMMA EffectTyped ==
  ASSUME TypeOK, NEW s \in Slots, Effect(s)
  PROVE  TypeOK'
<1> DEFINE c == call[s]
<1>1. c \in CallType /\ CallOK(c)
  BY StateTyped
<1>2. SocketsLike(sock)
  BY DEF TypeOK, SocketsLike
<1>3. ASSUME CallsOK, SocketsOK, rows' \subseteq Pairs,
             status' \in [Groups -> {"none", "live", "gone"}],
             NEW pc, Commit(s, pc)
      PROVE  TypeOK'
  BY <1>3 DEF TypeOK, CallsOK, SocketsOK, Commit
<1>4. CASE CommitMemberships(s)
  <2> DEFINE d == [c EXCEPT !.ran = TRUE, !.read = {g \in Groups : <<c.user, g>> \in rows}]
  <2>1. d \in CallType /\ CallOK(d)
    BY <1>1, <1>4 DEF CommitMemberships, Commit, At, CallType, CallOK
  <2>2. call' = [call EXCEPT ![s] = d] /\ hist' \in HistType
    BY <1>4 DEF CommitMemberships, Commit, TypeOK
  <2> HIDE DEF d
  <2>3. QED
    BY <1>2, <1>3, <1>4, <2>1, <2>2, SlotTyped, LikeTyped DEF CommitMemberships, TypeOK
<1>5. CASE CommitCreate(s)
  <2>1. PICK g \in Groups :
           /\ status' = [status EXCEPT ![g] = "live"]
           /\ rows' = rows \cup {<<c.user, g>>}
           /\ call' = [call EXCEPT ![s].ran = TRUE, ![s].g = g]
    BY <1>5 DEF CommitCreate
  <2> DEFINE d == [c EXCEPT !.ran = TRUE, !.g = g]
  <2>2. d \in CallType /\ CallOK(d)
    BY <1>1, <1>5 DEF CommitCreate, Commit, At, CallType, CallOK, Maybe
  <2>3. call' = [call EXCEPT ![s] = d] /\ hist' \in HistType
    BY <1>5, <2>1 DEF CommitCreate, Commit, TypeOK
  <2>4. rows' \subseteq Pairs /\ status' \in [Groups -> {"none", "live", "gone"}]
    BY <1>1, <1>5, <2>1 DEF CommitCreate, Commit, At, CallOK, TypeOK, Pairs
  <2> HIDE DEF d
  <2>5. QED
    BY <1>2, <1>3, <1>5, <2>2, <2>3, <2>4, SlotTyped, LikeTyped DEF CommitCreate
<1>6. CASE CommitAccess(s)
  <2> DEFINE ok == <<c.by, c.g>> \in rows
  <2>1. Answer(s, ok) /\ ok \in BOOLEAN
    BY <1>6 DEF CommitAccess
  <2> HIDE DEF ok
  <2>2. CallsOK
    BY <1>6, <2>1, AnswerTyped DEF CommitAccess, Commit, At
  <2>3. QED
    BY <1>2, <1>3, <1>6, <2>2, LikeTyped DEF CommitAccess, TypeOK
<1>7. CASE CommitUpsert(s)
  <2>1. c.user \in Users /\ c.g \in Groups
    BY <1>1, <1>7 DEF CommitUpsert, Commit, At, CallOK
  <2>2. SocketsOK
    BY <1>2, <1>7, <2>1, ChangedTyped, LikeTyped DEF CommitUpsert
  <2>3. rows' \subseteq Pairs /\ status' \in [Groups -> {"none", "live", "gone"}]
    BY <1>7, <2>1 DEF CommitUpsert, TypeOK, Pairs
  <2>4. CallsOK
    BY <1>7, AnswerTyped DEF CommitUpsert, Commit, At
  <2>5. QED
    BY <1>3, <1>7, <2>2, <2>3, <2>4 DEF CommitUpsert
<1>8. CASE CommitLeave(s)
  <2>1. c.user \in Users /\ c.g \in Groups
    BY <1>1, <1>8 DEF CommitLeave, Commit, At, CallOK
  <2>2. SocketsOK
    BY <1>2, <1>8, <2>1, ChangedTyped, LikeTyped DEF CommitLeave
  <2>3. rows' \subseteq Pairs /\ status' \in [Groups -> {"none", "live", "gone"}]
    BY <1>8, <2>1 DEF CommitLeave, TypeOK
  <2> DEFINE ok == <<c.user, c.g>> \in rows
  <2>4. Answer(s, ok) /\ ok \in BOOLEAN
    BY <1>8 DEF CommitLeave
  <2> HIDE DEF ok
  <2>5. CallsOK
    BY <1>8, <2>4, AnswerTyped DEF CommitLeave, Commit, At
  <2>6. QED
    BY <1>3, <1>8, <2>2, <2>3, <2>5 DEF CommitLeave
<1>9. CASE CommitCount(s)
  BY <1>2, <1>3, <1>9, AnswerTyped, LikeTyped DEF CommitCount, Commit, At, TypeOK
<1>10. CASE CommitDelete(s)
  <2>1. c.g \in Groups
    BY <1>1, <1>10 DEF CommitDelete, Commit, At, CallOK
  <2>2. rows' \subseteq Pairs /\ status' \in [Groups -> {"none", "live", "gone"}]
    BY <1>10, <2>1 DEF CommitDelete, TypeOK
  <2>3. CallsOK
    BY <1>10, AnswerTyped DEF CommitDelete, Commit, At
  <2>4. QED
    BY <1>2, <1>3, <1>10, <2>2, <2>3, LikeTyped DEF CommitDelete
<1>11. QED
  BY <1>4, <1>5, <1>6, <1>7, <1>8, <1>9, <1>10 DEF Effect

\* Every variable keeps its type, every suspended handler what it captured.
THEOREM TypeCorrect == Spec => []TypeOK
<1>1. Init => TypeOK
  <2> SUFFICES ASSUME Init PROVE TypeOK
    OBVIOUS
  <2>1. Closed \in SockType /\ ~Closed.open /\ NoHist \in HistType
    BY DEF Closed, SockType, Maybe, NoHist, HistType
  <2>2. rows \subseteq Pairs /\ status \in [Groups -> {"none", "live", "gone"}]
    BY DEF Init
  <2>3. sock \in [Sockets -> SockType] /\ \A k \in Sockets : ~sock[k].open
    BY <2>1 DEF Init
  <2>4. call \in [Slots -> CallType] /\ \A s \in Slots : CallOK(call[s])
    BY NoCallTyped DEF Init
  <2>5. /\ reg \in [Users -> Maybe(Sockets)] /\ latest \in [Users -> Maybe(Sockets)]
        /\ used \in [calls : Nat, fails : Nat, crashes : Nat] /\ hist \in HistType
    BY <2>1 DEF Init, Maybe
  <2>6. QED
    BY <2>2, <2>3, <2>4, <2>5 DEF TypeOK
<1>2. TypeOK /\ [Next]_vars => TypeOK'
  <2> SUFFICES ASSUME TypeOK, [Next]_vars PROVE TypeOK'
    OBVIOUS
  <2>1. CASE UNCHANGED vars
    BY <2>1 DEF vars, TypeOK
  <2>2. CASE Next
    BY <2>2, RequestsTyped, ContinueTyped, EffectTyped, FailTyped,
       HandleDisconnectTyped, CrashTyped DEF Next
  <2>3. QED
    BY <2>1, <2>2
<1>3. QED
  BY <1>1, <1>2, PTL DEF Spec

-----------------------------------------------------------------------------
(* A group nobody is in has somebody deleting it.  Inductive together with:  *)
(* a handler whose delete has run has deleted.                               *)

DeletedGone ==
  \A s \in Slots :
    call[s].pc = "lv_delete" /\ call[s].ran => status[call[s].g] = "gone"

OrphanInv == TypeOK /\ NoOrphans /\ DeletedGone

\* What a step of slot s owes a group that stays live.
Held(s, g) ==
  MembersOf(g) # {} \/ Emptying(call[s], g) =>
    MembersOf(g)' # {} \/ Emptying(call'[s], g)

\* The other slots stay, and the groups failed on stay so.
OneSlot(s) ==
  /\ \A t \in Slots \ {s} : call'[t] = call[t]
  /\ hist.failed \subseteq hist'.failed

LEMMA AwaitSlot ==
  ASSUME TypeOK, NEW s \in Slots, NEW c \in CallType, Await(s, c)
  PROVE  OneSlot(s) /\ call'[s] = c /\ hist'.failed = hist.failed
BY DEF TypeOK, HistType, Await, OneSlot

LEMMA ReturnSlot ==
  ASSUME TypeOK, NEW s \in Slots, Return(s)
  PROVE  OneSlot(s) /\ call'[s] = NoCall
BY DEF TypeOK, Return, OneSlot

LEMMA AnswerSlot ==
  ASSUME TypeOK, NEW s \in Slots, NEW ok, Answer(s, ok), UNCHANGED hist
  PROVE  OneSlot(s) /\ call'[s] = [call[s] EXCEPT !.ran = TRUE, !.ok = ok]
<1>1. \A t \in Slots \ {s} : call'[t] = call[t]
  BY DEF TypeOK, Answer
<1>2. call'[s] = [call[s] EXCEPT !.ran = TRUE, !.ok = ok]
  BY DEF TypeOK, Answer
<1>3. QED
  BY <1>1, <1>2 DEF OneSlot

LEMMA HeldKept ==
  ASSUME NoOrphans, NEW s \in Slots, OneSlot(s),
         \A g \in Groups \ hist'.failed :
           status'[g] = "live" => \/ status[g] = "live" /\ Held(s, g)
                                  \/ MembersOf(g)' # {}
  PROVE  NoOrphans'
<1> SUFFICES ASSUME NEW g \in Groups \ hist'.failed, status'[g] = "live",
                    MembersOf(g)' = {}
             PROVE  \E t \in Slots : Emptying(call'[t], g)
  BY DEF NoOrphans
<1>1. g \notin hist.failed
  BY DEF OneSlot
<1>2. status[g] = "live" /\ Held(s, g)
  OBVIOUS
<1>3. CASE MembersOf(g) # {} \/ Emptying(call[s], g)
  BY <1>2, <1>3 DEF Held
<1>4. CASE MembersOf(g) = {} /\ ~Emptying(call[s], g)
  <2>1. PICK t \in Slots : Emptying(call[t], g)
    BY <1>1, <1>2, <1>4 DEF NoOrphans
  <2>2. call'[t] = call[t]
    BY <1>4, <2>1 DEF OneSlot
  <2>3. QED
    BY <2>1, <2>2
<1>5. QED
  BY <1>3, <1>4

\* Most steps: no row changes, and the slot was not emptying a group.
LEMMA QuietStep ==
  ASSUME OrphanInv, NEW s \in Slots, OneSlot(s), UNCHANGED <<rows, status>>,
         \A g \in Groups : ~Emptying(call[s], g),
         call'[s].pc # "lv_delete"
  PROVE  NoOrphans' /\ DeletedGone'
<1>1. \A g \in Groups : Held(s, g)
  BY DEF Held, MembersOf
<1>2. NoOrphans'
  BY <1>1, HeldKept DEF OrphanInv
<1>3. DeletedGone'
  BY DEF OrphanInv, DeletedGone, OneSlot
<1>4. QED
  BY <1>2, <1>3

LEMMA RequestsOrphan ==
  ASSUME OrphanInv, NEW s \in Slots, Requests(s)
  PROVE  NoOrphans' /\ DeletedGone'
<1>1. TypeOK
  BY DEF OrphanInv
<1>2. call[s].pc = "idle" /\ UNCHANGED <<rows, status>>
  BY DEF Requests, HandleConnection, CreateNewGroup, AddUserToGroup, LeaveGroup, Issue, At
<1>3. OneSlot(s) /\ call'[s].pc # "lv_delete"
  <2>1. ASSUME NEW k \in Sockets, NEW u \in Users, HandleConnection(s, k, u)
        PROVE  OneSlot(s) /\ call'[s].pc # "lv_delete"
    BY <1>1, <2>1 DEF HandleConnection, OneSlot, TypeOK, CallType, HistType, NoCall
  <2>2. ASSUME NEW u \in Users, CreateNewGroup(s, u)
        PROVE  OneSlot(s) /\ call'[s].pc # "lv_delete"
    BY <1>1, <2>2 DEF CreateNewGroup, Await, OneSlot, TypeOK, HistType, NoCall
  <2>3. ASSUME NEW by \in Users, NEW u \in Users, NEW g \in Groups,
               AddUserToGroup(s, by, u, g)
        PROVE  OneSlot(s) /\ call'[s].pc # "lv_delete"
    BY <1>1, <2>3 DEF AddUserToGroup, Await, OneSlot, TypeOK, HistType, NoCall
  <2>4. ASSUME NEW u \in Users, NEW g \in Groups, LeaveGroup(s, u, g)
        PROVE  OneSlot(s) /\ call'[s].pc # "lv_delete"
    BY <1>1, <2>4 DEF LeaveGroup, Await, OneSlot, TypeOK, HistType, NoCall
  <2>5. QED
    BY <2>1, <2>2, <2>3, <2>4 DEF Requests
<1>4. QED
  BY <1>2, <1>3, QuietStep DEF Emptying

LEMMA ContinueOrphan ==
  ASSUME OrphanInv, NEW s \in Slots, Continue(s)
  PROVE  NoOrphans' /\ DeletedGone'
<1> DEFINE c == call[s]
           Then(pc) == [c EXCEPT !.pc = pc, !.ran = FALSE]
<1>1. TypeOK /\ c \in CallType
  BY StateTyped DEF OrphanInv
<1>2. UNCHANGED <<rows, status>>
  BY DEF Continue, RoomsJoined, GroupCreated, AccessChecked, UserFound, UserAdded,
         Left, Counted, GroupDeleted
<1>3. NoCall.pc = "idle"
  BY DEF NoCall
<1>4. \A pc \in {"add_upsert", "lv_count", "lv_delete"} : Then(pc) \in CallType
  BY <1>1 DEF CallType, Pcs
<1>5. CASE RoomsJoined(s) \/ GroupCreated(s) \/ UserAdded(s)
  BY <1>1, <1>2, <1>3, <1>5, ReturnSlot, QuietStep
     DEF RoomsJoined, GroupCreated, UserAdded, Resumes, At, Emptying
<1>6. CASE AccessChecked(s)
  <2>1. [c EXCEPT !.pc = "add_find"] \in CallType
    BY <1>1 DEF CallType, Pcs
  <2>2. OneSlot(s) /\ call'[s].pc # "lv_delete"
    BY <1>1, <1>3, <1>6, <2>1, AwaitSlot, ReturnSlot DEF AccessChecked, CallType
  <2>3. QED
    BY <1>2, <1>6, <2>2, QuietStep DEF AccessChecked, Resumes, At, Emptying
<1>7. CASE UserFound(s)
  <2>1. Then("add_upsert") \in CallType /\ Then("add_upsert").pc = "add_upsert"
    BY <1>1, <1>4 DEF CallType
  <2>2. Return(s) \/ Await(s, Then("add_upsert"))
    BY <1>7 DEF UserFound
  <2> HIDE DEF Then
  <2>3. OneSlot(s) /\ call'[s].pc # "lv_delete"
    BY <1>1, <1>3, <2>1, <2>2, AwaitSlot, ReturnSlot
  <2>4. QED
    BY <1>2, <1>7, <2>3, QuietStep DEF UserFound, Resumes, At, Emptying
<1>8. CASE Left(s)
  <2>1. CASE ~c.ok
    BY <1>1, <1>2, <1>3, <1>8, <2>1, ReturnSlot, QuietStep DEF Left, Resumes, At, Emptying
  <2>2. CASE c.ok
    <3>1. OneSlot(s) /\ call'[s] = Then("lv_count")
      BY <1>1, <1>4, <1>8, <2>2, AwaitSlot DEF Left
    <3>2. \A g \in Groups : Held(s, g)
      BY <1>1, <1>2, <1>8, <3>1 DEF Left, Resumes, At, Held, Emptying, MembersOf, CallType
    <3>3. NoOrphans'
      BY <1>2, <3>1, <3>2, HeldKept DEF OrphanInv
    <3>4. DeletedGone'
      <4>1. ~call'[s].ran
        BY <1>1, <3>1 DEF CallType
      <4>2. QED
        BY <1>2, <3>1, <4>1 DEF OrphanInv, DeletedGone, OneSlot
    <3>5. QED
      BY <3>3, <3>4
  <2>3. QED
    BY <2>1, <2>2
<1>9. CASE Counted(s)
  <2>1. CASE c.ok
    BY <1>1, <1>2, <1>3, <1>9, <2>1, ReturnSlot, QuietStep
       DEF Counted, Resumes, At, Emptying
  <2>2. CASE ~c.ok
    <3>1. OneSlot(s) /\ call'[s] = Then("lv_delete")
      BY <1>1, <1>4, <1>9, <2>2, AwaitSlot DEF Counted
    <3>2. \A g \in Groups : Held(s, g)
      BY <1>1, <1>2, <1>9, <3>1 DEF Counted, Resumes, At, Held, Emptying, MembersOf, CallType
    <3>3. NoOrphans'
      BY <1>2, <3>1, <3>2, HeldKept DEF OrphanInv
    <3>4. DeletedGone'
      <4>1. ~call'[s].ran
        BY <1>1, <3>1 DEF CallType
      <4>2. QED
        BY <1>2, <3>1, <4>1 DEF OrphanInv, DeletedGone, OneSlot
    <3>5. QED
      BY <3>3, <3>4
  <2>3. QED
    BY <2>1, <2>2
<1>10. CASE GroupDeleted(s)
  <2>1. OneSlot(s) /\ call'[s] = NoCall
    BY <1>1, <1>10, ReturnSlot DEF GroupDeleted
  <2>2. c.pc = "lv_delete" /\ status[c.g] = "gone"
    BY <1>10 DEF GroupDeleted, Resumes, At, OrphanInv, DeletedGone
  <2>3. \A g \in Groups : status[g] = "live" => Held(s, g)
    BY <1>2, <2>2 DEF Held, Emptying, MembersOf
  <2>4. NoOrphans'
    BY <1>2, <2>1, <2>3, HeldKept DEF OrphanInv
  <2>5. DeletedGone'
    BY <1>2, <1>3, <2>1 DEF OrphanInv, DeletedGone, OneSlot
  <2>6. QED
    BY <2>4, <2>5
<1>11. QED
  BY <1>5, <1>6, <1>7, <1>8, <1>9, <1>10 DEF Continue

LEMMA EffectOrphan ==
  ASSUME OrphanInv, NEW s \in Slots, Effect(s)
  PROVE  NoOrphans' /\ DeletedGone'
<1> DEFINE c == call[s]
<1>1. TypeOK /\ c \in CallType /\ CallOK(c)
  BY StateTyped DEF OrphanInv
<1>2. CASE CommitMemberships(s)
  <2>1. OneSlot(s) /\ call'[s].pc = "con_rows" /\ c.pc = "con_rows"
    BY <1>1, <1>2 DEF CommitMemberships, Commit, At, OneSlot, TypeOK, CallType
  <2>2. QED
    BY <1>2, <2>1, QuietStep DEF CommitMemberships, Emptying
<1>3. CASE CommitCreate(s)
  <2>1. PICK g \in Groups :
          /\ status[g] = "none" /\ status' = [status EXCEPT ![g] = "live"]
          /\ rows' = rows \cup {<<c.user, g>>}
          /\ call' = [call EXCEPT ![s].ran = TRUE, ![s].g = g]
    BY <1>3 DEF CommitCreate
  <2>2. OneSlot(s) /\ call'[s].pc = "cr_group" /\ c.pc = "cr_group"
    BY <1>1, <1>3, <2>1 DEF CommitCreate, Commit, At, OneSlot, TypeOK, CallType
  <2>3. c.user \in MembersOf(g)'
    BY <1>1, <2>1, <2>2 DEF CallOK, MembersOf
  <2>4. \A h \in Groups : MembersOf(h) # {} => MembersOf(h)' # {}
    BY <2>1 DEF MembersOf
  <2>5. \A h \in Groups : status'[h] = "live" =>
          \/ status[h] = "live" /\ Held(s, h)
          \/ MembersOf(h)' # {}
    BY <1>1, <2>1, <2>2, <2>3, <2>4 DEF TypeOK, Held, Emptying
  <2>6. NoOrphans'
    BY <2>2, <2>5, HeldKept DEF OrphanInv
  <2>7. DeletedGone'
    <3> SUFFICES ASSUME NEW t \in Slots, call'[t].pc = "lv_delete", call'[t].ran
                 PROVE  status'[call'[t].g] = "gone"
      BY DEF DeletedGone
    <3>1. call'[t] = call[t] /\ status[call[t].g] = "gone"
      BY <2>2 DEF OrphanInv, DeletedGone, OneSlot
    <3>2. call[t].g \in Groups
      BY <1>1, <3>1, StateTyped DEF CallOK
    <3>3. QED
      BY <1>1, <2>1, <3>1, <3>2 DEF TypeOK
  <2>8. QED
    BY <2>6, <2>7
<1>4. CASE CommitAccess(s)
  <2> DEFINE ok == <<c.by, c.g>> \in rows
  <2>1. Answer(s, ok) /\ UNCHANGED <<hist, rows, status>> /\ c.pc = "add_check"
    BY <1>4 DEF CommitAccess, Commit, At
  <2> HIDE DEF ok
  <2>2. OneSlot(s) /\ call'[s].pc = "add_check"
    BY <1>1, <2>1, AnswerSlot DEF CallType
  <2>3. QED
    BY <2>1, <2>2, QuietStep DEF Emptying
<1>5. CASE CommitUpsert(s)
  <2> DEFINE ok == status[c.g] = "live"
  <2>1. Answer(s, ok) /\ UNCHANGED <<hist, status>> /\ c.pc = "add_upsert"
    BY <1>5 DEF CommitUpsert, Commit, At
  <2> HIDE DEF ok
  <2>2. OneSlot(s) /\ call'[s].pc = "add_upsert"
    BY <1>1, <2>1, AnswerSlot DEF CallType
  <2>3. \A h \in Groups : Held(s, h)
    BY <1>5, <2>1 DEF CommitUpsert, Held, Emptying, MembersOf
  <2>4. NoOrphans'
    BY <2>1, <2>2, <2>3, HeldKept DEF OrphanInv
  <2>5. DeletedGone'
    BY <2>1, <2>2 DEF OrphanInv, DeletedGone, OneSlot
  <2>6. QED
    BY <2>4, <2>5
<1>6. CASE CommitLeave(s)
  <2> DEFINE p == <<c.user, c.g>>
             ok == p \in rows
  <2>1. /\ Answer(s, ok) /\ UNCHANGED <<hist, status>> /\ c.pc = "lv_rows" /\ ~c.ran
        /\ rows' = rows \ {p}
    BY <1>6 DEF CommitLeave, Commit, At
  <2> HIDE DEF ok
  <2>2. OneSlot(s) /\ call'[s] = [c EXCEPT !.ran = TRUE, !.ok = ok]
    BY <1>1, <2>1, AnswerSlot
  <2>3. [c EXCEPT !.ran = TRUE, !.ok = ok].ok = ok
    BY <1>1 DEF CallType
  <2>4. /\ OneSlot(s) /\ call'[s].pc = "lv_rows" /\ call'[s].g = c.g
        /\ call'[s].ran /\ call'[s].ok = ok
    BY <1>1, <2>1, <2>2, <2>3 DEF CallType
  <2>5. ASSUME NEW h \in Groups PROVE Held(s, h)
    <3>1. CASE h = c.g /\ p \in rows
      <4>1. ok
        BY <3>1 DEF ok
      <4>2. QED
        BY <2>4, <3>1, <4>1 DEF Held, Emptying
    <3>2. CASE ~(h = c.g /\ p \in rows)
      BY <2>1, <3>2 DEF Held, Emptying, MembersOf
    <3>3. QED
      BY <3>1, <3>2
  <2>6. NoOrphans'
    BY <2>1, <2>4, <2>5, HeldKept DEF OrphanInv
  <2>7. DeletedGone'
    BY <2>1, <2>4 DEF OrphanInv, DeletedGone, OneSlot
  <2>8. QED
    BY <2>6, <2>7
<1>7. CASE CommitCount(s)
  <2> DEFINE ok == MembersOf(c.g) # {}
  <2>1. /\ Answer(s, ok) /\ UNCHANGED <<hist, rows, status>>
        /\ c.pc = "lv_count" /\ ~c.ran
    BY <1>7 DEF CommitCount, Commit, At
  <2> HIDE DEF ok
  <2>2. OneSlot(s) /\ call'[s] = [c EXCEPT !.ran = TRUE, !.ok = ok]
    BY <1>1, <2>1, AnswerSlot
  <2>3. [c EXCEPT !.ran = TRUE, !.ok = ok].ok = ok
    BY <1>1 DEF CallType
  <2>4. /\ OneSlot(s) /\ call'[s].pc = "lv_count" /\ call'[s].g = c.g
        /\ call'[s].ok = ok
    BY <1>1, <2>1, <2>2, <2>3 DEF CallType
  <2>5. ASSUME NEW h \in Groups PROVE Held(s, h)
    <3>1. CASE MembersOf(h) # {}
      BY <2>1, <3>1 DEF Held, MembersOf
    <3>2. CASE MembersOf(h) = {} /\ Emptying(c, h)
      <4>1. ~ok
        BY <2>1, <3>2 DEF ok, Emptying
      <4>2. QED
        BY <2>1, <2>4, <3>2, <4>1 DEF Held, Emptying
    <3>3. QED
      BY <3>1, <3>2 DEF Held
  <2>6. NoOrphans'
    BY <2>1, <2>4, <2>5, HeldKept DEF OrphanInv
  <2>7. DeletedGone'
    BY <2>1, <2>4 DEF OrphanInv, DeletedGone, OneSlot
  <2>8. QED
    BY <2>6, <2>7
<1>8. CASE CommitDelete(s)
  <2> DEFINE ok == status[c.g] = "live"
  <2>1. /\ Answer(s, ok) /\ UNCHANGED hist /\ c.pc = "lv_delete"
        /\ status' = [status EXCEPT ![c.g] = "gone"]
        /\ rows' = {p \in rows : p[2] # c.g}
    BY <1>8 DEF CommitDelete, Commit, At
  <2> HIDE DEF ok
  <2>2. OneSlot(s) /\ call'[s].pc = "lv_delete" /\ call'[s].g = c.g
    BY <1>1, <2>1, AnswerSlot DEF CallType
  <2>3. c.g \in Groups
    BY <1>1, <2>1 DEF CallOK
  <2>4. \A h \in Groups : status'[h] = "live" => status[h] = "live" /\ Held(s, h)
    BY <1>1, <2>1, <2>3 DEF TypeOK, Held, Emptying, MembersOf
  <2>5. NoOrphans'
    BY <2>2, <2>4, HeldKept DEF OrphanInv
  <2>6. DeletedGone'
    <3> SUFFICES ASSUME NEW t \in Slots, call'[t].pc = "lv_delete", call'[t].ran
                 PROVE  status'[call'[t].g] = "gone"
      BY DEF DeletedGone
    <3>1. CASE t = s
      BY <1>1, <2>1, <2>2, <2>3, <3>1 DEF TypeOK
    <3>2. CASE t # s
      <4>1. call'[t] = call[t] /\ status[call[t].g] = "gone" /\ call[t].g \in Groups
        BY <1>1, <2>2, <3>2, StateTyped DEF OrphanInv, DeletedGone, OneSlot, CallOK
      <4>2. QED
        BY <1>1, <2>1, <4>1 DEF TypeOK
    <3>3. QED
      BY <3>1, <3>2
  <2>7. QED
    BY <2>5, <2>6
<1>9. QED
  BY <1>2, <1>3, <1>4, <1>5, <1>6, <1>7, <1>8 DEF Effect

LEMMA FailOrphan ==
  ASSUME OrphanInv, NEW s \in Slots, Fail(s)
  PROVE  NoOrphans' /\ DeletedGone'
<1> DEFINE c == call[s]
<1>1. TypeOK
  BY DEF OrphanInv
<1>2. /\ OneSlot(s) /\ call'[s] = NoCall /\ UNCHANGED <<rows, status>>
      /\ \A g \in Groups : c.g = g => g \in hist'.failed
  BY <1>1, NoneAssumption DEF Fail, OneSlot, TypeOK, HistType
<1>3. \A g \in Groups \ hist'.failed : Held(s, g)
  BY <1>2 DEF Held, Emptying, MembersOf
<1>4. NoOrphans'
  BY <1>2, <1>3, HeldKept DEF OrphanInv
<1>5. DeletedGone'
  BY <1>2 DEF OrphanInv, DeletedGone, OneSlot, NoCall
<1>6. QED
  BY <1>4, <1>5

LEMMA CrashOrphan ==
  ASSUME OrphanInv, Crash
  PROVE  NoOrphans' /\ DeletedGone'
<1>1. DeletedGone'
  BY DEF Crash, DeletedGone, NoCall
<1>2. /\ UNCHANGED <<rows, status>> /\ hist.failed \subseteq hist'.failed
      /\ \A t \in Slots, g \in Groups : call[t].g = g => g \in hist'.failed
  BY NoneAssumption DEF Crash, OrphanInv, TypeOK, HistType
<1>3. NoOrphans'
  BY <1>2 DEF OrphanInv, NoOrphans, Emptying, MembersOf
<1>4. QED
  BY <1>1, <1>3

LEMMA NextOrphan == OrphanInv /\ [Next]_vars => NoOrphans' /\ DeletedGone'
<1> SUFFICES ASSUME OrphanInv, [Next]_vars PROVE NoOrphans' /\ DeletedGone'
  OBVIOUS
<1>1. CASE UNCHANGED vars
  BY <1>1 DEF vars, OrphanInv, NoOrphans, DeletedGone, Emptying, MembersOf
<1>2. ASSUME NEW k \in Sockets, HandleDisconnect(k) PROVE NoOrphans' /\ DeletedGone'
  BY <1>2 DEF HandleDisconnect, OrphanInv, NoOrphans, DeletedGone, Emptying, MembersOf
<1>3. QED
  BY <1>1, <1>2, RequestsOrphan, ContinueOrphan, EffectOrphan, FailOrphan, CrashOrphan
     DEF Next

\* A live group without members has a handler that will delete it, whatever
\* leaves at once, unless a handler of it failed (GroupService.leaveGroup).
THEOREM OrphansDeleted == Spec => []NoOrphans
<1>1. Init => NoOrphans /\ DeletedGone
  BY DEF Init, NoOrphans, DeletedGone, NoCall
<1>2. QED
  BY <1>1, NextOrphan, TypeCorrect, PTL DEF Spec, OrphanInv

-----------------------------------------------------------------------------
(* A group that somebody is in is not deleted.  The count that a handler     *)
(* deletes on may be stale only if somebody was being added meanwhile.       *)

Deciding == {"add_check", "add_find", "add_upsert", "lv_rows", "lv_count", "lv_delete"}

\* c has counted nobody and has not deleted the group yet.
Doomed(c) ==
  \/ c.pc = "lv_count" /\ c.ran /\ ~c.ok
  \/ c.pc = "lv_delete" /\ ~c.ran

Judged(c) ==
  /\ c.pc \in Deciding => status[c.g] # "none"
  /\ Doomed(c) /\ status[c.g] = "live" => MembersOf(c.g) = {} \/ c.g \in hist.contested

KeptInv ==
  /\ TypeOK
  /\ \A s \in Slots : Judged(call[s])
  /\ \A s, t \in Slots : Contests(call[s], call[t]) => call[t].g \in hist.contested

\* A step of slot s takes no group back, and adds members only by its upsert.
Steady(s) ==
  \A g \in Groups : status[g] # "none" =>
    /\ status'[g] # "none" /\ (status'[g] = "live" => status[g] = "live")
    /\ \/ MembersOf(g)' \subseteq MembersOf(g)
       \/ call[s].pc = "add_upsert" /\ call[s].g = g

\* The other slots stay, and the groups contested stay so.
OneJudged(s) ==
  /\ \A t \in Slots \ {s} : call'[t] = call[t]
  /\ hist.contested \subseteq hist'.contested
  /\ \A t \in Slots \ {s} :
       Contests(call'[s], call[t]) => call[t].g \in hist'.contested

LEMMA JudgedStep ==
  ASSUME KeptInv, TypeOK', NEW s \in Slots, OneJudged(s), Steady(s), Judged(call[s])'
  PROVE  KeptInv'
<1>1. ASSUME NEW t \in Slots \ {s} PROVE Judged(call[t])'
  <2> PICK g : g = call[t].g
    OBVIOUS
  <2>1. call'[t] = call[t] /\ Judged(call[t]) /\ CallOK(call[t])
    BY <1>1, StateTyped DEF OneJudged, KeptInv
  <2>2. CASE call[t].pc \notin Deciding
    BY <2>1, <2>2 DEF Judged, Doomed, Deciding
  <2>3. CASE call[t].pc \in Deciding
    <3>1. g \in Groups /\ status[g] # "none" /\ status'[g] # "none"
      BY <2>1, <2>3 DEF Judged, CallOK, Deciding, Steady
    <3>2. ASSUME Doomed(call[t]), status'[g] = "live"
          PROVE  MembersOf(g)' = {} \/ g \in hist'.contested
      <4>1. MembersOf(g) = {} \/ g \in hist.contested
        BY <2>1, <3>1, <3>2 DEF Judged, Steady
      <4>2. CASE MembersOf(g)' \subseteq MembersOf(g)
        BY <4>1, <4>2 DEF OneJudged
      <4>3. CASE call[s].pc = "add_upsert" /\ call[s].g = g
        <5>1. Contests(call[s], call[t])
          BY <3>2, <4>3 DEF Contests, Pair, Doomed
        <5>2. g \in hist.contested
          BY <1>1, <5>1 DEF KeptInv
        <5>3. QED
          BY <5>2 DEF OneJudged
      <4>4. QED
        BY <3>1, <4>2, <4>3 DEF Steady
    <3>3. QED
      BY <2>1, <3>1, <3>2 DEF Judged, MembersOf
  <2>4. QED
    BY <2>2, <2>3
<1>2. ASSUME NEW t \in Slots, NEW r \in Slots, Contests(call'[t], call'[r])
      PROVE  call'[r].g \in hist'.contested
  <2>1. CASE t # s /\ r # s
    BY <1>2, <2>1 DEF OneJudged, KeptInv
  <2>2. CASE t = s /\ r # s
    BY <1>2, <2>2 DEF OneJudged
  <2>3. CASE t # s /\ r = s
    <3>1. Contests(call'[s], call[t]) /\ call'[s].g = call[t].g
      BY <1>2, <2>3 DEF OneJudged, Contests, Pair
    <3>2. QED
      BY <2>3, <3>1 DEF OneJudged
  <2>4. CASE t = s /\ r = s
    BY <1>2, <2>4 DEF Contests, Pair
  <2>5. QED
    BY <2>1, <2>2, <2>3, <2>4
<1>3. QED
  BY <1>1, <1>2 DEF KeptInv

LEMMA AwaitJudged ==
  ASSUME TypeOK, NEW s \in Slots, NEW c \in CallType, Await(s, c)
  PROVE  OneJudged(s) /\ call'[s] = c
<1> DEFINE C == {d.g : d \in {e \in Others(s) : Contests(c, e)}}
<1>1. /\ \A t \in Slots \ {s} : call'[t] = call[t]
      /\ call'[s] = c
  BY DEF TypeOK, Await
<1>2. hist'.contested = hist.contested \cup C
  BY DEF TypeOK, HistType, Await
<1>3. ASSUME NEW t \in Slots \ {s}, Contests(c, call[t]) PROVE call[t].g \in C
  BY <1>3 DEF Others
<1>4. QED
  BY <1>1, <1>2, <1>3 DEF OneJudged

LEMMA ReturnJudged ==
  ASSUME TypeOK, NEW s \in Slots, Return(s)
  PROVE  OneJudged(s) /\ Judged(call[s])'
<1>1. call'[s] = NoCall /\ (\A t \in Slots \ {s} : call'[t] = call[t]) /\ hist' = hist
  BY DEF TypeOK, Return
<1>2. QED
  BY <1>1 DEF OneJudged, Judged, Deciding, Doomed, Contests, Pair, NoCall

\* A slot that stays where it is interferes with no more than before.
LEMMA SameJudged ==
  ASSUME KeptInv, NEW s \in Slots, UNCHANGED hist,
         \A t \in Slots \ {s} : call'[t] = call[t],
         call'[s].pc = call[s].pc, call'[s].g = call[s].g \/ call[s].pc = "cr_group"
  PROVE  OneJudged(s)
BY DEF KeptInv, OneJudged, Contests, Pair

LEMMA RequestsKept ==
  ASSUME KeptInv, NEW s \in Slots, Requests(s)
  PROVE  KeptInv'
<1>1. TypeOK /\ TypeOK'
  BY RequestsTyped DEF KeptInv
<1>2. Steady(s)
  BY DEF Requests, HandleConnection, CreateNewGroup, AddUserToGroup, LeaveGroup,
         Steady, MembersOf
<1>3. OneJudged(s) /\ Judged(call[s])'
  <2>1. ASSUME NEW k \in Sockets, NEW u \in Users, HandleConnection(s, k, u)
        PROVE  OneJudged(s) /\ Judged(call[s])'
    <3>1. call'[s].pc = "con_rows" /\ (\A t \in Slots \ {s} : call'[t] = call[t])
      BY <1>1, <2>1 DEF HandleConnection, TypeOK, NoCall
    <3>2. hist'.contested = hist.contested
      BY <1>1, <2>1 DEF HandleConnection, TypeOK, HistType
    <3>3. QED
      BY <3>1, <3>2 DEF OneJudged, Judged, Deciding, Doomed, Contests, Pair
  <2>2. ASSUME NEW u \in Users, CreateNewGroup(s, u)
        PROVE  OneJudged(s) /\ Judged(call[s])'
    <3> DEFINE c == [NoCall EXCEPT !.pc = "cr_group", !.user = u]
    <3>1. c \in CallType /\ c.pc = "cr_group"
      BY DEF NoCall, CallType, Pcs, Maybe
    <3>2. Await(s, c)
      BY <2>2 DEF CreateNewGroup
    <3> HIDE DEF c
    <3>3. QED
      BY <1>1, <3>1, <3>2, AwaitJudged DEF Judged, Deciding, Doomed
  <2>3. ASSUME NEW by \in Users, NEW u \in Users, NEW g \in Groups,
               AddUserToGroup(s, by, u, g)
        PROVE  OneJudged(s) /\ Judged(call[s])'
    <3> DEFINE c == [NoCall EXCEPT !.pc = "add_check", !.by = by, !.user = u, !.g = g]
    <3>1. c \in CallType /\ c.pc = "add_check" /\ c.g = g
      BY DEF NoCall, CallType, Pcs, Maybe
    <3>2. Await(s, c) /\ status'[g] # "none"
      BY <2>3 DEF AddUserToGroup
    <3> HIDE DEF c
    <3>3. QED
      BY <1>1, <3>1, <3>2, AwaitJudged DEF Judged, Deciding, Doomed
  <2>4. ASSUME NEW u \in Users, NEW g \in Groups, LeaveGroup(s, u, g)
        PROVE  OneJudged(s) /\ Judged(call[s])'
    <3> DEFINE c == [NoCall EXCEPT !.pc = "lv_rows", !.user = u, !.g = g]
    <3>1. c \in CallType /\ c.pc = "lv_rows" /\ c.g = g
      BY DEF NoCall, CallType, Pcs, Maybe
    <3>2. Await(s, c) /\ status'[g] # "none"
      BY <2>4 DEF LeaveGroup
    <3> HIDE DEF c
    <3>3. QED
      BY <1>1, <3>1, <3>2, AwaitJudged DEF Judged, Deciding, Doomed
  <2>5. QED
    BY <2>1, <2>2, <2>3, <2>4 DEF Requests
<1>4. QED
  BY <1>1, <1>2, <1>3, JudgedStep

LEMMA ContinueKept ==
  ASSUME KeptInv, NEW s \in Slots, Continue(s)
  PROVE  KeptInv'
<1> DEFINE c == call[s]
           Then(pc) == [c EXCEPT !.pc = pc, !.ran = FALSE]
<1>1. TypeOK /\ TypeOK' /\ c \in CallType /\ Judged(c)
  BY StateTyped, ContinueTyped DEF KeptInv
<1>2. UNCHANGED <<rows, status>>
  BY DEF Continue, RoomsJoined, GroupCreated, AccessChecked, UserFound, UserAdded,
         Left, Counted, GroupDeleted
<1>3. Steady(s)
  BY <1>2 DEF Steady, MembersOf
<1>4. ASSUME NEW pc \in Pcs
      PROVE  Then(pc) \in CallType /\ Then(pc).pc = pc /\ Then(pc).g = c.g /\ ~Then(pc).ran
  BY <1>1 DEF CallType
<1> HIDE DEF Then
<1>5. ASSUME NEW pc \in {"add_upsert", "lv_count"}, c.pc \in Deciding, Await(s, Then(pc))
      PROVE  OneJudged(s) /\ Judged(call[s])'
  BY <1>1, <1>2, <1>4, <1>5, AwaitJudged DEF Judged, Doomed, Pcs
<1>6. OneJudged(s) /\ Judged(call[s])'
  <2>1. CASE Return(s)
    BY <1>1, <2>1, ReturnJudged
  <2>2. CASE AccessChecked(s) /\ ~Return(s)
    <3>1. Await(s, [c EXCEPT !.pc = "add_find"]) /\ c.pc = "add_check"
      BY <2>2 DEF AccessChecked, Resumes, At
    <3>2. /\ [c EXCEPT !.pc = "add_find"] \in CallType
          /\ [c EXCEPT !.pc = "add_find"].pc = "add_find"
          /\ [c EXCEPT !.pc = "add_find"].g = c.g
      BY <1>1 DEF CallType, Pcs
    <3>3. QED
      BY <1>1, <1>2, <3>1, <3>2, AwaitJudged DEF Judged, Deciding, Doomed
  <2>3. CASE UserFound(s) /\ ~Return(s)
    BY <1>5, <2>3 DEF UserFound, Resumes, At, Then, Deciding
  <2>4. CASE Left(s) /\ ~Return(s)
    BY <1>5, <2>4 DEF Left, Resumes, At, Then, Deciding
  <2>5. CASE Counted(s) /\ ~Return(s)
    <3>1. Await(s, Then("lv_delete")) /\ Doomed(c) /\ c.pc \in Deciding
      BY <2>5 DEF Counted, Resumes, At, Then, Deciding, Doomed
    <3>2. hist.contested \subseteq hist'.contested /\ OneJudged(s)
          /\ call'[s] = Then("lv_delete")
      BY <1>1, <1>4, <3>1, AwaitJudged DEF OneJudged, Pcs
    <3>3. QED
      BY <1>1, <1>2, <1>4, <3>1, <3>2 DEF Judged, MembersOf, Pcs
  <2>6. QED
    BY <2>1, <2>2, <2>3, <2>4, <2>5
       DEF Continue, RoomsJoined, GroupCreated, UserAdded, GroupDeleted
<1>7. QED
  BY <1>1, <1>3, <1>6, JudgedStep

LEMMA EffectKept ==
  ASSUME KeptInv, NEW s \in Slots, Effect(s)
  PROVE  KeptInv'
<1> DEFINE c == call[s]
<1>1. TypeOK /\ TypeOK' /\ c \in CallType /\ CallOK(c) /\ Judged(c)
  BY StateTyped, EffectTyped DEF KeptInv
<1>2. UNCHANGED hist
  BY DEF Effect, CommitMemberships, CommitCreate, CommitAccess, CommitUpsert,
         CommitLeave, CommitCount, CommitDelete, Commit
<1>3. /\ \A t \in Slots \ {s} : call'[t] = call[t]
      /\ call'[s].pc = c.pc /\ (call'[s].g = c.g \/ c.pc = "cr_group")
      /\ call'[s].ran
  BY <1>1 DEF Effect, CommitMemberships, CommitCreate, CommitAccess, CommitUpsert,
         CommitLeave, CommitCount, CommitDelete, Commit, At, Answer, TypeOK, CallType
<1>4. OneJudged(s)
  BY <1>2, <1>3, SameJudged
<1>5. Steady(s)
  <2>1. CASE CommitMemberships(s) \/ CommitAccess(s) \/ CommitCount(s)
    BY <2>1 DEF CommitMemberships, CommitAccess, CommitCount, Steady, MembersOf
  <2>2. CASE CommitCreate(s)
    BY <1>1, <2>2 DEF CommitCreate, Steady, MembersOf, TypeOK
  <2>3. CASE CommitUpsert(s)
    BY <2>3 DEF CommitUpsert, Commit, At, Steady, MembersOf
  <2>4. CASE CommitLeave(s)
    BY <2>4 DEF CommitLeave, Steady, MembersOf
  <2>5. CASE CommitDelete(s)
    BY <1>1, <2>5 DEF CommitDelete, Steady, MembersOf, TypeOK
  <2>6. QED
    BY <2>1, <2>2, <2>3, <2>4, <2>5 DEF Effect
<1>6. Judged(call[s])'
  <2>1. call'[s].pc \in Deciding => status'[call'[s].g] # "none"
    BY <1>1, <1>3, <1>5 DEF Judged, Steady, CallOK, Deciding
  <2>2. Doomed(call'[s]) => call'[s].pc = "lv_count" /\ ~call'[s].ok
    BY <1>3 DEF Doomed
  <2>3. CASE CommitCount(s)
    <3> DEFINE ok == MembersOf(c.g) # {}
    <3>1. Answer(s, ok) /\ UNCHANGED rows
      BY <2>3 DEF CommitCount
    <3>2. [c EXCEPT !.ran = TRUE, !.ok = ok].ok = ok
      BY <1>1 DEF CallType
    <3> HIDE DEF ok
    <3>3. call'[s].ok = ok /\ call'[s].g = c.g
      BY <1>1, <1>2, <3>1, <3>2, AnswerSlot DEF CallType
    <3>4. ~call'[s].ok => MembersOf(call[s].g)' = {}
      BY <3>1, <3>3 DEF ok, MembersOf
    <3>5. QED
      BY <2>1, <2>2, <3>4 DEF Judged
  <2>4. CASE ~CommitCount(s)
    <3>1. call'[s].pc # "lv_count"
      BY <1>3, <2>4 DEF Effect, CommitMemberships, CommitCreate, CommitAccess,
                        CommitUpsert, CommitLeave, CommitDelete, Commit, At
    <3>2. QED
      BY <2>1, <2>2, <3>1 DEF Judged
  <2>5. QED
    BY <2>3, <2>4
<1>7. QED
  BY <1>1, <1>4, <1>5, <1>6, JudgedStep

LEMMA FailKept ==
  ASSUME KeptInv, NEW s \in Slots, Fail(s)
  PROVE  KeptInv'
<1>1. TypeOK /\ TypeOK'
  BY FailTyped DEF KeptInv
<1>2. /\ call'[s] = NoCall /\ (\A t \in Slots \ {s} : call'[t] = call[t])
      /\ hist'.contested = hist.contested /\ UNCHANGED <<rows, status>>
  BY <1>1 DEF Fail, TypeOK, HistType
<1>3. OneJudged(s) /\ Judged(call[s])' /\ Steady(s)
  BY <1>2 DEF OneJudged, Judged, Deciding, Doomed, Contests, Pair, NoCall, Steady, MembersOf
<1>4. QED
  BY <1>1, <1>3, JudgedStep

LEMMA InitKept == Init /\ TypeOK => KeptInv
<1>1. Init => Judged(NoCall) /\ \A s \in Slots : call[s] = NoCall
  BY DEF Init, Judged, Deciding, Doomed, NoCall
<1>2. QED
  BY <1>1 DEF KeptInv, Contests, Pair, NoCall

LEMMA NextKept == KeptInv /\ [Next]_vars => KeptInv'
<1> SUFFICES ASSUME KeptInv, [Next]_vars PROVE KeptInv'
  OBVIOUS
<1>1. CASE UNCHANGED vars
  BY <1>1 DEF vars, KeptInv, TypeOK, Judged, MembersOf
<1>2. ASSUME NEW k \in Sockets, HandleDisconnect(k) PROVE KeptInv'
  <2>1. TypeOK'
    BY <1>2, HandleDisconnectTyped DEF KeptInv
  <2>2. QED
    BY <1>2, <2>1 DEF HandleDisconnect, KeptInv, Judged, MembersOf
<1>3. CASE Crash
  <2>1. TypeOK' /\ \A s \in Slots : call'[s] = NoCall
    BY <1>3, CrashTyped DEF KeptInv, Crash
  <2>2. QED
    BY <2>1 DEF KeptInv, Judged, Deciding, Doomed, Contests, Pair, NoCall
<1>4. QED
  BY <1>1, <1>2, <1>3, RequestsKept, ContinueKept, EffectKept, FailKept DEF Next

\* A group somebody is in is deleted only if that somebody was being added
\* while the others were leaving (GroupService.leaveGroup, addUserToGroup).
THEOREM InhabitedGroupsKept == Spec => InhabitedKept
<1> DEFINE Kept == \A g \in Groups :
                     status[g] = "live" /\ status'[g] = "gone" =>
                       MembersOf(g) = {} \/ g \in hist.contested
<1>1. KeptInv /\ [Next]_vars => [Kept]_vars
  <2> SUFFICES ASSUME KeptInv, [Next]_vars, NEW g \in Groups,
                      status[g] = "live", status'[g] = "gone"
               PROVE  MembersOf(g) = {} \/ g \in hist.contested
    OBVIOUS
  <2>1. PICK s \in Slots : CommitDelete(s)
    <3>1. TypeOK
      BY DEF KeptInv
    <3>2. ASSUME NEW s \in Slots, CommitCreate(s) PROVE FALSE
      BY <3>1, <3>2 DEF CommitCreate, TypeOK
    <3>3. QED
      BY <3>2 DEF Next, vars, Requests, HandleConnection, CreateNewGroup, AddUserToGroup,
           LeaveGroup, Continue, RoomsJoined, GroupCreated, AccessChecked, UserFound,
           UserAdded, Left, Counted, GroupDeleted, Effect, CommitMemberships,
           CommitAccess, CommitUpsert, CommitLeave, CommitCount, Fail,
           HandleDisconnect, Crash
  <2>2. g = call[s].g
    BY <2>1 DEF CommitDelete, KeptInv, TypeOK
  <2>3. Doomed(call[s])
    BY <2>1 DEF CommitDelete, Commit, At, Doomed
  <2>4. QED
    BY <2>2, <2>3 DEF KeptInv, Judged
<1>2. QED
  BY <1>1, InitKept, NextKept, TypeCorrect, PTL DEF Spec, InhabitedKept

-----------------------------------------------------------------------------
(* What a step of one slot may do, other than the connection of a socket.    *)

SlotStep(s) ==
  \/ \E u \in Users : CreateNewGroup(s, u)
  \/ \E by, u \in Users, g \in Groups : AddUserToGroup(s, by, u, g)
  \/ \E u \in Users, g \in Groups : LeaveGroup(s, u, g)
  \/ Continue(s) \/ Effect(s) \/ Fail(s)

\* The other slots stay and the history grows.
Moves(s) ==
  /\ \A t \in Slots \ {s} : call'[t] = call[t]
  /\ hist.raced \subseteq hist'.raced /\ hist.ghosts \subseteq hist'.ghosts
  /\ hist.contested \subseteq hist'.contested /\ hist.failed \subseteq hist'.failed
  /\ UNCHANGED <<reg, latest>>

\* Of the handlers c and d, which Haunt each other, the one that leaves a group.
Leaver(c, d) == IF c.pc = "lv_rows" THEN c ELSE d

\* What slot s overlaps with is in the history.
Recorded(s) ==
  \A t \in Slots \ {s} :
    /\ Races(call'[s], call[t]) => <<call[t].user, call[t].g>> \in hist'.raced
    /\ Haunts(call'[s], call[t])
         => <<call[t].user, Leaver(call'[s], call[t]).g>> \in hist'.ghosts

Overlaps ==
  \A s, t \in Slots :
    /\ Races(call[s], call[t]) => <<call[t].user, call[t].g>> \in hist.raced
    /\ Haunts(call[s], call[t])
         => <<call[t].user, Leaver(call[s], call[t]).g>> \in hist.ghosts

LEMMA OverlapsStep ==
  ASSUME Overlaps, NEW s \in Slots, Moves(s), Recorded(s)
  PROVE  Overlaps'
<1> SUFFICES ASSUME NEW r \in Slots, NEW t \in Slots
             PROVE  /\ Races(call'[r], call'[t])
                         => <<call'[t].user, call'[t].g>> \in hist'.raced
                    /\ Haunts(call'[r], call'[t])
                         => <<call'[t].user, Leaver(call'[r], call'[t]).g>> \in hist'.ghosts
  BY DEF Overlaps, Races, Haunts, Leaver, Pair
<1>1. CASE r # s /\ t # s
  BY <1>1 DEF Overlaps, Moves
<1>2. CASE r = s /\ t # s
  BY <1>2 DEF Recorded, Moves
<1>3. CASE r # s /\ t = s
  <2>1. call'[r] = call[r]
    BY <1>3 DEF Moves
  <2>2. Races(call'[r], call'[s]) => Races(call'[s], call[r]) /\ call'[s].user = call[r].user
                                     /\ call'[s].g = call[r].g
    BY <2>1 DEF Races, Pair
  <2>3. Haunts(call'[r], call'[s]) =>
          /\ Haunts(call'[s], call[r]) /\ call'[s].user = call[r].user
          /\ Leaver(call'[r], call'[s]) = Leaver(call'[s], call[r])
    BY <2>1 DEF Haunts, Pair, Leaver
  <2>4. QED
    BY <1>3, <2>2, <2>3 DEF Recorded
<1>4. CASE r = s /\ t = s
  BY <1>4 DEF Races, Haunts, Pair
<1>5. QED
  BY <1>1, <1>2, <1>3, <1>4

LEMMA AwaitMoves ==
  ASSUME TypeOK, NEW s \in Slots, NEW c \in CallType, Await(s, c), UNCHANGED <<reg, latest>>
  PROVE  Moves(s) /\ Recorded(s) /\ call'[s] = c
<1> DEFINE R == {<<d.user, d.g>> : d \in {e \in Others(s) : Races(c, e)}}
           H == Ghosts(s, c)
           C == {d.g : d \in {e \in Others(s) : Contests(c, e)}}
<1>1. /\ \A t \in Slots \ {s} : call'[t] = call[t]
      /\ call'[s] = c
  BY DEF TypeOK, Await
<1>2. hist' = [hist EXCEPT !.raced = @ \cup R, !.ghosts = @ \cup H, !.contested = @ \cup C]
  BY DEF Await
<1>3. ASSUME NEW t \in Slots \ {s}, Races(c, call[t])
      PROVE  <<call[t].user, call[t].g>> \in R
  BY <1>3 DEF Others
<1>4. ASSUME NEW t \in Slots \ {s}, Haunts(c, call[t])
      PROVE  <<call[t].user, Leaver(c, call[t]).g>> \in H
  <2>1. call[t] \in Others(s) /\ c.user = call[t].user
    BY <1>4 DEF Others, Haunts
  <2>2. <<c.user, IF c.pc = "lv_rows" THEN c.g ELSE call[t].g>> \in H
    BY <1>4, <2>1 DEF Ghosts
  <2>3. QED
    BY <2>1, <2>2 DEF Leaver
<1> HIDE DEF R, H, C
<1>5. /\ hist'.raced = hist.raced \cup R /\ hist'.ghosts = hist.ghosts \cup H
      /\ hist'.contested = hist.contested \cup C /\ hist'.failed = hist.failed
  BY <1>2 DEF TypeOK, HistType
<1>6. Moves(s)
  BY <1>1, <1>5 DEF Moves
<1>7. Recorded(s)
  BY <1>1, <1>3, <1>4, <1>5 DEF Recorded
<1>8. QED
  BY <1>1, <1>6, <1>7

LEMMA ReturnMoves ==
  ASSUME TypeOK, NEW s \in Slots, Return(s), UNCHANGED <<reg, latest>>
  PROVE  Moves(s) /\ Recorded(s) /\ call'[s] = NoCall
<1>1. call'[s] = NoCall /\ (\A t \in Slots \ {s} : call'[t] = call[t]) /\ hist' = hist
  BY DEF TypeOK, Return
<1>2. QED
  BY <1>1 DEF Moves, Recorded, Races, Haunts, Pair, NoCall

\* A slot that stays where it is interferes with no more than before.
LEMMA SameMoves ==
  ASSUME Overlaps, NEW s \in Slots, UNCHANGED <<hist, reg, latest>>,
         \A t \in Slots \ {s} : call'[t] = call[t],
         call'[s].pc = call[s].pc, call'[s].user = call[s].user,
         \/ call'[s].g = call[s].g
         \/ \A t \in Slots \ {s} : ~Races(call'[s], call[t]),
         call[s].pc = "lv_rows" => call'[s].g = call[s].g
  PROVE  Moves(s) /\ Recorded(s)
<1>1. Moves(s)
  BY DEF Moves
<1>2. ASSUME NEW t \in Slots \ {s}, Races(call'[s], call[t])
      PROVE  <<call[t].user, call[t].g>> \in hist'.raced
  BY <1>2 DEF Overlaps, Races, Pair
<1>3. ASSUME NEW t \in Slots \ {s}, Haunts(call'[s], call[t])
      PROVE  <<call[t].user, Leaver(call'[s], call[t]).g>> \in hist'.ghosts
  <2>1. Haunts(call[s], call[t]) /\ Leaver(call'[s], call[t]).g = Leaver(call[s], call[t]).g
    BY <1>3 DEF Haunts, Pair, Leaver
  <2>2. QED
    BY <2>1 DEF Overlaps
<1>4. QED
  BY <1>1, <1>2, <1>3 DEF Recorded

\* A group that is created has a new id, which nobody is leaving.
LEMMA EffectMoves ==
  ASSUME KeptInv, Overlaps, NEW s \in Slots, Effect(s)
  PROVE  Moves(s) /\ Recorded(s)
<1>1. TypeOK /\ call[s] \in CallType
  BY StateTyped DEF KeptInv
<1>2. UNCHANGED <<hist, reg, latest>>
  BY DEF Effect, CommitMemberships, CommitCreate, CommitAccess, CommitUpsert,
         CommitLeave, CommitCount, CommitDelete, Commit
<1>3. /\ \A t \in Slots \ {s} : call'[t] = call[t]
      /\ call'[s].pc = call[s].pc /\ call'[s].user = call[s].user
      /\ call'[s].g = call[s].g \/ CommitCreate(s)
      /\ call[s].pc = "lv_rows" => call'[s].g = call[s].g
  BY <1>1 DEF Effect, CommitMemberships, CommitCreate, CommitAccess, CommitUpsert,
         CommitLeave, CommitCount, CommitDelete, Commit, At, Answer, TypeOK, CallType
<1>4. ASSUME CommitCreate(s), NEW t \in Slots \ {s} PROVE ~Races(call'[s], call[t])
  <2>1. PICK g \in Groups : status[g] = "none" /\ call'[s].g = g /\ call[s].pc = "cr_group"
    BY <1>1, <1>4 DEF CommitCreate, Commit, At, TypeOK, CallType
  <2>2. call[t].pc = "lv_rows" => status[call[t].g] # "none"
    BY DEF KeptInv, Judged, Deciding
  <2>3. QED
    BY <1>3, <2>1, <2>2 DEF Races, Pair
<1>5. QED
  BY <1>2, <1>3, <1>4, SameMoves

LEMMA FailMoves ==
  ASSUME TypeOK, NEW s \in Slots, Fail(s)
  PROVE  Moves(s) /\ Recorded(s) /\ call'[s] = NoCall
<1>1. call'[s] = NoCall /\ \A t \in Slots \ {s} : call'[t] = call[t]
  BY DEF TypeOK, Fail
<1>2. /\ hist.raced \subseteq hist'.raced /\ hist'.ghosts = hist.ghosts
      /\ hist'.contested = hist.contested /\ hist.failed \subseteq hist'.failed
  BY DEF TypeOK, Fail, HistType
<1>3. QED
  BY <1>1, <1>2 DEF Moves, Recorded, Races, Haunts, Pair, NoCall, Fail

LEMMA RequestMoves ==
  ASSUME TypeOK, NEW s \in Slots,
         \/ \E u \in Users : CreateNewGroup(s, u)
         \/ \E by, u \in Users, g \in Groups : AddUserToGroup(s, by, u, g)
         \/ \E u \in Users, g \in Groups : LeaveGroup(s, u, g)
  PROVE  /\ Moves(s) /\ Recorded(s) /\ UNCHANGED <<rows, status, sock>>
         /\ call[s].pc = "idle" /\ call'[s].pc \in {"cr_group", "add_check", "lv_rows"}
         /\ ~call'[s].ran
<1>1. \E c \in CallType : /\ Await(s, c) /\ UNCHANGED <<rows, status, sock, reg, latest>>
                          /\ At(s, "idle") /\ c.pc \in {"cr_group", "add_check", "lv_rows"}
                          /\ ~c.ran
  <2>1. ASSUME NEW u \in Users, CreateNewGroup(s, u) PROVE <1>1
    <3> DEFINE c == [NoCall EXCEPT !.pc = "cr_group", !.user = u]
    <3>1. c \in CallType /\ c.pc = "cr_group" /\ ~c.ran
      BY DEF NoCall, CallType, Pcs, Maybe
    <3>2. Await(s, c) /\ At(s, "idle") /\ UNCHANGED <<rows, status, sock, reg, latest>>
      BY <2>1 DEF CreateNewGroup, Issue
    <3> HIDE DEF c
    <3>3. QED
      BY <3>1, <3>2
  <2>2. ASSUME NEW by \in Users, NEW u \in Users, NEW g \in Groups,
               AddUserToGroup(s, by, u, g)
        PROVE  <1>1
    <3> DEFINE c == [NoCall EXCEPT !.pc = "add_check", !.by = by, !.user = u, !.g = g]
    <3>1. c \in CallType /\ c.pc = "add_check" /\ ~c.ran
      BY DEF NoCall, CallType, Pcs, Maybe
    <3>2. Await(s, c) /\ At(s, "idle") /\ UNCHANGED <<rows, status, sock, reg, latest>>
      BY <2>2 DEF AddUserToGroup, Issue
    <3> HIDE DEF c
    <3>3. QED
      BY <3>1, <3>2
  <2>3. ASSUME NEW u \in Users, NEW g \in Groups, LeaveGroup(s, u, g) PROVE <1>1
    <3> DEFINE c == [NoCall EXCEPT !.pc = "lv_rows", !.user = u, !.g = g]
    <3>1. c \in CallType /\ c.pc = "lv_rows" /\ ~c.ran
      BY DEF NoCall, CallType, Pcs, Maybe
    <3>2. Await(s, c) /\ At(s, "idle") /\ UNCHANGED <<rows, status, sock, reg, latest>>
      BY <2>3 DEF LeaveGroup, Issue
    <3> HIDE DEF c
    <3>3. QED
      BY <3>1, <3>2
  <2>4. QED
    BY <2>1, <2>2, <2>3
<1>2. QED
  BY <1>1, AwaitMoves DEF At

LEMMA ContinueMoves ==
  ASSUME TypeOK, NEW s \in Slots, Continue(s)
  PROVE  /\ Moves(s) /\ Recorded(s) /\ UNCHANGED <<rows, status>>
         /\ \/ Return(s) /\ call'[s] = NoCall
            \/ AccessChecked(s) /\ call'[s] = [call[s] EXCEPT !.pc = "add_find"]
            \/ UserFound(s) /\ call'[s] = [call[s] EXCEPT !.pc = "add_upsert", !.ran = FALSE]
            \/ Left(s) /\ call'[s] = [call[s] EXCEPT !.pc = "lv_count", !.ran = FALSE]
            \/ Counted(s) /\ call'[s] = [call[s] EXCEPT !.pc = "lv_delete", !.ran = FALSE]
<1> DEFINE Then(pc) == [call[s] EXCEPT !.pc = pc, !.ran = FALSE]
           Find == [call[s] EXCEPT !.pc = "add_find"]
<1>1. call[s] \in CallType
  BY StateTyped
<1>2. UNCHANGED <<rows, status, reg, latest>>
  BY DEF Continue, RoomsJoined, GroupCreated, AccessChecked, UserFound, UserAdded,
         Left, Counted, GroupDeleted
<1>3. Find \in CallType /\ \A pc \in Pcs : Then(pc) \in CallType
  BY <1>1 DEF CallType, Pcs
<1>4. \/ Return(s)
      \/ AccessChecked(s) /\ Await(s, Find)
      \/ UserFound(s) /\ Await(s, Then("add_upsert"))
      \/ Left(s) /\ Await(s, Then("lv_count"))
      \/ Counted(s) /\ Await(s, Then("lv_delete"))
  BY DEF Continue, RoomsJoined, GroupCreated, AccessChecked, UserFound, UserAdded,
         Left, Counted, GroupDeleted
<1> HIDE DEF Then, Find
<1>5. {"add_upsert", "lv_count", "lv_delete"} \subseteq Pcs
  BY DEF Pcs
<1>6. QED
  BY <1>2, <1>3, <1>4, <1>5, AwaitMoves, ReturnMoves DEF Then, Find

LEMMA SlotMoves ==
  ASSUME KeptInv, Overlaps, NEW s \in Slots, SlotStep(s)
  PROVE  Moves(s) /\ Recorded(s)
BY RequestMoves, ContinueMoves, EffectMoves, FailMoves DEF SlotStep, KeptInv

\* A connection forgets what raced before it, not what still overlaps.
LEMMA ConnectOverlaps ==
  ASSUME TypeOK, Overlaps, NEW s \in Slots, NEW k \in Sockets, NEW u \in Users,
         HandleConnection(s, k, u)
  PROVE  Overlaps'
<1> DEFINE c == [NoCall EXCEPT !.pc = "con_rows", !.user = u, !.k = k]
           past == {p \in Pairs : p[1] = u /\ \A d \in Others(s) : ~Touches(d, u, p[2])}
<1>1. /\ \A t \in Slots \ {s} : call'[t] = call[t]
      /\ call'[s] = c
  BY DEF TypeOK, HandleConnection
<1>2. c.pc = "con_rows" /\ c.user = u
  BY DEF NoCall
<1>3. hist' = [hist EXCEPT !.raced = @ \ past, !.ghosts = (@ \ past) \cup Ghosts(s, c)]
  BY DEF HandleConnection
<1>4. ASSUME NEW t \in Slots \ {s}, Haunts(c, call[t])
      PROVE  <<u, call[t].g>> \in Ghosts(s, c) /\ call[t].pc = "lv_rows" /\ call[t].user = u
  <2>1. call[t] \in Others(s) /\ call[t].pc = "lv_rows" /\ call[t].user = u
    BY <1>2, <1>4 DEF Others, Haunts, Pair
  <2>2. QED
    BY <1>2, <1>4, <2>1 DEF Ghosts
<1>5. ASSUME NEW t \in Slots \ {s}, call[t].pc # "idle" PROVE <<call[t].user, call[t].g>> \notin past
  BY <1>5 DEF Others, Touches
<1> HIDE DEF c, past
<1>6. hist'.raced = hist.raced \ past /\ hist'.ghosts = (hist.ghosts \ past) \cup Ghosts(s, c)
  BY <1>3 DEF TypeOK, HistType
<1>7. ASSUME NEW r \in Slots \ {s}, NEW t \in Slots \ {s}
      PROVE  /\ Races(call[r], call[t]) => <<call[t].user, call[t].g>> \in hist'.raced
             /\ Haunts(call[r], call[t])
                  => <<call[t].user, Leaver(call[r], call[t]).g>> \in hist'.ghosts
  <2>1. Races(call[r], call[t]) => call[t].pc # "idle"
    BY DEF Races, Pair
  <2>2. Haunts(call[r], call[t]) =>
          /\ call[r].user = call[t].user /\ call[r].pc # "idle" /\ call[t].pc # "idle"
          /\ Leaver(call[r], call[t]) \in {call[r], call[t]}
    BY DEF Haunts, Pair, Leaver
  <2>3. QED
    BY <1>5, <1>6, <2>1, <2>2 DEF Overlaps
<1>8. ASSUME NEW t \in Slots
      PROVE  /\ ~Races(c, call'[t]) /\ ~Races(call'[t], c)
             /\ Haunts(c, call'[t]) \/ Haunts(call'[t], c) =>
                  /\ t # s /\ Haunts(c, call[t])
                  /\ Leaver(c, call'[t]) = call[t] /\ Leaver(call'[t], c) = call[t]
  BY <1>1, <1>2 DEF Races, Haunts, Pair, Leaver
<1>9. QED
  <2> SUFFICES ASSUME NEW r \in Slots, NEW t \in Slots
               PROVE  /\ Races(call'[r], call'[t])
                           => <<call'[t].user, call'[t].g>> \in hist'.raced
                      /\ Haunts(call'[r], call'[t])
                           => <<call'[t].user, Leaver(call'[r], call'[t]).g>> \in hist'.ghosts
    BY DEF Overlaps, Races, Haunts, Leaver, Pair
  <2>1. CASE r # s /\ t # s
    BY <1>1, <1>7, <2>1
  <2>2. CASE r = s
    <3>1. call'[r] = c /\ ~Races(call'[r], call'[t])
      BY <1>1, <1>8, <2>2
    <3>2. ASSUME Haunts(c, call'[t])
          PROVE  <<call'[t].user, Leaver(c, call'[t]).g>> \in hist'.ghosts
      <4>1. t # s /\ Haunts(c, call[t]) /\ Leaver(c, call'[t]) = call[t] /\ call'[t] = call[t]
        BY <1>1, <1>8, <3>2
      <4>2. <<u, call[t].g>> \in Ghosts(s, c) /\ call[t].user = u
        BY <1>4, <4>1
      <4>3. QED
        BY <1>6, <4>1, <4>2
    <3>3. QED
      BY <3>1, <3>2
  <2>3. CASE r # s /\ t = s
    <3>1. call'[t] = c /\ call'[r] = call[r] /\ ~Races(call'[r], call'[t])
      BY <1>1, <1>8, <2>3
    <3>2. ASSUME Haunts(call[r], c)
          PROVE  <<c.user, Leaver(call[r], c).g>> \in hist'.ghosts
      <4>1. Haunts(c, call[r]) /\ Leaver(call[r], c) = call[r]
        BY <1>8, <2>3, <3>1, <3>2
      <4>2. <<u, call[r].g>> \in Ghosts(s, c) /\ c.user = u
        BY <1>2, <1>4, <2>3, <4>1
      <4>3. QED
        BY <1>6, <4>1, <4>2
    <3>3. QED
      BY <3>1, <3>2
  <2>4. QED
    BY <2>1, <2>2, <2>3

LEMMA NextOverlaps == KeptInv /\ Overlaps /\ [Next]_vars => Overlaps'
<1> SUFFICES ASSUME KeptInv, Overlaps, [Next]_vars PROVE Overlaps'
  OBVIOUS
<1>1. CASE UNCHANGED vars \/ \E k \in Sockets : HandleDisconnect(k)
  BY <1>1 DEF vars, HandleDisconnect, Overlaps
<1>2. CASE Crash
  BY <1>2 DEF Crash, Overlaps, Races, Haunts, Pair, NoCall
<1>3. ASSUME NEW s \in Slots, SlotStep(s) PROVE Overlaps'
  BY <1>3, SlotMoves, OverlapsStep
<1>4. QED
  BY <1>1, <1>2, <1>3, ConnectOverlaps DEF Next, Requests, SlotStep, KeptInv

-----------------------------------------------------------------------------
(* The user's newest socket is the registered one, and it is open.           *)

Registered ==
  /\ latest = reg
  /\ \A u \in Users : reg[u] # None => sock[reg[u]].open /\ sock[reg[u]].user = u
  /\ \A s \in Slots : At(s, "con_rows") => sock[call[s].k].user = call[s].user

\* Socket k keeps what it is in and is due.
SameRooms(k) == sock'[k].rooms = sock[k].rooms /\ sock'[k].due = sock[k].due

\* What join and leave do to socket k.
JoinSteps(u, g, k) ==
  /\ Joined(u, g)[k].due = sock[k].due
  /\ k = reg[u] => Joined(u, g)[k].rooms = sock[k].rooms \cup {g}
  /\ k # reg[u] => Joined(u, g)[k].rooms = sock[k].rooms

DepartSteps(u, g, k) ==
  /\ k = reg[u] => /\ Departed(u, g)[k].rooms = sock[k].rooms \ {g}
                   /\ Departed(u, g)[k].due = sock[k].due \ {g}
  /\ k # reg[u] => /\ Departed(u, g)[k].rooms = sock[k].rooms
                   /\ Departed(u, g)[k].due = sock[k].due

LEMMA JoinedSocket ==
  ASSUME TypeOK, NEW u \in Users, NEW g \in Groups, NEW k \in Sockets
  PROVE  JoinSteps(u, g, k) /\ DepartSteps(u, g, k)
<1>1. sock[k] \in SockType /\ k # None
  BY StateTyped, NoneAssumption
<1>2. CASE reg[u] = None
  BY <1>1, <1>2 DEF Joined, Departed, JoinSteps, DepartSteps
<1>3. CASE reg[u] # None
  <2>1. reg[u] \in Sockets
    BY <1>3, StateTyped
  <2> DEFINE a == [sock[reg[u]] EXCEPT !.rooms = @ \cup {g}]
             b == [sock[reg[u]] EXCEPT !.rooms = @ \ {g}, !.due = @ \ {g}]
  <2>2. /\ a.rooms = sock[reg[u]].rooms \cup {g} /\ a.due = sock[reg[u]].due
        /\ b.rooms = sock[reg[u]].rooms \ {g} /\ b.due = sock[reg[u]].due \ {g}
    BY <2>1, StateTyped DEF SockType
  <2>3. /\ Joined(u, g) = [sock EXCEPT ![reg[u]] = a]
        /\ Departed(u, g) = [sock EXCEPT ![reg[u]] = b]
    BY <1>3, <2>1 DEF Joined, Departed, TypeOK
  <2> HIDE DEF a, b
  <2>4. QED
    BY <2>1, <2>2, <2>3 DEF TypeOK, JoinSteps, DepartSteps
<1>4. QED
  BY <1>2, <1>3

LEMMA NotifiedSocket ==
  ASSUME NEW ss, SocketsLike(ss), NEW g \in Groups, NEW k \in Sockets
  PROVE  /\ Notified(ss, g)[k].rooms = ss[k].rooms
         /\ Notified(ss, g)[k].due = IF g \in ss[k].rooms THEN ss[k].due \ {g} ELSE ss[k].due
BY DEF Notified, SocketsLike, SockType

LEMMA ChangedSocket ==
  ASSUME TypeOK, NEW g \in Groups, NEW k \in Sockets
  PROVE  /\ Changed(g)[k].rooms = sock[k].rooms
         /\ Changed(g)[k].due = IF g \in sock[k].rooms THEN sock[k].due \cup {g} ELSE sock[k].due
         /\ Changed(g)[k].open = sock[k].open /\ Changed(g)[k].user = sock[k].user
BY StateTyped DEF Changed, SockType

\* What an effect, or the end of a handler, does to the sockets.
LEMMA SlotSockets ==
  ASSUME TypeOK, NEW s \in Slots, SlotStep(s)
  PROVE  SocketsLike(sock')
<1> DEFINE c == call[s]
<1>1. c \in CallType /\ CallOK(c) /\ SocketsLike(sock)
  BY StateTyped, JoinedTyped, NoneAssumption DEF TypeOK, SocketsLike
<1>2. CASE UNCHANGED sock
  BY <1>1, <1>2
<1>3. CASE RoomsJoined(s)
  <2>1. c.k \in Sockets /\ c.read \subseteq Groups
    BY <1>1, <1>3 DEF RoomsJoined, Resumes, At, CallOK, CallType
  <2> DEFINE a == [sock[c.k] EXCEPT !.rooms = @ \cup c.read]
  <2>2. a \in SockType /\ a.open = sock[c.k].open /\ a.user = sock[c.k].user
    BY <2>1, StateTyped DEF SockType
  <2>3. sock' = sock \/ sock' = [sock EXCEPT ![c.k] = a]
    BY <1>3, <2>1 DEF RoomsJoined, TypeOK
  <2> HIDE DEF a
  <2>4. QED
    BY <1>1, <2>1, <2>2, <2>3 DEF SocketsLike
<1>4. CASE GroupCreated(s)
  BY <1>1, <1>4, JoinedTyped DEF GroupCreated, Resumes, At, CallOK
<1>5. CASE UserAdded(s)
  BY <1>1, <1>5, JoinedTyped, NotifiedTyped DEF UserAdded, Resumes, At, CallOK
<1>6. CASE Left(s)
  BY <1>1, <1>6, JoinedTyped DEF Left, Resumes, At, CallOK
<1>7. CASE Counted(s)
  BY <1>1, <1>7, NotifiedTyped DEF Counted, Resumes, At, CallOK
<1>8. CASE CommitUpsert(s) \/ CommitLeave(s)
  <2>1. c.g \in Groups /\ sock' \in {sock, Changed(c.g)}
    BY <1>1, <1>8 DEF CommitUpsert, CommitLeave, Commit, At, CallOK
  <2>2. ASSUME sock' = Changed(c.g), NEW k \in Sockets
        PROVE  sock'[k] \in SockType /\ sock'[k].open = sock[k].open
               /\ sock'[k].user = sock[k].user
    BY <2>1, <2>2, StateTyped DEF Changed, SockType
  <2>3. sock' = Changed(c.g) => SocketsLike(sock')
    BY <2>2 DEF SocketsLike, Changed
  <2>4. QED
    BY <1>1, <2>1, <2>3
<1>9. QED
  BY <1>2, <1>3, <1>4, <1>5, <1>6, <1>7, <1>8
     DEF SlotStep, CreateNewGroup, AddUserToGroup, LeaveGroup, Continue, AccessChecked,
         UserFound, GroupDeleted, Effect, CommitMemberships, CommitCreate, CommitAccess,
         CommitCount, CommitDelete, Fail

\* Only HandleConnection reads memberships.
LEMMA SlotReads ==
  ASSUME TypeOK, NEW s \in Slots, SlotStep(s), call'[s].pc = "con_rows"
  PROVE  CommitMemberships(s)
<1>1. call[s] \in CallType
  BY StateTyped
<1>2. CASE Continue(s)
  <2>1. /\ NoCall.pc = "idle" /\ [call[s] EXCEPT !.pc = "add_find"].pc = "add_find"
        /\ \A pc \in Pcs : [call[s] EXCEPT !.pc = pc, !.ran = FALSE].pc = pc
    BY <1>1 DEF NoCall, CallType
  <2>2. {"add_upsert", "lv_count", "lv_delete"} \subseteq Pcs
    BY DEF Pcs
  <2>3. call'[s].pc \in {"idle", "add_find", "add_upsert", "lv_count", "lv_delete"}
    BY <1>2, <2>1, <2>2, ContinueMoves
  <2>4. QED
    BY <2>3
<1>3. CASE Effect(s)
  <2>1. call'[s].pc = call[s].pc
    BY <1>1, <1>3 DEF Effect, CommitMemberships, CommitCreate, CommitAccess, CommitUpsert,
           CommitLeave, CommitCount, CommitDelete, Commit, At, Answer, TypeOK, CallType
  <2>2. QED
    BY <1>3, <2>1 DEF Effect, CommitCreate, CommitAccess, CommitUpsert, CommitLeave,
           CommitCount, CommitDelete, Commit, At
<1>4. QED
  BY <1>2, <1>3, RequestMoves, FailMoves DEF SlotStep, NoCall

LEMMA SlotRegistered ==
  ASSUME KeptInv, Overlaps, Registered, NEW s \in Slots, SlotStep(s)
  PROVE  Registered'
<1>1. TypeOK /\ Moves(s) /\ SocketsLike(sock')
  BY SlotMoves, SlotSockets DEF KeptInv
<1>2. ASSUME NEW t \in Slots, call'[t].pc = "con_rows"
      PROVE  sock'[call'[t].k].user = call'[t].user
  <2>1. call[t].pc = "con_rows" /\ call'[t].k = call[t].k /\ call'[t].user = call[t].user
    <3>1. CASE t # s
      BY <1>1, <1>2, <3>1 DEF Moves
    <3>2. CASE t = s
      <4>1. CommitMemberships(s)
        BY <1>1, <1>2, <3>2, SlotReads
      <4>2. QED
        BY <1>1, <3>2, <4>1, StateTyped DEF CommitMemberships, Commit, At, TypeOK, CallType
    <3>3. QED
      BY <3>1, <3>2
  <2>2. call[t].k \in Sockets
    BY <1>1, <2>1, StateTyped DEF CallOK
  <2>3. QED
    BY <1>1, <2>1, <2>2 DEF Registered, At, SocketsLike
<1>3. ASSUME NEW u \in Users, reg'[u] # None PROVE sock'[reg'[u]].open /\ sock'[reg'[u]].user = u
  <2>1. reg' = reg /\ reg[u] \in Sockets
    BY <1>1, <1>3, StateTyped DEF Moves
  <2>2. QED
    BY <1>1, <1>3, <2>1 DEF Registered, SocketsLike
<1>4. QED
  BY <1>1, <1>2, <1>3 DEF Registered, Moves, At

\* What the connection of u's socket k in slot s changes.
Connected(s, k, u) ==
  /\ reg' = [reg EXCEPT ![u] = k]
  /\ sock[k].user = None /\ sock'[k].user = u
  /\ sock'[k].rooms = {} /\ sock'[k].due = {}
  /\ \A j \in Sockets \ {k} : sock'[j] = sock[j]
  /\ call[s].pc = "idle" /\ \A t \in Slots \ {s} : call'[t] = call[t]
  /\ call'[s].pc = "con_rows" /\ call'[s].user = u /\ call'[s].k = k /\ ~call'[s].ran
  /\ UNCHANGED <<rows, status>>

LEMMA ConnectRegistered ==
  ASSUME TypeOK, Registered, NEW s \in Slots, NEW k \in Sockets, NEW u \in Users,
         HandleConnection(s, k, u)
  PROVE  Registered' /\ Connected(s, k, u)
<1> DEFINE c == [NoCall EXCEPT !.pc = "con_rows", !.user = u, !.k = k]
           a == [Closed EXCEPT !.user = u, !.open = TRUE]
<1>1. a.open /\ a.user = u /\ a.rooms = {} /\ a.due = {}
  BY DEF Closed
<1>2. c.pc = "con_rows" /\ c.user = u /\ c.k = k /\ ~c.ran
  BY DEF NoCall
<1>3. /\ sock[k].user = None /\ sock' = [sock EXCEPT ![k] = a] /\ call[s].pc = "idle"
      /\ reg' = [reg EXCEPT ![u] = k] /\ latest' = [latest EXCEPT ![u] = k]
      /\ call' = [call EXCEPT ![s] = c] /\ UNCHANGED <<rows, status>>
  BY DEF HandleConnection, Issue, At
<1> HIDE DEF a, c
<1>4. /\ sock'[k] = a /\ \A j \in Sockets \ {k} : sock'[j] = sock[j]
  BY <1>3 DEF TypeOK
<1>5. call'[s] = c /\ \A t \in Slots \ {s} : call'[t] = call[t]
  BY <1>3 DEF TypeOK
<1>6. ASSUME NEW t \in Slots, call'[t].pc = "con_rows" PROVE sock'[call'[t].k].user = call'[t].user
  <2>1. CASE t = s
    BY <1>1, <1>2, <1>4, <1>5, <2>1
  <2>2. CASE t # s
    <3>1. call[t].k \in Sockets /\ call[t].user \in Users /\ sock[call[t].k].user = call[t].user
      BY <1>5, <1>6, <2>2, StateTyped DEF CallOK, Registered, At
    <3>2. call[t].k # k
      BY <1>3, <3>1, NoneAssumption
    <3>3. QED
      BY <1>4, <1>5, <2>2, <3>1, <3>2
  <2>3. QED
    BY <2>1, <2>2
<1>7. ASSUME NEW v \in Users, reg'[v] # None PROVE sock'[reg'[v]].open /\ sock'[reg'[v]].user = v
  <2>1. CASE v = u
    BY <1>1, <1>3, <1>4, <2>1 DEF TypeOK
  <2>2. CASE v # u
    <3>1. reg'[v] = reg[v] /\ reg[v] \in Sockets /\ sock[reg[v]].open /\ sock[reg[v]].user = v
      BY <1>3, <1>7, <2>2, StateTyped DEF TypeOK, Registered
    <3>2. reg[v] # k
      BY <1>3, <3>1, NoneAssumption
    <3>3. QED
      BY <1>4, <3>1, <3>2
  <2>3. QED
    BY <2>1, <2>2
<1>8. latest' = reg'
  BY <1>3 DEF Registered
<1>9. Registered'
  BY <1>6, <1>7, <1>8 DEF Registered, At
<1>10. Connected(s, k, u)
  BY <1>1, <1>2, <1>3, <1>4, <1>5 DEF Connected
<1>11. QED
  BY <1>9, <1>10

LEMMA DisconnectRegistered ==
  ASSUME TypeOK, Registered, NEW k \in Sockets, HandleDisconnect(k)
  PROVE  /\ Registered'
         /\ \A u \in Users : reg'[u] # None => reg'[u] = reg[u] /\ reg[u] # k
         /\ sock'[k].rooms = {} /\ sock'[k].due = {}
         /\ \A j \in Sockets \ {k} : sock'[j] = sock[j]
         /\ \A j \in Sockets : sock'[j].user = sock[j].user
         /\ UNCHANGED <<rows, status, call, hist>>
<1> DEFINE u == sock[k].user
           a == [Closed EXCEPT !.user = u]
<1>1. a.user = u /\ a.rooms = {} /\ a.due = {}
  BY DEF Closed
<1>2. /\ sock' = [sock EXCEPT ![k] = a] /\ UNCHANGED <<rows, status, call, hist>>
      /\ u \in Users
      /\ reg' = [reg EXCEPT ![u] = IF @ = k THEN None ELSE @]
      /\ latest' = [latest EXCEPT ![u] = IF @ = k THEN None ELSE @]
  BY DEF HandleDisconnect, TypeOK
<1> HIDE DEF a
<1>3. sock'[k] = a /\ \A j \in Sockets \ {k} : sock'[j] = sock[j]
  BY <1>2 DEF TypeOK
<1>4. \A v \in Users : reg'[v] # None => reg'[v] = reg[v] /\ reg[v] # k
  <2> SUFFICES ASSUME NEW v \in Users, reg'[v] # None PROVE reg'[v] = reg[v] /\ reg[v] # k
    OBVIOUS
  <2>1. CASE v = u
    BY <1>2, <2>1 DEF TypeOK
  <2>2. CASE v # u
    BY <1>2, <2>2 DEF TypeOK, Registered
  <2>3. QED
    BY <2>1, <2>2
<1>5. \A j \in Sockets : sock'[j].user = sock[j].user
  BY <1>1, <1>3
<1>6. \A v \in Users : reg'[v] # None => sock'[reg'[v]].open /\ sock'[reg'[v]].user = v
  BY <1>3, <1>4, StateTyped DEF Registered
<1>7. \A s \in Slots : call'[s].pc = "con_rows" => sock'[call'[s].k].user = call'[s].user
  BY <1>2, <1>5, StateTyped DEF Registered, At, CallOK
<1>8. latest' = reg'
  BY <1>2 DEF Registered
<1>9. QED
  BY <1>1, <1>2, <1>3, <1>4, <1>5, <1>6, <1>7, <1>8 DEF Registered, At

LEMMA CrashRegistered ==
  ASSUME Crash
  PROVE  /\ Registered' /\ UNCHANGED <<rows, status>>
         /\ \A u \in Users : reg'[u] = None
         /\ \A s \in Slots : call'[s] = NoCall
         /\ \A k \in Sockets : sock'[k].rooms = {} /\ sock'[k].due = {}
BY DEF Crash, Registered, At, NoCall, Closed

LEMMA NextRegistered == KeptInv /\ Overlaps /\ Registered /\ [Next]_vars => Registered'
<1> SUFFICES ASSUME KeptInv, Overlaps, Registered, [Next]_vars PROVE Registered'
  OBVIOUS
<1>1. CASE UNCHANGED vars
  BY <1>1 DEF vars, Registered, At
<1>2. ASSUME NEW s \in Slots, SlotStep(s) PROVE Registered'
  BY <1>2, SlotRegistered
<1>3. QED
  BY <1>1, <1>2, ConnectRegistered, DisconnectRegistered, CrashRegistered
     DEF Next, Requests, SlotStep, KeptInv

-----------------------------------------------------------------------------
(* Rows belong to live groups, and only rooms of groups with an id are due.  *)

Told ==
  /\ \A p \in rows : status[p[2]] = "live"
  /\ \A k \in Sockets : sock[k].due \subseteq sock[k].rooms
  /\ \A k \in Sockets : \A g \in sock[k].due : status[g] # "none"

\* What a step of slot s may do to the rooms of socket k.
RoomStep(s, k) ==
  LET c == call[s]
  IN  \/ SameRooms(k)
      \/ /\ RoomsJoined(s) /\ k = c.k
         /\ sock'[k].rooms = sock[k].rooms \cup c.read /\ sock'[k].due = sock[k].due
      \/ /\ GroupCreated(s) /\ k = reg[c.user]
         /\ sock'[k].rooms = sock[k].rooms \cup {c.g} /\ sock'[k].due = sock[k].due
      \/ /\ UserAdded(s) /\ c.ok
         /\ sock'[k].rooms = sock[k].rooms \cup (IF k = reg[c.user] THEN {c.g} ELSE {})
         /\ sock'[k].due = IF c.g \in sock'[k].rooms THEN sock[k].due \ {c.g} ELSE sock[k].due
      \/ /\ Left(s) /\ c.ok /\ k = reg[c.user]
         /\ sock'[k].rooms = sock[k].rooms \ {c.g} /\ sock'[k].due = sock[k].due \ {c.g}
      \/ /\ Counted(s) /\ c.ok
         /\ sock'[k].rooms = sock[k].rooms
         /\ sock'[k].due = IF c.g \in sock[k].rooms THEN sock[k].due \ {c.g} ELSE sock[k].due
      \/ /\ \/ CommitUpsert(s) /\ status[c.g] = "live"
            \/ CommitLeave(s) /\ <<c.user, c.g>> \in rows
         /\ sock'[k].rooms = sock[k].rooms
         /\ sock'[k].due = IF c.g \in sock[k].rooms THEN sock[k].due \cup {c.g} ELSE sock[k].due

LEMMA SlotRooms ==
  ASSUME TypeOK, NEW s \in Slots, SlotStep(s), NEW k \in Sockets
  PROVE  RoomStep(s, k)
<1> DEFINE c == call[s]
<1>1. c \in CallType /\ CallOK(c) /\ sock[k] \in SockType
  BY StateTyped
<1>2. CASE UNCHANGED sock
  BY <1>2 DEF RoomStep, SameRooms
<1>3. CASE RoomsJoined(s)
  <2>1. c.k \in Sockets
    BY <1>1, <1>3 DEF RoomsJoined, Resumes, At, CallOK
  <2> DEFINE a == [sock[c.k] EXCEPT !.rooms = @ \cup c.read]
  <2>2. a.rooms = sock[c.k].rooms \cup c.read /\ a.due = sock[c.k].due
    BY <2>1, StateTyped DEF SockType
  <2>3. sock' = sock \/ sock' = [sock EXCEPT ![c.k] = a]
    BY <1>3, <2>1 DEF RoomsJoined, TypeOK
  <2> HIDE DEF a
  <2>4. QED
    BY <1>3, <2>1, <2>2, <2>3 DEF RoomStep, SameRooms, TypeOK
<1>4. CASE GroupCreated(s)
  <2>1. c.user \in Users /\ c.g \in Groups /\ sock' = Joined(c.user, c.g)
    BY <1>1, <1>4 DEF GroupCreated, Resumes, At, CallOK
  <2>2. JoinSteps(c.user, c.g, k)
    BY <2>1, JoinedSocket
  <2>3. QED
    BY <1>4, <2>1, <2>2 DEF RoomStep, SameRooms, JoinSteps
<1>5. CASE UserAdded(s)
  <2>1. c.user \in Users /\ c.g \in Groups
    BY <1>1, <1>5 DEF UserAdded, Resumes, At, CallOK
  <2>2. CASE c.ok
    <3>1. sock' = Notified(Joined(c.user, c.g), c.g) /\ SocketsLike(Joined(c.user, c.g))
      BY <1>5, <2>1, <2>2, JoinedTyped DEF UserAdded
    <3>2. /\ sock'[k].rooms = Joined(c.user, c.g)[k].rooms
          /\ sock'[k].due = IF c.g \in Joined(c.user, c.g)[k].rooms
                            THEN Joined(c.user, c.g)[k].due \ {c.g}
                            ELSE Joined(c.user, c.g)[k].due
      BY <2>1, <3>1, NotifiedSocket
    <3>3. JoinSteps(c.user, c.g, k)
      BY <2>1, JoinedSocket
    <3>4. /\ sock'[k].rooms = sock[k].rooms \cup (IF k = reg[c.user] THEN {c.g} ELSE {})
          /\ sock'[k].due = IF c.g \in sock'[k].rooms THEN sock[k].due \ {c.g} ELSE sock[k].due
      BY <3>2, <3>3 DEF JoinSteps
    <3>5. QED
      BY <1>5, <2>2, <3>4 DEF RoomStep
  <2>3. CASE ~c.ok
    BY <1>2, <1>5, <2>3 DEF UserAdded
  <2>4. QED
    BY <2>2, <2>3
<1>6. CASE Left(s)
  <2>1. /\ c.user \in Users /\ c.g \in Groups
        /\ sock' = sock \/ (c.ok /\ sock' = Departed(c.user, c.g))
    BY <1>1, <1>6 DEF Left, Resumes, At, CallOK
  <2>2. CASE c.ok /\ sock' = Departed(c.user, c.g)
    <3>1. DepartSteps(c.user, c.g, k)
      BY <2>1, JoinedSocket
    <3>2. QED
      BY <1>6, <2>2, <3>1 DEF RoomStep, SameRooms, DepartSteps
  <2>3. QED
    BY <1>2, <2>1, <2>2
<1>7. CASE Counted(s)
  <2>1. /\ c.g \in Groups /\ SocketsLike(sock)
        /\ sock' = sock \/ (c.ok /\ sock' = Notified(sock, c.g))
    BY <1>1, <1>7, JoinedTyped, StateTyped DEF Counted, Resumes, At, CallOK, TypeOK, SocketsLike
  <2>2. CASE c.ok /\ sock' = Notified(sock, c.g)
    BY <1>7, <2>1, <2>2, NotifiedSocket DEF RoomStep
  <2>3. QED
    BY <1>2, <2>1, <2>2
<1>8. CASE CommitUpsert(s) \/ CommitLeave(s)
  <2>1. /\ c.g \in Groups
        /\ \/ sock' = sock
           \/ /\ sock' = Changed(c.g)
              /\ \/ CommitUpsert(s) /\ status[c.g] = "live"
                 \/ CommitLeave(s) /\ <<c.user, c.g>> \in rows
    BY <1>1, <1>8 DEF CommitUpsert, CommitLeave, Commit, At, CallOK
  <2>2. CASE sock' # sock
    <3>1. sock'[k].rooms = sock[k].rooms
          /\ sock'[k].due = IF c.g \in sock[k].rooms THEN sock[k].due \cup {c.g} ELSE sock[k].due
      BY <2>1, <2>2, ChangedSocket
    <3>2. QED
      BY <2>1, <2>2, <3>1 DEF RoomStep
  <2>3. QED
    BY <1>2, <2>2
<1>9. QED
  BY <1>2, <1>3, <1>4, <1>5, <1>6, <1>7, <1>8
     DEF SlotStep, CreateNewGroup, AddUserToGroup, LeaveGroup, Continue, AccessChecked,
         UserFound, GroupDeleted, Effect, CommitMemberships, CommitCreate, CommitAccess,
         CommitCount, CommitDelete, Fail

LEMMA SlotRows ==
  ASSUME TypeOK, NEW s \in Slots, SlotStep(s)
  PROVE  /\ \/ UNCHANGED <<rows, status>>
            \/ CommitCreate(s) \/ CommitUpsert(s) \/ CommitLeave(s) \/ CommitDelete(s)
         /\ \A g \in Groups : status[g] # "none" => status'[g] # "none"
<1>1. \/ UNCHANGED <<rows, status>>
      \/ CommitCreate(s) \/ CommitUpsert(s) \/ CommitLeave(s) \/ CommitDelete(s)
  BY DEF SlotStep, CreateNewGroup, AddUserToGroup, LeaveGroup, Continue, RoomsJoined,
         GroupCreated, AccessChecked, UserFound, UserAdded, Left, Counted, GroupDeleted,
         Effect, CommitMemberships, CommitAccess, CommitCount, Fail
<1>2. QED
  BY <1>1 DEF CommitCreate, CommitUpsert, CommitLeave, CommitDelete, TypeOK

LEMMA SlotTold ==
  ASSUME KeptInv, Told, NEW s \in Slots, SlotStep(s)
  PROVE  Told'
<1> DEFINE c == call[s]
<1>1. TypeOK /\ CallOK(c) /\ Judged(c)
  BY StateTyped DEF KeptInv
<1>2. \A p \in rows' : status'[p[2]] = "live"
  <2>1. CASE UNCHANGED <<rows, status>>
    BY <2>1 DEF Told
  <2>2. CASE CommitCreate(s)
    <3>1. PICK g \in Groups : status[g] = "none" /\ status' = [status EXCEPT ![g] = "live"]
                              /\ rows' = rows \cup {<<c.user, g>>}
      BY <2>2 DEF CommitCreate
    <3>2. \A p \in rows : p[2] \in Groups
      BY <1>1 DEF TypeOK, Pairs
    <3>3. QED
      BY <1>1, <3>1, <3>2 DEF Told, TypeOK
  <2>3. CASE CommitUpsert(s)
    BY <2>3 DEF CommitUpsert, Told
  <2>4. CASE CommitLeave(s)
    BY <2>4 DEF CommitLeave, Told
  <2>5. CASE CommitDelete(s)
    <3>1. \A p \in rows : p[2] \in Groups
      BY <1>1 DEF TypeOK, Pairs
    <3>2. QED
      BY <1>1, <2>5, <3>1 DEF CommitDelete, Told, TypeOK
  <2>6. QED
    BY <1>1, <2>1, <2>2, <2>3, <2>4, <2>5, SlotRows
<1>3. ASSUME NEW k \in Sockets PROVE sock'[k].due \subseteq sock'[k].rooms
  <2>1. RoomStep(s, k) /\ sock[k].due \subseteq sock[k].rooms
    BY <1>1, SlotRooms DEF Told
  <2>2. QED
    BY <2>1 DEF RoomStep, SameRooms
<1>4. ASSUME NEW k \in Sockets, NEW g \in sock'[k].due PROVE status'[g] # "none"
  <2>1. g \in sock[k].due \/ (g = c.g /\ (CommitUpsert(s) \/ CommitLeave(s)))
    BY <1>1, <1>4, SlotRooms DEF RoomStep, SameRooms
  <2>2. status[g] # "none" /\ g \in Groups
    <3>1. CASE g \in sock[k].due
      BY <3>1, <1>1, StateTyped DEF Told, SockType
    <3>2. CASE g = c.g /\ (CommitUpsert(s) \/ CommitLeave(s))
      BY <1>1, <3>2 DEF CommitUpsert, CommitLeave, Commit, At, Judged, Deciding, CallOK
    <3>3. QED
      BY <2>1, <3>1, <3>2
  <2>3. QED
    BY <1>1, <2>2, SlotRows
<1>5. QED
  BY <1>2, <1>3, <1>4 DEF Told

LEMMA NextTold == KeptInv /\ Registered /\ Told /\ [Next]_vars => Told'
<1> SUFFICES ASSUME KeptInv, Registered, Told, [Next]_vars PROVE Told'
  OBVIOUS
<1>1. CASE UNCHANGED vars
  BY <1>1 DEF vars, Told
<1>2. ASSUME NEW s \in Slots, SlotStep(s) PROVE Told'
  BY <1>2, SlotTold
<1>3. ASSUME NEW s \in Slots, NEW k \in Sockets, NEW u \in Users, HandleConnection(s, k, u)
      PROVE  Told'
  BY <1>3, ConnectRegistered DEF Connected, Told, KeptInv
<1>4. ASSUME NEW k \in Sockets, HandleDisconnect(k) PROVE Told'
  BY <1>4, DisconnectRegistered DEF Told, KeptInv
<1>5. CASE Crash
  BY <1>5, CrashRegistered DEF Told
<1>6. QED
  BY <1>1, <1>2, <1>3, <1>4, <1>5 DEF Next, Requests, SlotStep

-----------------------------------------------------------------------------
(* Rows and rooms: a row has its room, or a handler that joins it; a room    *)
(* has its row, or a handler that leaves it.                                 *)

\* Handler c will put u's socket r into the room of g, will read what to join,
\* or will take u's socket out of it.
Adds(c, u, g) ==
  /\ c.user = u /\ c.ran /\ c.g = g
  /\ (c.pc = "add_upsert" /\ c.ok) \/ c.pc = "cr_group"

Joins(c, r, u, g) ==
  \/ Adds(c, u, g)
  \/ c.pc = "con_rows" /\ c.user = u /\ c.ran /\ c.k = r /\ g \in c.read

Reading(c, r, u) == c.pc = "con_rows" /\ c.user = u /\ ~c.ran /\ c.k = r

Leaves(c, u, g) == c.pc = "lv_rows" /\ c.ran /\ c.ok /\ c.user = u /\ c.g = g

\* Whoever has run its query goes on or fails.
LEMMA RanSteps ==
  ASSUME TypeOK, NEW s \in Slots, SlotStep(s), call[s].ran,
         call[s].pc \in {"add_upsert", "cr_group", "con_rows", "lv_rows"}
  PROVE  Fail(s) \/ RoomsJoined(s) \/ GroupCreated(s) \/ UserAdded(s) \/ Left(s)
BY DEF SlotStep, CreateNewGroup, AddUserToGroup, LeaveGroup, Issue, Continue, AccessChecked,
       UserFound, Counted, GroupDeleted, Effect, CommitMemberships, CommitCreate,
       CommitAccess, CommitUpsert, CommitLeave, CommitCount, CommitDelete, Commit, At,
       Resumes

LEMMA FailRaces ==
  ASSUME TypeOK, NEW s \in Slots, Fail(s), NEW u \in Users, NEW g \in Groups,
         call[s].user = u, call[s].pc = "con_rows" \/ call[s].g = g
  PROVE  <<u, g>> \in hist'.raced
<1> DEFINE gs == IF call[s].pc = "con_rows" THEN Groups ELSE {call[s].g} \ {None}
           bad == {call[s].g} \ {None}
<1>1. g \in gs
  BY NoneAssumption
<1>2. hist' = [hist EXCEPT !.raced = @ \cup ({u} \X gs), !.failed = @ \cup bad]
  BY DEF Fail
<1> HIDE DEF gs, bad
<1>3. hist'.raced = hist.raced \cup ({u} \X gs)
  BY <1>2 DEF TypeOK, HistType
<1>4. QED
  BY <1>1, <1>3

\* Whoever is going to join a room joins it.
LEMMA JoinEnds ==
  ASSUME TypeOK, Registered, NEW s \in Slots, SlotStep(s), NEW u \in Users, NEW g \in Groups,
         Joins(call[s], reg[u], u, g), <<u, g>> \notin hist'.raced, reg[u] # None
  PROVE  g \in sock'[reg[u]].rooms
<1> DEFINE c == call[s]
           r == reg[u]
<1>1. r \in Sockets /\ CallOK(c) /\ sock[r].open
  BY StateTyped DEF Registered
<1>2. ~Fail(s)
  BY FailRaces DEF Joins, Adds
<1>3. RoomsJoined(s) \/ GroupCreated(s) \/ UserAdded(s)
  BY <1>2, RanSteps DEF Joins, Adds, Left, Resumes, At
<1>4. CASE RoomsJoined(s)
  <2>1. c.k = r /\ g \in c.read
    BY <1>4 DEF RoomsJoined, Resumes, At, Joins, Adds
  <2>2. sock' = [sock EXCEPT ![r].rooms = @ \cup c.read]
    BY <1>1, <1>4, <2>1 DEF RoomsJoined
  <2>3. sock'[r].rooms = sock[r].rooms \cup c.read
    BY <1>1, <2>2, StateTyped DEF TypeOK, SockType
  <2>4. QED
    BY <2>1, <2>3
<1>5. CASE GroupCreated(s)
  <2>1. c.user = u /\ c.g = g /\ sock' = Joined(u, g)
    BY <1>5 DEF GroupCreated, Resumes, At, Joins, Adds
  <2>2. JoinSteps(u, g, r)
    BY <1>1, JoinedSocket
  <2>3. QED
    BY <2>1, <2>2 DEF JoinSteps
<1>6. CASE UserAdded(s)
  <2>1. c.user = u /\ c.g = g /\ sock' = Notified(Joined(u, g), g)
    BY <1>6 DEF UserAdded, Resumes, At, Joins, Adds
  <2>2. JoinSteps(u, g, r) /\ SocketsLike(Joined(u, g))
    BY <1>1, JoinedSocket, JoinedTyped
  <2>3. sock'[r].rooms = Joined(u, g)[r].rooms
    <3>1. Notified(Joined(u, g), g)[r].rooms = Joined(u, g)[r].rooms
      BY <1>1, <2>2, NotifiedSocket
    <3>2. QED
      BY <2>1, <3>1
  <2>4. QED
    BY <2>2, <2>3 DEF JoinSteps
<1>7. QED
  BY <1>3, <1>4, <1>5, <1>6

\* Whoever is going to leave a room leaves it.
LEMMA LeaveEnds ==
  ASSUME TypeOK, NEW s \in Slots, SlotStep(s), NEW u \in Users, NEW g \in Groups,
         Leaves(call[s], u, g), <<u, g>> \notin hist'.raced, reg[u] # None
  PROVE  g \notin sock'[reg[u]].rooms
<1>1. reg[u] \in Sockets
  BY StateTyped
<1>2. Left(s)
  BY FailRaces, RanSteps DEF Leaves, RoomsJoined, GroupCreated, UserAdded, Resumes, At
<1>3. sock' = Departed(u, g)
  BY <1>2 DEF Left, Leaves
<1>4. DepartSteps(u, g, reg[u])
  BY <1>1, JoinedSocket
<1>5. QED
  BY <1>3, <1>4 DEF DepartSteps

\* A room is entered and left by those who do so only.
LEMMA RoomsKept ==
  ASSUME TypeOK, Registered, NEW s \in Slots, SlotStep(s), NEW u \in Users, NEW g \in Groups,
         reg[u] # None
  PROVE  /\ g \in sock'[reg[u]].rooms =>
              g \in sock[reg[u]].rooms \/ Joins(call[s], reg[u], u, g)
         /\ g \in sock[reg[u]].rooms =>
              g \in sock'[reg[u]].rooms \/ Leaves(call[s], u, g)
<1> DEFINE c == call[s]
           r == reg[u]
<1>1. r \in Sockets /\ CallOK(c) /\ sock[r].user = u
  BY StateTyped DEF Registered
<1>2. RoomStep(s, r)
  BY <1>1, SlotRooms
<1>3. RoomsJoined(s) /\ r = c.k => c.user = u /\ c.pc = "con_rows" /\ c.ran
  BY <1>1 DEF RoomsJoined, Resumes, At, Registered
<1>4. ASSUME r = reg[c.user], GroupCreated(s) \/ UserAdded(s) \/ Left(s) PROVE c.user = u
  BY <1>1, <1>4 DEF GroupCreated, UserAdded, Left, Resumes, At, CallOK, Registered
<1>5. GroupCreated(s) => c.pc = "cr_group" /\ c.ran
  BY DEF GroupCreated, Resumes, At
<1>6. UserAdded(s) => c.pc = "add_upsert" /\ c.ran
  BY DEF UserAdded, Resumes, At
<1>7. Left(s) => c.pc = "lv_rows" /\ c.ran
  BY DEF Left, Resumes, At
<1>8. QED
  BY <1>2, <1>3, <1>4, <1>5, <1>6, <1>7 DEF RoomStep, SameRooms, Joins, Adds, Leaves

\* Only an effect leaves a handler about to join or to leave a room.
LEMMA RanIsEffect ==
  ASSUME TypeOK, NEW s \in Slots, SlotStep(s), call'[s].ran,
         call'[s].pc \in {"add_upsert", "cr_group", "con_rows", "lv_rows"}
  PROVE  CommitUpsert(s) \/ CommitCreate(s) \/ CommitMemberships(s) \/ CommitLeave(s)
<1>1. call[s] \in CallType
  BY StateTyped
<1>2. CASE Continue(s)
  <2>1. /\ NoCall.pc = "idle" /\ [call[s] EXCEPT !.pc = "add_find"].pc = "add_find"
        /\ \A pc \in Pcs : ~[call[s] EXCEPT !.pc = pc, !.ran = FALSE].ran
    BY <1>1 DEF NoCall, CallType
  <2>2. {"add_upsert", "lv_count", "lv_delete"} \subseteq Pcs
    BY DEF Pcs
  <2>3. call'[s].pc \in {"idle", "add_find"} \/ ~call'[s].ran
    BY <1>2, <2>1, <2>2, ContinueMoves
  <2>4. QED
    BY <2>3
<1>3. CASE Effect(s)
  <2>1. call'[s].pc = call[s].pc
    BY <1>1, <1>3 DEF Effect, CommitMemberships, CommitCreate, CommitAccess, CommitUpsert,
           CommitLeave, CommitCount, CommitDelete, Commit, At, Answer, TypeOK, CallType
  <2>2. QED
    BY <1>3, <2>1 DEF Effect, CommitAccess, CommitCount, CommitDelete, Commit, At
<1>4. QED
  BY <1>2, <1>3, RequestMoves, FailMoves DEF SlotStep, NoCall

\* What the effects leave in their handlers.
LEMMA Answered ==
  ASSUME TypeOK, NEW s \in Slots, NEW ok, Answer(s, ok), UNCHANGED hist
  PROVE  /\ call'[s].pc = call[s].pc /\ call'[s].user = call[s].user
         /\ call'[s].g = call[s].g /\ call'[s].k = call[s].k
         /\ call'[s].read = call[s].read /\ call'[s].ran /\ call'[s].ok = ok
<1>1. call'[s] = [call[s] EXCEPT !.ran = TRUE, !.ok = ok]
  BY AnswerSlot
<1>2. call[s] \in CallType
  BY StateTyped
<1>3. QED
  BY <1>1, <1>2 DEF CallType

LEMMA UpsertStep ==
  ASSUME TypeOK, NEW s \in Slots, CommitUpsert(s)
  PROVE  LET c == call[s]
             d == call'[s]
         IN  /\ c.pc = "add_upsert" /\ d.pc = "add_upsert" /\ d.user = c.user /\ d.g = c.g
             /\ c.user \in Users /\ c.g \in Groups
             /\ ~c.ran /\ d.ran /\ d.ok = (status[c.g] = "live")
             /\ rows' = IF d.ok THEN rows \cup {<<c.user, c.g>>} ELSE rows
<1> DEFINE ok == status[call[s].g] = "live"
<1>1. /\ Answer(s, ok) /\ UNCHANGED hist /\ call[s].pc = "add_upsert" /\ ~call[s].ran
      /\ rows' = IF ok THEN rows \cup {<<call[s].user, call[s].g>>} ELSE rows
  BY DEF CommitUpsert, Commit, At
<1> HIDE DEF ok
<1>2. call[s].user \in Users /\ call[s].g \in Groups
  BY <1>1, StateTyped DEF CallOK
<1>3. QED
  BY <1>1, <1>2, Answered DEF ok

LEMMA CreateStep ==
  ASSUME TypeOK, NEW s \in Slots, CommitCreate(s)
  PROVE  LET c == call[s]
             d == call'[s]
         IN  /\ c.pc = "cr_group" /\ d.pc = "cr_group" /\ d.user = c.user /\ d.g \in Groups
             /\ c.user \in Users /\ ~c.ran /\ d.ran /\ status[d.g] = "none"
             /\ rows' = rows \cup {<<c.user, d.g>>}
<1>1. PICK g \in Groups : /\ status[g] = "none" /\ rows' = rows \cup {<<call[s].user, g>>}
                          /\ call' = [call EXCEPT ![s].ran = TRUE, ![s].g = g]
  BY DEF CommitCreate
<1>2. call'[s] = [call[s] EXCEPT !.ran = TRUE, !.g = g] /\ call[s] \in CallType
  BY <1>1, StateTyped DEF TypeOK
<1>3. call'[s].pc = call[s].pc /\ call'[s].user = call[s].user /\ call'[s].ran
      /\ call'[s].g = g
  BY <1>2 DEF CallType
<1>4. call[s].pc = "cr_group" /\ ~call[s].ran /\ call[s].user \in Users
  BY StateTyped DEF CommitCreate, Commit, At, CallOK
<1>5. QED
  BY <1>1, <1>3, <1>4

LEMMA LeaveStep ==
  ASSUME TypeOK, NEW s \in Slots, CommitLeave(s)
  PROVE  LET c == call[s]
             d == call'[s]
         IN  /\ c.pc = "lv_rows" /\ d.pc = "lv_rows" /\ d.user = c.user /\ d.g = c.g
             /\ c.user \in Users /\ c.g \in Groups
             /\ ~c.ran /\ d.ran /\ d.ok = (<<c.user, c.g>> \in rows)
             /\ rows' = rows \ {<<c.user, c.g>>}
<1> DEFINE ok == <<call[s].user, call[s].g>> \in rows
<1>1. /\ Answer(s, ok) /\ UNCHANGED hist /\ call[s].pc = "lv_rows" /\ ~call[s].ran
      /\ rows' = rows \ {<<call[s].user, call[s].g>>}
  BY DEF CommitLeave, Commit, At
<1> HIDE DEF ok
<1>2. call[s].user \in Users /\ call[s].g \in Groups
  BY <1>1, StateTyped DEF CallOK
<1>3. QED
  BY <1>1, <1>2, Answered DEF ok

LEMMA ReadStep ==
  ASSUME TypeOK, NEW s \in Slots, CommitMemberships(s)
  PROVE  LET c == call[s]
             d == call'[s]
         IN  /\ c.pc = "con_rows" /\ d.pc = "con_rows" /\ d.user = c.user /\ d.k = c.k
             /\ c.user \in Users /\ ~c.ran /\ d.ran
             /\ d.read = {g \in Groups : <<c.user, g>> \in rows} /\ rows' = rows
<1> DEFINE R == {g \in Groups : <<call[s].user, g>> \in rows}
<1>1. /\ call' = [call EXCEPT ![s].ran = TRUE, ![s].read = R]
      /\ call[s].pc = "con_rows" /\ ~call[s].ran /\ rows' = rows
  BY DEF CommitMemberships, Commit, At
<1> HIDE DEF R
<1>2. call'[s] = [call[s] EXCEPT !.ran = TRUE, !.read = R] /\ call[s] \in CallType
  BY <1>1, StateTyped DEF TypeOK
<1>3. call'[s].pc = call[s].pc /\ call'[s].user = call[s].user /\ call'[s].k = call[s].k
      /\ call'[s].ran /\ call'[s].read = R
  BY <1>2 DEF CallType
<1>4. call[s].user \in Users
  BY <1>1, StateTyped DEF CallOK
<1>5. QED
  BY <1>1, <1>3, <1>4 DEF R

\* Whoever is about to join a room has just seen or made the row, whoever is
\* about to leave has removed it.
LEMMA Begins ==
  ASSUME TypeOK, NEW s \in Slots, SlotStep(s), NEW u \in Users, NEW g \in Groups, NEW r
  PROVE  /\ Joins(call'[s], r, u, g) => <<u, g>> \in rows'
         /\ Leaves(call'[s], u, g) => <<u, g>> \notin rows'
<1>1. ASSUME Joins(call'[s], r, u, g) PROVE <<u, g>> \in rows'
  <2>1. CommitUpsert(s) \/ CommitCreate(s) \/ CommitMemberships(s)
    <3>1. call'[s].ran /\ call'[s].pc \in {"add_upsert", "cr_group", "con_rows"}
      BY <1>1 DEF Joins, Adds
    <3>2. QED
      BY <3>1, RanIsEffect, LeaveStep
  <2>2. QED
    BY <1>1, <2>1, UpsertStep, CreateStep, ReadStep DEF Joins, Adds
<1>2. ASSUME Leaves(call'[s], u, g) PROVE <<u, g>> \notin rows'
  <2>1. CommitLeave(s)
    BY <1>2, RanIsEffect, UpsertStep, CreateStep, ReadStep DEF Leaves
  <2>2. QED
    BY <1>2, <2>1, LeaveStep DEF Leaves
<1>3. QED
  BY <1>1, <1>2

\* A reader goes on to join what it has read.
LEMMA ReadingEnds ==
  ASSUME TypeOK, NEW s \in Slots, SlotStep(s), NEW u \in Users, NEW g \in Groups, NEW r,
         Reading(call[s], r, u), <<u, g>> \notin hist'.raced, <<u, g>> \in rows'
  PROVE  Joins(call'[s], r, u, g)
<1>1. ~Fail(s)
  BY FailRaces DEF Reading
<1>2. CommitMemberships(s)
  BY <1>1 DEF Reading, SlotStep, CreateNewGroup, AddUserToGroup, LeaveGroup, Issue, Continue,
       RoomsJoined, GroupCreated, AccessChecked, UserFound, UserAdded, Left, Counted,
       GroupDeleted, Effect, CommitCreate, CommitAccess, CommitUpsert, CommitLeave,
       CommitCount, CommitDelete, Commit, At, Resumes
<1>3. QED
  BY <1>2, ReadStep DEF Reading, Joins, Adds

LEMMA RowsKept ==
  ASSUME KeptInv, Told, NEW s \in Slots, SlotStep(s), NEW u \in Users, NEW g \in Groups
  PROVE  /\ <<u, g>> \in rows' => <<u, g>> \in rows \/ Adds(call'[s], u, g)
         /\ <<u, g>> \in rows => \/ <<u, g>> \in rows' \/ Leaves(call'[s], u, g)
                                 \/ g \in hist.contested
<1>1. TypeOK
  BY DEF KeptInv
<1>2. CASE CommitCreate(s)
  BY <1>1, <1>2, CreateStep DEF Adds
<1>3. CASE CommitUpsert(s)
  BY <1>1, <1>3, UpsertStep DEF Adds
<1>4. CASE CommitLeave(s)
  BY <1>1, <1>4, LeaveStep DEF Leaves
<1>5. CASE CommitDelete(s)
  <2>1. call[s].pc = "lv_delete" /\ ~call[s].ran /\ rows' = {p \in rows : p[2] # call[s].g}
    BY <1>5 DEF CommitDelete, Commit, At
  <2>2. ASSUME <<u, g>> \in rows, <<u, g>> \notin rows' PROVE g \in hist.contested
    <3>1. g = call[s].g /\ status[g] = "live" /\ u \in MembersOf(g)
      BY <2>1, <2>2 DEF Told, MembersOf
    <3>2. Judged(call[s])
      BY DEF KeptInv
    <3>3. QED
      BY <2>1, <3>1, <3>2 DEF Judged, Doomed
  <2>3. QED
    BY <2>1, <2>2
<1>6. QED
  BY <1>1, <1>2, <1>3, <1>4, <1>5, SlotRows

RoomsInv == KeptInv /\ Overlaps /\ Registered /\ Told

LEMMA InitRooms == Init /\ TypeOK => RoomsInv
<1> SUFFICES ASSUME Init, TypeOK PROVE RoomsInv
  OBVIOUS
<1>1. Overlaps /\ Registered
  BY DEF Init, Overlaps, Races, Haunts, Pair, NoCall, Registered, At
<1>2. Told
  BY DEF Init, Told, Closed
<1>3. QED
  BY <1>1, <1>2, InitKept DEF RoomsInv

LEMMA NextRooms == RoomsInv /\ [Next]_vars => RoomsInv'
BY NextKept, NextOverlaps, NextRegistered, NextTold DEF RoomsInv

\* A member's socket is in the room unless somebody is about to put it there,
\* and nobody is about to take it out.
Hears ==
  /\ \A u \in Users, g \in Groups :
       <<u, g>> \in rows \ hist.raced /\ reg[u] # None =>
         \/ g \in sock[reg[u]].rooms
         \/ \E s \in Slots : Joins(call[s], reg[u], u, g) \/ Reading(call[s], reg[u], u)
  /\ \A s \in Slots, u \in Users, g \in Groups :
       Leaves(call[s], u, g) => <<u, g>> \notin rows \ hist.raced

HearsInv == RoomsInv /\ Hears

LEMMA SlotHears ==
  ASSUME HearsInv, RoomsInv', NEW s \in Slots, SlotStep(s)
  PROVE  Hears'
<1>1. TypeOK /\ KeptInv /\ Told /\ Registered /\ Moves(s) /\ Overlaps'
  BY SlotMoves DEF HearsInv, RoomsInv, KeptInv
<1>2. reg' = reg /\ hist.raced \subseteq hist'.raced
      /\ \A t \in Slots \ {s} : call'[t] = call[t]
  BY <1>1 DEF Moves
<1>3. ASSUME NEW t \in Slots, NEW u \in Users, NEW g \in Groups, Leaves(call'[t], u, g),
             <<u, g>> \in rows'
      PROVE  <<u, g>> \in hist'.raced
  <2>1. t # s /\ Leaves(call[t], u, g)
    BY <1>1, <1>2, <1>3, Begins
  <2>2. CASE <<u, g>> \in rows
    BY <1>2, <2>1, <2>2 DEF HearsInv, Hears
  <2>3. CASE <<u, g>> \notin rows
    <3>1. Adds(call'[s], u, g)
      BY <1>1, <1>3, <2>3, RowsKept
    <3>2. Races(call'[s], call'[t]) /\ call'[t].user = u /\ call'[t].g = g
      BY <1>3, <3>1 DEF Races, Pair, Adds, Leaves
    <3>3. QED
      BY <1>1, <3>2 DEF Overlaps
  <2>4. QED
    BY <2>2, <2>3
<1>4. ASSUME NEW u \in Users, NEW g \in Groups, <<u, g>> \in rows', <<u, g>> \notin hist'.raced,
             reg'[u] # None
      PROVE  \/ g \in sock'[reg[u]].rooms
             \/ \E t \in Slots : Joins(call'[t], reg[u], u, g) \/ Reading(call'[t], reg[u], u)
  <2>1. CASE <<u, g>> \notin rows
    BY <1>1, <1>4, <2>1, RowsKept DEF Joins
  <2>2. CASE <<u, g>> \in rows /\ g \in sock[reg[u]].rooms
    <3>1. ~Leaves(call[s], u, g)
      BY <1>2, <1>4, <2>2 DEF HearsInv, Hears
    <3>2. QED
      BY <1>1, <1>2, <1>4, <2>2, <3>1, RoomsKept
  <2>3. ASSUME NEW t \in Slots, Joins(call[t], reg[u], u, g) \/ Reading(call[t], reg[u], u)
        PROVE  \/ g \in sock'[reg[u]].rooms
               \/ \E q \in Slots : Joins(call'[q], reg[u], u, g) \/ Reading(call'[q], reg[u], u)
    <3>1. CASE t # s
      BY <1>2, <2>3, <3>1
    <3>2. CASE t = s /\ Joins(call[s], reg[u], u, g)
      BY <1>1, <1>2, <1>4, <3>2, JoinEnds
    <3>3. CASE t = s /\ Reading(call[s], reg[u], u)
      BY <1>1, <1>4, <3>3, ReadingEnds
    <3>4. QED
      BY <2>3, <3>1, <3>2, <3>3
  <2>4. QED
    BY <1>2, <1>4, <2>1, <2>2, <2>3 DEF HearsInv, Hears
<1>5. QED
  BY <1>2, <1>3, <1>4 DEF Hears, Joins, Adds, Reading, Leaves

\* A connection forgets nothing of what goes on.
LEMMA ConnectForgets ==
  ASSUME TypeOK, NEW s \in Slots, NEW k \in Sockets, NEW u \in Users, HandleConnection(s, k, u)
  PROVE  /\ hist'.contested = hist.contested /\ hist'.failed = hist.failed
         /\ \A v \in Users, g \in Groups :
              v # u \/ (\E t \in Slots \ {s} : Adds(call[t], v, g) \/ Leaves(call[t], v, g)) =>
                /\ <<v, g>> \in hist.raced => <<v, g>> \in hist'.raced
                /\ <<v, g>> \in hist.ghosts => <<v, g>> \in hist'.ghosts
<1> DEFINE c == [NoCall EXCEPT !.pc = "con_rows", !.user = u, !.k = k]
           past == {p \in Pairs : p[1] = u /\ \A d \in Others(s) : ~Touches(d, u, p[2])}
<1>1. hist' = [hist EXCEPT !.raced = @ \ past, !.ghosts = (@ \ past) \cup Ghosts(s, c)]
  BY DEF HandleConnection
<1>2. ASSUME NEW v \in Users, NEW g \in Groups,
             v # u \/ \E t \in Slots \ {s} : Adds(call[t], v, g) \/ Leaves(call[t], v, g)
      PROVE  <<v, g>> \notin past
  <2>1. CASE v # u
    BY <2>1
  <2>2. ASSUME v = u, NEW t \in Slots \ {s}, Adds(call[t], v, g) \/ Leaves(call[t], v, g)
        PROVE  <<v, g>> \notin past
    BY <2>2 DEF Others, Touches, Adds, Leaves
  <2>3. QED
    BY <1>2, <2>1, <2>2
<1> HIDE DEF c, past
<1>3. /\ hist'.raced = hist.raced \ past /\ hist'.contested = hist.contested
      /\ hist'.failed = hist.failed
      /\ hist'.ghosts = (hist.ghosts \ past) \cup Ghosts(s, c)
  BY <1>1 DEF TypeOK, HistType
<1>4. QED
  BY <1>2, <1>3

LEMMA ConnectHears ==
  ASSUME HearsInv, NEW s \in Slots, NEW k \in Sockets, NEW u \in Users,
         HandleConnection(s, k, u)
  PROVE  Hears'
<1>1. TypeOK /\ Registered
  BY DEF HearsInv, RoomsInv, KeptInv
<1>2. Connected(s, k, u)
  BY <1>1, ConnectRegistered
<1>3. call'[s].pc = "con_rows" /\ call'[s].user = u /\ call'[s].k = k /\ ~call'[s].ran
  BY <1>2 DEF Connected
<1>4. call[s].pc = "idle"
  BY <1>2 DEF Connected
<1>5. ASSUME NEW t \in Slots, NEW v \in Users, NEW g \in Groups, Leaves(call'[t], v, g)
      PROVE  <<v, g>> \notin rows' \ hist'.raced
  <2>1. t # s /\ Leaves(call[t], v, g)
    BY <1>2, <1>3, <1>5 DEF Leaves, Connected
  <2>2. QED
    BY <1>1, <1>2, <2>1, ConnectForgets DEF HearsInv, Hears, Connected
<1>6. ASSUME NEW v \in Users, NEW g \in Groups, <<v, g>> \in rows', <<v, g>> \notin hist'.raced,
             reg'[v] # None
      PROVE  \/ g \in sock'[reg'[v]].rooms
             \/ \E t \in Slots : Joins(call'[t], reg'[v], v, g) \/ Reading(call'[t], reg'[v], v)
  <2>1. CASE v = u
    <3>1. reg'[v] = k
      BY <1>1, <1>2, <2>1 DEF TypeOK, Connected
    <3>2. Reading(call'[s], reg'[v], v)
      BY <1>3, <2>1, <3>1 DEF Reading
    <3>3. QED
      BY <3>2
  <2>2. CASE v # u
    <3>1. reg'[v] = reg[v] /\ reg[v] \in Sockets /\ sock[reg[v]].user = v
      BY <1>1, <1>2, <1>6, <2>2, StateTyped DEF TypeOK, Registered, Connected
    <3>2. sock'[reg[v]] = sock[reg[v]]
      BY <1>2, <3>1, NoneAssumption DEF Connected
    <3>3. <<v, g>> \in rows \ hist.raced
      BY <1>1, <1>2, <1>6, <2>2, ConnectForgets DEF Connected
    <3>4. \/ g \in sock[reg[v]].rooms
          \/ \E t \in Slots : Joins(call[t], reg[v], v, g) \/ Reading(call[t], reg[v], v)
      BY <1>6, <3>1, <3>3 DEF HearsInv, Hears
    <3>5. \A t \in Slots : Joins(call[t], reg[v], v, g) \/ Reading(call[t], reg[v], v)
                           => call'[t] = call[t]
      BY <1>2, <1>4 DEF Joins, Adds, Reading, Connected
    <3>6. QED
      BY <3>1, <3>2, <3>4, <3>5
  <2>3. QED
    BY <2>1, <2>2
<1>7. QED
  BY <1>5, <1>6 DEF Hears, Joins, Adds, Reading, Leaves

LEMMA DisconnectHears ==
  ASSUME HearsInv, NEW k \in Sockets, HandleDisconnect(k)
  PROVE  Hears'
<1>1. TypeOK /\ Registered
  BY DEF HearsInv, RoomsInv, KeptInv
<1>2. /\ \A u \in Users : reg'[u] # None => reg'[u] = reg[u] /\ reg[u] # k
      /\ \A j \in Sockets \ {k} : sock'[j] = sock[j]
      /\ rows' = rows /\ call' = call /\ hist' = hist
  BY <1>1, DisconnectRegistered
<1>3. ASSUME NEW v \in Users, NEW g \in Groups, <<v, g>> \in rows', <<v, g>> \notin hist'.raced,
             reg'[v] # None
      PROVE  \/ g \in sock'[reg'[v]].rooms
             \/ \E t \in Slots : Joins(call'[t], reg'[v], v, g) \/ Reading(call'[t], reg'[v], v)
  <2>1. reg'[v] = reg[v] /\ reg[v] # None /\ sock'[reg[v]] = sock[reg[v]]
    BY <1>1, <1>2, <1>3, StateTyped
  <2>2. QED
    BY <1>2, <1>3, <2>1 DEF HearsInv, Hears
<1>4. QED
  BY <1>2, <1>3 DEF HearsInv, Hears, Joins, Adds, Reading, Leaves

LEMMA NextHears == HearsInv /\ [Next]_vars => HearsInv'
<1> SUFFICES ASSUME HearsInv, [Next]_vars PROVE HearsInv'
  OBVIOUS
<1>1. RoomsInv'
  BY NextRooms DEF HearsInv
<1>2. ASSUME UNCHANGED vars PROVE Hears'
  BY <1>2 DEF vars, HearsInv, Hears, Joins, Adds, Reading, Leaves
<1>3. ASSUME Crash PROVE Hears'
  BY <1>3, CrashRegistered DEF Hears, Leaves, NoCall
<1>4. ASSUME NEW s \in Slots, SlotStep(s) PROVE Hears'
  BY <1>1, <1>4, SlotHears
<1>5. Hears'
  BY <1>2, <1>3, <1>4, ConnectHears, DisconnectHears DEF Next, Requests, SlotStep, HearsInv
<1>6. QED
  BY <1>1, <1>5 DEF HearsInv

\* A member's newest socket is in the room of every group it is a member of
\* (GroupEventsGateway.handleConnection, addUserToGroup).
THEOREM NewestHears == Spec => []MembersHear
<1>1. Init => Hears
  BY DEF Init, Hears, Leaves, NoCall
<1>2. Init /\ TypeOK => HearsInv
  BY <1>1, InitRooms DEF HearsInv
<1>3. HearsInv => MembersHear
  <2> SUFFICES ASSUME HearsInv, NEW u \in Users, NEW g \in Groups, Settled(u, g),
                      latest[u] # None, <<u, g>> \in rows
               PROVE  g \in sock[latest[u]].rooms
    BY DEF MembersHear
  <2>1. latest = reg
    BY DEF HearsInv, RoomsInv, Registered
  <2>2. <<u, g>> \in rows \ hist.raced
    BY DEF Settled
  <2>3. \A s \in Slots : ~Joins(call[s], reg[u], u, g) /\ ~Reading(call[s], reg[u], u)
    BY DEF Settled, Untouched, Touches, Joins, Adds, Reading
  <2>4. QED
    BY <2>1, <2>2, <2>3 DEF HearsInv, Hears
<1>4. QED
  BY <1>2, <1>3, NextHears, TypeCorrect, PTL DEF Spec


-----------------------------------------------------------------------------
(* A socket is in rooms of its user's groups only: what a handler is about   *)
(* to join is a membership, and a room whose row is gone is being left.      *)

Clean(u, g) == <<u, g>> \notin hist.raced \cup hist.ghosts /\ g \notin hist.contested

HearsOnly ==
  \A u \in Users, g \in Groups : Clean(u, g) =>
    /\ reg[u] # None /\ g \in sock[reg[u]].rooms
         => <<u, g>> \in rows \/ \E s \in Slots : Leaves(call[s], u, g)
    /\ \A s \in Slots : Joins(call[s], reg[u], u, g) => <<u, g>> \in rows

HearsOnlyInv == RoomsInv /\ HearsOnly

LEMMA SlotHearsOnly ==
  ASSUME HearsOnlyInv, RoomsInv', NEW s \in Slots, SlotStep(s)
  PROVE  HearsOnly'
<1>1. TypeOK /\ KeptInv /\ Told /\ Registered /\ Moves(s) /\ Overlaps'
  BY SlotMoves DEF HearsOnlyInv, RoomsInv, KeptInv
<1>2. /\ reg' = reg /\ \A t \in Slots \ {s} : call'[t] = call[t]
      /\ hist.raced \subseteq hist'.raced /\ hist.ghosts \subseteq hist'.ghosts
      /\ hist.contested \subseteq hist'.contested
  BY <1>1 DEF Moves
<1>3. ASSUME NEW u \in Users, NEW g \in Groups, Clean(u, g)', <<u, g>> \in rows
      PROVE  <<u, g>> \in rows' \/ Leaves(call'[s], u, g)
  BY <1>1, <1>2, <1>3, RowsKept DEF Clean
<1>4. ASSUME NEW u \in Users, NEW g \in Groups, Clean(u, g)',
             NEW t \in Slots, Joins(call'[t], reg[u], u, g)
      PROVE  <<u, g>> \in rows'
  <2>1. CASE t = s
    BY <1>1, <1>4, <2>1, Begins
  <2>2. CASE t # s
    <3>1. call'[t] = call[t] /\ <<u, g>> \in rows
      BY <1>2, <1>4, <2>2 DEF Clean, HearsOnlyInv, HearsOnly
    <3>2. ~Leaves(call'[s], u, g)
      <4> SUFFICES ASSUME Leaves(call'[s], u, g) PROVE FALSE
        OBVIOUS
      <4>1. CASE Adds(call'[t], u, g)
        <5>1. Races(call'[s], call'[t]) /\ call'[t].user = u /\ call'[t].g = g
          BY <4>1 DEF Races, Pair, Adds, Leaves
        <5>2. QED
          BY <1>1, <1>4, <5>1 DEF Overlaps, Clean
      <4>2. CASE call'[t].pc = "con_rows" /\ call'[t].user = u
        <5>1. /\ Haunts(call'[s], call'[t]) /\ call'[t].user = u
              /\ Leaver(call'[s], call'[t]).g = g
          BY <4>2 DEF Haunts, Pair, Leaver, Leaves
        <5>2. QED
          BY <1>1, <1>4, <5>1 DEF Overlaps, Clean
      <4>3. QED
        BY <1>4, <4>1, <4>2 DEF Joins
    <3>3. QED
      BY <1>3, <1>4, <3>1, <3>2
  <2>3. QED
    BY <2>1, <2>2
<1>5. ASSUME NEW u \in Users, NEW g \in Groups, Clean(u, g)', reg'[u] # None,
             g \in sock'[reg'[u]].rooms
      PROVE  <<u, g>> \in rows' \/ \E t \in Slots : Leaves(call'[t], u, g)
  <2>1. Clean(u, g) /\ reg[u] # None /\ <<u, g>> \notin hist'.raced
    BY <1>2, <1>5 DEF Clean
  <2>2. <<u, g>> \in rows \/ \E t \in Slots : Leaves(call[t], u, g) /\ g \in sock[reg[u]].rooms
    <3>1. g \in sock[reg[u]].rooms \/ Joins(call[s], reg[u], u, g)
      BY <1>1, <1>2, <1>5, <2>1, RoomsKept
    <3>2. QED
      BY <2>1, <3>1 DEF HearsOnlyInv, HearsOnly
  <2>3. ASSUME NEW t \in Slots, Leaves(call[t], u, g) PROVE t # s
    BY <1>1, <1>2, <1>5, <2>1, <2>3, LeaveEnds
  <2>4. QED
    BY <1>2, <1>3, <1>5, <2>2, <2>3
<1>6. QED
  BY <1>2, <1>4, <1>5 DEF HearsOnly, Clean, Joins, Adds, Leaves


LEMMA ConnectHearsOnly ==
  ASSUME HearsOnlyInv, NEW s \in Slots, NEW k \in Sockets, NEW u \in Users,
         HandleConnection(s, k, u)
  PROVE  HearsOnly'
<1>1. TypeOK /\ Registered
  BY DEF HearsOnlyInv, RoomsInv, KeptInv
<1>2. Connected(s, k, u)
  BY <1>1, ConnectRegistered
<1>3. reg'[u] = k /\ \A v \in Users \ {u} : reg'[v] = reg[v]
  BY <1>1, <1>2 DEF Connected, TypeOK
<1>4. \A v \in Users \ {u} : reg[v] # None => reg[v] # k /\ sock'[reg[v]] = sock[reg[v]]
  BY <1>1, <1>2, StateTyped, NoneAssumption DEF Registered, Connected
<1>5. ASSUME NEW v \in Users, NEW g \in Groups, Clean(v, g)',
             v # u \/ \E t \in Slots \ {s} : Adds(call[t], v, g) \/ Leaves(call[t], v, g)
      PROVE  Clean(v, g)
  BY <1>1, <1>5, ConnectForgets DEF Clean
<1>6. ASSUME NEW v \in Users, NEW g \in Groups, Clean(v, g)',
             NEW t \in Slots, Joins(call'[t], reg'[v], v, g)
      PROVE  <<v, g>> \in rows'
  <2>1. t # s /\ call'[t] = call[t]
    BY <1>2, <1>6 DEF Connected, Joins, Adds
  <2>2. CASE Adds(call[t], v, g)
    BY <1>2, <1>5, <1>6, <2>1, <2>2 DEF HearsOnlyInv, HearsOnly, Joins, Connected
  <2>3. CASE ~Adds(call[t], v, g)
    <3>1. call[t].pc = "con_rows" /\ call[t].user = v /\ call[t].k = reg'[v]
      BY <1>6, <2>1, <2>3 DEF Joins
    <3>2. sock[call[t].k].user = v
      BY <1>1, <3>1 DEF Registered, At
    <3>3. v # u
      BY <1>2, <1>3, <3>1, <3>2, NoneAssumption DEF Connected
    <3>4. QED
      BY <1>2, <1>3, <1>5, <1>6, <2>1, <3>3 DEF HearsOnlyInv, HearsOnly, Connected
  <2>4. QED
    BY <2>2, <2>3
<1>7. ASSUME NEW v \in Users, NEW g \in Groups, Clean(v, g)', reg'[v] # None,
             g \in sock'[reg'[v]].rooms
      PROVE  <<v, g>> \in rows' \/ \E t \in Slots : Leaves(call'[t], v, g)
  <2>1. v # u
    BY <1>2, <1>3, <1>7 DEF Connected
  <2>2. Clean(v, g) /\ reg[v] # None /\ g \in sock[reg[v]].rooms
    BY <1>3, <1>4, <1>5, <1>7, <2>1
  <2>3. <<v, g>> \in rows \/ \E t \in Slots : Leaves(call[t], v, g)
    BY <2>2 DEF HearsOnlyInv, HearsOnly
  <2>4. \A t \in Slots : Leaves(call[t], v, g) => call'[t] = call[t]
    BY <1>2 DEF Connected, Leaves
  <2>5. QED
    BY <1>2, <2>3, <2>4 DEF Connected
<1>8. QED
  BY <1>6, <1>7 DEF HearsOnly, Clean, Joins, Adds, Leaves

LEMMA DisconnectHearsOnly ==
  ASSUME HearsOnlyInv, NEW k \in Sockets, HandleDisconnect(k)
  PROVE  HearsOnly'
<1>1. TypeOK /\ Registered
  BY DEF HearsOnlyInv, RoomsInv, KeptInv
<1>2. /\ \A u \in Users : reg'[u] # None => reg'[u] = reg[u] /\ reg[u] # k
      /\ \A j \in Sockets \ {k} : sock'[j] = sock[j]
      /\ rows' = rows /\ call' = call /\ hist' = hist
  BY <1>1, DisconnectRegistered
<1>3. ASSUME NEW v \in Users, NEW g \in Groups, Clean(v, g)', reg'[v] # None,
             g \in sock'[reg'[v]].rooms
      PROVE  <<v, g>> \in rows' \/ \E t \in Slots : Leaves(call'[t], v, g)
  <2>1. reg'[v] = reg[v] /\ reg[v] # None /\ sock'[reg[v]] = sock[reg[v]]
    BY <1>1, <1>2, <1>3, StateTyped
  <2>2. QED
    BY <1>2, <1>3, <2>1 DEF HearsOnlyInv, HearsOnly, Clean
<1>4. ASSUME NEW v \in Users, NEW g \in Groups, Clean(v, g)',
             NEW t \in Slots, Joins(call'[t], reg'[v], v, g)
      PROVE  <<v, g>> \in rows'
  <2>1. Joins(call[t], reg[v], v, g)
    <3>1. CASE Adds(call[t], v, g)
      BY <3>1 DEF Joins
    <3>2. CASE ~Adds(call[t], v, g)
      <4>1. call[t].k = reg'[v] /\ call[t].pc = "con_rows"
        BY <1>2, <1>4, <3>2 DEF Joins
      <4>2. reg'[v] # None
        BY <1>1, <4>1, StateTyped, NoneAssumption DEF CallOK
      <4>3. QED
        BY <1>2, <1>4, <4>2
    <3>3. QED
      BY <3>1, <3>2
  <2>2. QED
    BY <1>2, <1>4, <2>1 DEF HearsOnlyInv, HearsOnly, Clean
<1>5. QED
  BY <1>3, <1>4 DEF HearsOnly, Clean, Joins, Adds, Leaves

LEMMA NextHearsOnly == HearsOnlyInv /\ [Next]_vars => HearsOnlyInv'
<1> SUFFICES ASSUME HearsOnlyInv, [Next]_vars PROVE HearsOnlyInv'
  OBVIOUS
<1>1. RoomsInv'
  BY NextRooms DEF HearsOnlyInv
<1>2. ASSUME UNCHANGED vars PROVE HearsOnly'
  BY <1>2 DEF vars, HearsOnlyInv, HearsOnly, Clean, Joins, Adds, Leaves
<1>3. ASSUME Crash PROVE HearsOnly'
  BY <1>3, CrashRegistered DEF HearsOnly, Joins, Adds, NoCall
<1>4. ASSUME NEW s \in Slots, SlotStep(s) PROVE HearsOnly'
  BY <1>1, <1>4, SlotHearsOnly
<1>5. HearsOnly'
  BY <1>2, <1>3, <1>4, ConnectHearsOnly, DisconnectHearsOnly
     DEF Next, Requests, SlotStep, HearsOnlyInv
<1>6. QED
  BY <1>1, <1>5 DEF HearsOnlyInv

\* A user's newest socket is in no room of a group it has left, or was never
\* in, unless it was leaving while it connected (leaveGroup, handleConnection).
THEOREM NewestHearsOnly == Spec => []OnlyMembersHear
<1>1. Init => HearsOnly
  BY DEF Init, HearsOnly, Joins, Adds, NoCall
<1>2. Init /\ TypeOK => HearsOnlyInv
  BY <1>1, InitRooms DEF HearsOnlyInv
<1>3. HearsOnlyInv => OnlyMembersHear
  <2> SUFFICES ASSUME HearsOnlyInv, NEW u \in Users, NEW g \in Groups, Settled(u, g),
                      <<u, g>> \notin hist.ghosts, latest[u] # None,
                      g \in sock[latest[u]].rooms
               PROVE  <<u, g>> \in rows
    BY DEF OnlyMembersHear
  <2>1. latest = reg
    BY DEF HearsOnlyInv, RoomsInv, Registered
  <2>2. Clean(u, g)
    BY DEF Settled, Clean
  <2>3. \A s \in Slots : ~Leaves(call[s], u, g)
    BY DEF Settled, Untouched, Touches, Leaves
  <2>4. QED
    BY <2>1, <2>2, <2>3 DEF HearsOnlyInv, HearsOnly
<1>4. QED
  BY <1>2, <1>3, NextHearsOnly, TypeCorrect, PTL DEF Spec


-----------------------------------------------------------------------------
(* A socket that is due a GROUP_CHANGED for a group of its user's has        *)
(* somebody who will send it.                                                *)

\* Handler c has changed the members of g and has not told them yet.
Announcer(c, g) ==
  c.g = g /\ (\/ c.pc \in {"add_upsert", "lv_rows"} /\ c.ran /\ c.ok
              \/ c.pc \in {"lv_count", "lv_delete"})

DueAnnounced ==
  \A g \in Groups \ hist.failed, k \in Sockets :
    g \in sock[k].due /\ <<sock[k].user, g>> \in rows
      => \E s \in Slots : Announcer(call[s], g)

AnnouncedInv == RoomsInv /\ OrphanInv /\ DueAnnounced

\* Whoever is to tell a group goes on until it tells it, fails, or has deleted
\* the group.
LEMMA AnnouncerSteps ==
  ASSUME TypeOK, NEW s \in Slots, SlotStep(s), NEW g \in Groups, Announcer(call[s], g)
  PROVE  \/ Announcer(call'[s], g)
         \/ Fail(s) \/ GroupDeleted(s)
         \/ (UserAdded(s) \/ Counted(s)) /\ call[s].ok
<1> DEFINE c == call[s]
<1>1. c \in CallType
  BY StateTyped
<1>2. \/ Fail(s) \/ GroupDeleted(s) \/ UserAdded(s) \/ Left(s) \/ Counted(s)
      \/ CommitCount(s) \/ CommitDelete(s)
  BY DEF Announcer, SlotStep, CreateNewGroup, AddUserToGroup, LeaveGroup, Issue, Continue,
         RoomsJoined, GroupCreated, AccessChecked, UserFound, Effect, CommitMemberships,
         CommitCreate, CommitAccess, CommitUpsert, CommitLeave, Commit, At, Resumes
<1>3. UserAdded(s) \/ Left(s) => c.ok
  BY DEF UserAdded, Left, Resumes, At, Announcer
<1>4. ASSUME NEW pc \in {"lv_count", "lv_delete"}, Await(s, [c EXCEPT !.pc = pc, !.ran = FALSE])
      PROVE  Announcer(call'[s], g)
  <2> DEFINE d == [c EXCEPT !.pc = pc, !.ran = FALSE]
  <2>1. d \in CallType /\ d.pc = pc /\ d.g = c.g
    BY <1>1 DEF CallType, Pcs
  <2> HIDE DEF d
  <2>2. call'[s] = d
    BY <1>4, <2>1, AwaitSlot DEF d
  <2>3. QED
    BY <2>1, <2>2 DEF Announcer
<1>5. CASE Left(s)
  BY <1>3, <1>4, <1>5 DEF Left
<1>6. CASE Counted(s)
  BY <1>4, <1>6 DEF Counted
<1>7. CASE CommitCount(s)
  <2>1. c.pc = "lv_count" /\ UNCHANGED hist /\ Answer(s, MembersOf(c.g) # {})
    BY <1>7 DEF CommitCount, Commit, At
  <2>2. QED
    BY <2>1, Answered DEF Announcer
<1>8. CASE CommitDelete(s)
  <2>1. c.pc = "lv_delete" /\ UNCHANGED hist /\ Answer(s, status[c.g] = "live")
    BY <1>8 DEF CommitDelete, Commit, At
  <2>2. QED
    BY <2>1, Answered DEF Announcer
<1>9. QED
  BY <1>2, <1>3, <1>5, <1>6, <1>7, <1>8

\* notifyGroupChanged reaches every socket in the room.
LEMMA RoomTold ==
  ASSUME TypeOK, NEW s \in Slots, (UserAdded(s) \/ Counted(s)) /\ call[s].ok,
         NEW k \in Sockets, call[s].g \in sock[k].rooms
  PROVE  call[s].g \notin sock'[k].due
<1> DEFINE c == call[s]
<1>1. c.user \in Users /\ c.g \in Groups
  BY StateTyped DEF UserAdded, Counted, Resumes, At, CallOK
<1>2. CASE UserAdded(s)
  <2>1. sock' = Notified(Joined(c.user, c.g), c.g) /\ SocketsLike(Joined(c.user, c.g))
    BY <1>1, <1>2, JoinedTyped DEF UserAdded
  <2>2. JoinSteps(c.user, c.g, k)
    BY <1>1, JoinedSocket
  <2>3. c.g \in Joined(c.user, c.g)[k].rooms
    BY <2>2 DEF JoinSteps
  <2>4. sock'[k].due = IF c.g \in Joined(c.user, c.g)[k].rooms
                       THEN Joined(c.user, c.g)[k].due \ {c.g}
                       ELSE Joined(c.user, c.g)[k].due
    BY <1>1, <2>1, NotifiedSocket
  <2>5. QED
    BY <2>3, <2>4
<1>3. CASE Counted(s)
  <2>1. sock' = Notified(sock, c.g) /\ SocketsLike(sock)
    BY <1>3, JoinedTyped, StateTyped DEF Counted, TypeOK, SocketsLike
  <2>2. Notified(sock, c.g)[k].due
          = IF c.g \in sock[k].rooms THEN sock[k].due \ {c.g} ELSE sock[k].due
    BY <1>1, <2>1, NotifiedSocket
  <2>3. QED
    BY <2>1, <2>2
<1>4. QED
  BY <1>2, <1>3

\* Only whoever changes the members of a group makes a socket due, or gives a
\* socket that is due a row.
LEMMA DueBegins ==
  ASSUME KeptInv, Told, NEW s \in Slots, SlotStep(s), NEW g \in Groups, NEW k \in Sockets,
         NEW u \in Users, g \in sock'[k].due, <<u, g>> \in rows'
  PROVE  (g \in sock[k].due /\ <<u, g>> \in rows) \/ Announcer(call'[s], g)
<1>1. TypeOK /\ CallOK(call[s])
  BY StateTyped DEF KeptInv
<1>2. CASE g \notin sock[k].due
  <2>1. /\ g = call[s].g
        /\ \/ CommitUpsert(s) /\ status[g] = "live"
           \/ CommitLeave(s) /\ <<call[s].user, g>> \in rows
    BY <1>1, <1>2, SlotRooms DEF RoomStep, SameRooms
  <2>2. QED
    BY <1>1, <2>1, UpsertStep, LeaveStep DEF Announcer
<1>3. CASE g \in sock[k].due /\ <<u, g>> \notin rows
  <2>1. Adds(call'[s], u, g)
    BY <1>3, RowsKept
  <2>2. CommitUpsert(s) \/ CommitCreate(s)
    BY <1>1, <2>1, RanIsEffect, ReadStep, LeaveStep DEF Adds
  <2>3. ~CommitCreate(s)
    BY <1>1, <1>3, <2>1, CreateStep DEF Adds, Told
  <2>4. QED
    BY <1>1, <2>1, <2>2, <2>3, UpsertStep DEF Announcer, Adds
<1>4. QED
  BY <1>2, <1>3


LEMMA SlotAnnounced ==
  ASSUME AnnouncedInv, RoomsInv', NEW s \in Slots, SlotStep(s)
  PROVE  DueAnnounced'
<1>1. TypeOK /\ KeptInv /\ Told /\ Moves(s) /\ SocketsLike(sock')
  BY SlotMoves, SlotSockets DEF AnnouncedInv, RoomsInv, KeptInv
<1>2. TypeOK' /\ Told'
  BY DEF RoomsInv, KeptInv
<1>3. /\ hist.failed \subseteq hist'.failed
      /\ \A t \in Slots \ {s} : call'[t] = call[t]
  BY <1>1 DEF Moves
<1> SUFFICES ASSUME NEW g \in Groups \ hist'.failed, NEW k \in Sockets,
                    g \in sock'[k].due, <<sock'[k].user, g>> \in rows'
             PROVE  \E t \in Slots : Announcer(call'[t], g)
  BY DEF DueAnnounced, Announcer
<1> DEFINE u == sock[k].user
<1>4. sock'[k].user = u /\ <<u, g>> \in rows' /\ u \in Users
  BY <1>1, <1>2 DEF SocketsLike, TypeOK, Pairs
<1>5. CASE g \in sock[k].due /\ <<u, g>> \in rows
  <2>1. PICK t \in Slots : Announcer(call[t], g)
    BY <1>3, <1>5 DEF AnnouncedInv, DueAnnounced
  <2>2. CASE t # s
    BY <1>3, <2>1, <2>2
  <2>3. CASE t = s
    <3>1. ~Fail(s)
      <4>1. CASE Fail(s)
        <5> DEFINE gs == IF call[s].pc = "con_rows" THEN Groups ELSE {call[s].g} \ {None}
                   raced == {call[s].user} \X gs
        <5>1. hist' = [hist EXCEPT !.raced = @ \cup raced,
                                   !.failed = @ \cup ({call[s].g} \ {None})]
          BY <4>1 DEF Fail
        <5> HIDE DEF raced
        <5>2. hist'.failed = hist.failed \cup ({call[s].g} \ {None})
          BY <1>1, <5>1 DEF TypeOK, HistType
        <5>3. call[s].g = g /\ g # None
          BY <2>1, <2>3, NoneAssumption DEF Announcer
        <5>4. QED
          BY <5>2, <5>3
      <4>2. QED
        BY <4>1
    <3>2. ~GroupDeleted(s)
      <4>1. GroupDeleted(s) => status[g] = "gone"
        BY <2>1, <2>3 DEF AnnouncedInv, OrphanInv, DeletedGone, GroupDeleted, Resumes, At,
             Announcer
      <4>2. status[g] = "live"
        BY <1>1, <1>5 DEF Told
      <4>3. QED
        BY <4>1, <4>2
    <3>3. ~((UserAdded(s) \/ Counted(s)) /\ call[s].ok)
      <4>1. call[s].g = g /\ g \in sock[k].rooms
        BY <1>1, <1>5, <2>1, <2>3 DEF Announcer, Told
      <4>2. QED
        BY <1>1, <4>1, RoomTold
    <3>4. QED
      BY <1>1, <2>1, <2>3, <3>1, <3>2, <3>3, AnnouncerSteps
  <2>4. QED
    BY <2>2, <2>3
<1>6. QED
  BY <1>1, <1>4, <1>5, DueBegins

LEMMA NextAnnounced == AnnouncedInv /\ [Next]_vars => AnnouncedInv'
<1> SUFFICES ASSUME AnnouncedInv, [Next]_vars PROVE AnnouncedInv'
  OBVIOUS
<1>1. RoomsInv' /\ TypeOK' /\ NoOrphans' /\ DeletedGone'
  BY NextRooms, NextOrphan DEF AnnouncedInv, RoomsInv, KeptInv
<1>2. TypeOK /\ Registered
  BY DEF AnnouncedInv, RoomsInv, KeptInv
<1>3. ASSUME UNCHANGED vars PROVE DueAnnounced'
  BY <1>3 DEF vars, AnnouncedInv, DueAnnounced, Announcer
<1>4. ASSUME Crash PROVE DueAnnounced'
  BY <1>4, CrashRegistered DEF DueAnnounced
<1>5. ASSUME NEW s \in Slots, SlotStep(s) PROVE DueAnnounced'
  BY <1>1, <1>5, SlotAnnounced
<1>6. ASSUME NEW k \in Sockets, HandleDisconnect(k) PROVE DueAnnounced'
  BY <1>2, <1>6, DisconnectRegistered DEF AnnouncedInv, DueAnnounced, Announcer
<1>7. ASSUME NEW s \in Slots, NEW k \in Sockets, NEW u \in Users, HandleConnection(s, k, u)
      PROVE  DueAnnounced'
  <2>1. Connected(s, k, u) /\ hist'.failed = hist.failed
    BY <1>2, <1>7, ConnectRegistered, ConnectForgets
  <2>2. ASSUME NEW g \in Groups \ hist'.failed, NEW j \in Sockets,
               g \in sock'[j].due, <<sock'[j].user, g>> \in rows'
        PROVE  \E t \in Slots : Announcer(call'[t], g)
    <3>1. j # k /\ sock'[j] = sock[j] /\ rows' = rows
      BY <2>1, <2>2 DEF Connected
    <3>2. PICK t \in Slots : Announcer(call[t], g)
      BY <2>1, <2>2, <3>1 DEF AnnouncedInv, DueAnnounced
    <3>3. t # s /\ call'[t] = call[t]
      BY <2>1, <3>2 DEF Connected, Announcer
    <3>4. QED
      BY <3>2, <3>3
  <2>3. QED
    BY <2>2 DEF DueAnnounced, Announcer
<1>8. DueAnnounced'
  BY <1>3, <1>4, <1>5, <1>6, <1>7 DEF Next, Requests, SlotStep, AnnouncedInv
<1>9. QED
  BY <1>1, <1>8 DEF AnnouncedInv, OrphanInv

\* Once the handlers of a group are done, every member whose socket is in the
\* room has been told the last change (addUserToGroup, leaveGroup).
THEOREM ChangesAreTold == Spec => []ChangesAnnounced
<1>1. Init => NoOrphans /\ DeletedGone /\ DueAnnounced
  BY DEF Init, NoOrphans, DeletedGone, DueAnnounced, NoCall, Closed
<1>2. Init /\ TypeOK => AnnouncedInv
  BY <1>1, InitRooms DEF AnnouncedInv, OrphanInv
<1>3. AnnouncedInv => ChangesAnnounced
  BY DEF AnnouncedInv, DueAnnounced, Announcer, ChangesAnnounced
<1>4. QED
  BY <1>2, <1>3, NextAnnounced, TypeCorrect, PTL DEF Spec

=============================================================================
