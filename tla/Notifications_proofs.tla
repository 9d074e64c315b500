------------------------- MODULE Notifications_proofs -------------------------
(***************************************************************************)
(* Notifications keeps its types, fills the queues only in ways JobQueue   *)
(* allows, and reaches those it is for and nobody else.                    *)
(***************************************************************************)
EXTENDS Notifications, WellFoundedInduction, TLAPS

QP == INSTANCE JobQueue_proofs WITH
        Jobs <- Pushes \cup Mails,
        Queue <- [j \in Pushes \cup Mails |-> j[1]],
        Addresses <- Users \cup Devices

USE KindsAssumption, NamesAssumption, LimitAssumption, BoundAssumption

-----------------------------------------------------------------------------
(* Types *)

NoticeOK(n) ==
  /\ At(n, "new") <=> notice[n].kind = "none"
  /\ At(n, "members") => notice[n].kind = "group"
  /\ At(n, "rows") => Listed(n)
  /\ notice[n].pc \in {"users", "mails"} => notice[n].kind \in {"email", "both"}
  /\ \A f \in notice[n].found : f.at \in Rows
CallOK(s) ==
  /\ call[s].pc # "idle" => call[s].of \in Rows /\ call[s].token \in Devices
  /\ call[s].pc = "write" => call[s].at \in Rows

\* The types of everything but the queues, and of all but the history.
Types ==
  /\ members \subseteq Users /\ confirmed \subseteq Users
  /\ sessions \in Seq(SessionType) /\ Len(sessions) <= MaxSessions
  /\ rows \in [Notices -> [Users -> {"none", "unread", "read"}]]
  /\ notice \in [Notices -> NoticeType]
  /\ call \in [Slots -> CallType]
  /\ fails \in 0 .. MaxFails
Core == Types /\ (\A n \in Notices : NoticeOK(n)) /\ (\A s \in Slots : CallOK(s))

LEMMA InitCore == Init => Core /\ seen \in [Notices -> SeenType]
  BY DEF Init, Core, Types, NoticeOK, CallOK, NoNotice, NoCall, NoticeType, CallType, At, Listed,
         Kind, Pcs, Maybe, Unseen, SeenType, SessionType

\* A notice moves on.
LEMMA PutCore ==
  ASSUME Core, NEW n \in Notices, NEW c \in NoticeType, Put(n, c),
         UNCHANGED <<members, confirmed, sessions, call>>,
         rows' \in [Notices -> [Users -> {"none", "unread", "read"}]],
         fails' \in 0 .. MaxFails,
         c.pc = "new" <=> c.kind = "none",
         c.pc = "members" => c.kind = "group",
         c.pc = "rows" => c.kind \in {"group", "user"},
         c.pc \in {"users", "mails"} => c.kind \in {"email", "both"},
         \A f \in c.found : f.at \in Rows
  PROVE  Core'
<1>1. notice' \in [Notices -> NoticeType] /\ \A m \in Notices : notice'[m] = IF m = n THEN c ELSE notice[m]
  BY DEF Put, Core, Types
<1>2. Types' BY <1>1 DEF Core, Types
<1>3. ASSUME NEW m \in Notices PROVE NoticeOK(m)'
  BY <1>1 DEF Core, NoticeOK, At, Listed, Rows
<1>4. \A s \in Slots : CallOK(s)' BY DEF Core, CallOK, Rows
<1> QED BY <1>2, <1>3, <1>4 DEF Core

LEMMA CallCore ==
  ASSUME Core, NEW n \in Notices, NEW c \in NoticeType, Call(n, c), c.found = {},
         c.pc # "new", c.kind # "none",
         c.pc = "members" => c.kind = "group",
         c.pc = "rows" => c.kind \in {"group", "user"},
         c.pc \in {"users", "mails"} => c.kind \in {"email", "both"}
  PROVE  Core'
<1>1. Put(n, c) /\ UNCHANGED <<members, confirmed, sessions, rows, call, fails>> BY DEF Call
<1>2. rows' \in [Notices -> [Users -> {"none", "unread", "read"}]] /\ fails' \in 0 .. MaxFails
  BY <1>1 DEF Core, Types
<1> QED BY <1>1, <1>2, PutCore

LEMMA RequestsCore == ASSUME Core, NEW n \in Notices, Requests(n) PROVE Core'
<1>1. ASSUME NEW u \in Users, NotifyGroup(n, u) PROVE Core'
  <2> DEFINE c == [NoNotice EXCEPT !.pc = "members", !.kind = "group", !.sender = u]
  <2>1. c \in NoticeType /\ c.found = {} /\ c.pc = "members" /\ c.kind = "group"
    BY DEF NoNotice, NoticeType, Pcs, Kind, Maybe
  <2>2. Call(n, c) BY <1>1 DEF NotifyGroup
  <2> HIDE DEF c
  <2> QED BY <2>1, <2>2, CallCore
<1>2. ASSUME NEW u \in Users, NotifyUser(n, u) PROVE Core'
  <2> DEFINE c == [NoNotice EXCEPT !.pc = "rows", !.kind = "user", !.to = {u}]
  <2>1. c \in NoticeType /\ c.found = {} /\ c.pc = "rows" /\ c.kind = "user"
    BY DEF NoNotice, NoticeType, Pcs, Kind, Maybe
  <2>2. Call(n, c) BY <1>2 DEF NotifyUser
  <2> HIDE DEF c
  <2> QED BY <2>1, <2>2, CallCore
<1>3. ASSUME NEW channel \in {"email", "fcm", "both"}, BroadcastToAllUsers(n, channel) PROVE Core'
  <2> DEFINE pc == IF channel = "fcm" THEN "tokens" ELSE "users"
             c == [NoNotice EXCEPT !.pc = pc, !.kind = channel]
  <2>1. pc \in Pcs /\ channel \in Kind BY DEF Pcs, Kind
  <2>2. c \in NoticeType /\ c.found = {} /\ c.pc = pc /\ c.kind = channel
    BY <2>1 DEF NoNotice, NoticeType, Maybe
  <2>3. Call(n, c) BY <1>3 DEF BroadcastToAllUsers
  <2> HIDE DEF c
  <2> QED BY <2>2, <2>3, CallCore
<1> QED BY <1>1, <1>2, <1>3 DEF Requests

\* A notice goes to its next query, and nothing else of the types changes.
LEMMA ThenCore ==
  ASSUME Core, NEW n \in Notices, NEW pc \in Pcs, Then(n, pc),
         UNCHANGED <<members, confirmed, sessions, call>>,
         rows' \in [Notices -> [Users -> {"none", "unread", "read"}]],
         fails' \in 0 .. MaxFails, ~At(n, "new"),
         pc \in {"tokens", "push", "done", "lost"}
  PROVE  Core'
<1> DEFINE c == [notice[n] EXCEPT !.pc = pc]
<1>1. notice[n] \in NoticeType /\ NoticeOK(n) BY DEF Core, Types
<1>2. c \in NoticeType /\ c.pc = pc /\ c.kind = notice[n].kind /\ c.found = notice[n].found
  BY <1>1 DEF NoticeType
<1>3. c.kind # "none" /\ \A f \in c.found : f.at \in Rows BY <1>1, <1>2 DEF NoticeOK, At
<1>4. Put(n, c) BY DEF Then
<1> HIDE DEF c
<1> QED BY <1>2, <1>3, <1>4, PutCore

LEMMA ReadMembersCore == ASSUME Core, NEW n \in Notices, ReadMembers(n) PROVE Core'
<1> DEFINE to == members \ {notice[n].sender}
           pc == IF to = {} THEN "done" ELSE "rows"
           c == [notice[n] EXCEPT !.pc = pc, !.to = to]
<1>1. notice[n] \in NoticeType /\ NoticeOK(n) /\ At(n, "members") /\ to \subseteq Users
  BY DEF Core, Types, ReadMembers
<1>2. pc \in {"done", "rows"} /\ pc \in Pcs BY DEF Pcs
<1>3. c \in NoticeType /\ c.pc = pc /\ c.kind = notice[n].kind /\ c.found = notice[n].found
  BY <1>1, <1>2 DEF NoticeType
<1>4. c.kind = "group" /\ \A f \in c.found : f.at \in Rows BY <1>1, <1>3 DEF NoticeOK
<1>5. Put(n, c) /\ UNCHANGED <<members, confirmed, sessions, rows, call, fails>>
  BY DEF ReadMembers
<1>6. rows' \in [Notices -> [Users -> {"none", "unread", "read"}]] /\ fails' \in 0 .. MaxFails
  BY <1>5 DEF Core, Types
<1> HIDE DEF c, pc
<1> QED BY <1>2, <1>3, <1>4, <1>5, <1>6, PutCore

LEMMA CreateRowsCore == ASSUME Core, NEW n \in Notices, CreateRows(n) PROVE Core'
<1>1. rows' \in [Notices -> [Users -> {"none", "unread", "read"}]] BY DEF CreateRows, Core, Types
<1>2. fails' \in 0 .. MaxFails /\ ~At(n, "new") BY DEF CreateRows, Core, Types, At
<1>3. Then(n, "tokens") /\ UNCHANGED <<members, confirmed, sessions, call>> BY DEF CreateRows
<1> QED BY <1>1, <1>2, <1>3, ThenCore DEF Pcs

LEMMA SessionsTyped == ASSUME Core PROVE \A k \in Rows : sessions[k] \in SessionType /\ k \in Sessions
  BY DEF Core, Types, Rows, Sessions

LEMMA ReadTokensCore == ASSUME Core, NEW n \in Notices, ReadTokens(n) PROVE Core'
<1> DEFINE found == {[at |-> k, token |-> sessions[k].token] : k \in Open(n)}
           c == [notice[n] EXCEPT !.pc = "push", !.found = found]
<1>1. notice[n] \in NoticeType /\ NoticeOK(n) /\ At(n, "tokens")
  BY DEF Core, Types, ReadTokens, Find
<1>2. \A k \in Open(n) : k \in Rows /\ k \in Sessions /\ sessions[k].token \in Devices
  BY SessionsTyped DEF Open, Tokened, SessionType, Maybe
<1>3. found \subseteq [at : Sessions, token : Devices] /\ \A f \in found : f.at \in Rows BY <1>2
<1>4. c \in NoticeType /\ c.pc = "push" /\ c.kind = notice[n].kind /\ c.found = found
  <2> HIDE DEF found
  <2> QED BY <1>1, <1>3 DEF NoticeType, Pcs
<1>5. c.kind # "none" BY <1>1, <1>4 DEF NoticeOK, At
<1>6. Put(n, c) /\ UNCHANGED <<members, confirmed, sessions, rows, call, fails>>
  BY DEF ReadTokens, Find
<1>7. rows' \in [Notices -> [Users -> {"none", "unread", "read"}]] /\ fails' \in 0 .. MaxFails
  BY <1>6 DEF Core, Types
<1> HIDE DEF c, found
<1> QED BY <1>3, <1>4, <1>5, <1>6, <1>7, PutCore

LEMMA QueuePushesCore == ASSUME Core, NEW n \in Notices, QueuePushes(n) PROVE Core'
<1>1. At(n, "push") /\ Then(n, "done") /\ UNCHANGED <<members, confirmed, sessions, rows, call, fails>>
  BY DEF QueuePushes, Push
<1>2. rows' \in [Notices -> [Users -> {"none", "unread", "read"}]] /\ fails' \in 0 .. MaxFails
  BY <1>1 DEF Core, Types
<1> QED BY <1>1, <1>2, ThenCore DEF Pcs, At

LEMMA ReadUsersCore == ASSUME Core, NEW n \in Notices, ReadUsers(n) PROVE Core'
<1> DEFINE c == [notice[n] EXCEPT !.pc = "mails", !.to = confirmed]
<1>1. notice[n] \in NoticeType /\ NoticeOK(n) /\ At(n, "users") /\ confirmed \subseteq Users
  BY DEF Core, Types, ReadUsers
<1>2. c \in NoticeType /\ c.pc = "mails" /\ c.kind = notice[n].kind /\ c.found = notice[n].found
  BY <1>1 DEF NoticeType, Pcs
<1>3. c.kind \in {"email", "both"} /\ \A f \in c.found : f.at \in Rows
  BY <1>1, <1>2 DEF NoticeOK, At
<1>4. Put(n, c) /\ UNCHANGED <<members, confirmed, sessions, rows, call, fails>> BY DEF ReadUsers
<1>5. rows' \in [Notices -> [Users -> {"none", "unread", "read"}]] /\ fails' \in 0 .. MaxFails
  BY <1>4 DEF Core, Types
<1> HIDE DEF c
<1> QED BY <1>2, <1>3, <1>4, <1>5, PutCore

LEMMA QueueBroadcastEmailsCore ==
  ASSUME Core, NEW n \in Notices, QueueBroadcastEmails(n) PROVE Core'
<1>1. At(n, "mails") /\ UNCHANGED <<members, confirmed, sessions, rows, call>>
  BY DEF QueueBroadcastEmails
<1>2. rows' \in [Notices -> [Users -> {"none", "unread", "read"}]] BY <1>1 DEF Core, Types
<1>3. \E pc \in {"tokens", "done", "lost"} : Then(n, pc) BY DEF QueueBroadcastEmails
<1>4. fails' \in 0 .. MaxFails BY DEF QueueBroadcastEmails, Core, Types
<1> QED BY <1>1, <1>2, <1>3, <1>4, ThenCore DEF Pcs, At

LEMMA FailCore == ASSUME Core, NEW n \in Notices, Fail(n) PROVE Core'
<1>1. Then(n, "lost") /\ ~At(n, "new") /\ UNCHANGED <<members, confirmed, sessions, rows, call>>
  BY DEF Fail, Running
<1>2. rows' \in [Notices -> [Users -> {"none", "unread", "read"}]] /\ fails' \in 0 .. MaxFails
  BY <1>1 DEF Fail, Core, Types
<1> QED BY <1>1, <1>2, ThenCore DEF Pcs

LEMMA QueriesCore == ASSUME Core, NEW n \in Notices, Queries(n) PROVE Core'
BY ReadMembersCore, CreateRowsCore, ReadTokensCore, QueuePushesCore, ReadUsersCore,
   QueueBroadcastEmailsCore, FailCore DEF Queries

\* The notices keep their invariant when nothing of them changes.
LEMMA NoticesKept ==
  ASSUME Core, UNCHANGED notice, Len(sessions') >= Len(sessions), Len(sessions') \in Nat
  PROVE  \A n \in Notices : NoticeOK(n)'
BY DEF Core, Types, NoticeOK, At, Listed, Rows

LEMMA CallsKept ==
  ASSUME Core, UNCHANGED call, Len(sessions') >= Len(sessions), Len(sessions') \in Nat
  PROVE  \A s \in Slots : CallOK(s)'
BY DEF Core, Types, CallOK, Rows

\* A request of a slot moves on.
LEMMA SlotCore ==
  ASSUME Core, NEW s \in Slots, NEW c \in CallType, call' = [call EXCEPT ![s] = c],
         UNCHANGED <<members, confirmed, sessions, rows, notice>>, fails' \in 0 .. MaxFails,
         c.pc # "idle" => c.of \in Rows /\ c.token \in Devices,
         c.pc = "write" => c.at \in Rows
  PROVE  Core'
<1>1. Types' BY DEF Core, Types
<1>2. \A t \in Slots : call'[t] = IF t = s THEN c ELSE call[t] BY DEF Core, Types
<1>3. \A t \in Slots : CallOK(t)' BY <1>2 DEF Core, CallOK, Rows
<1>4. \A n \in Notices : NoticeOK(n)' BY DEF Core, NoticeOK, At, Listed, Rows
<1> QED BY <1>1, <1>3, <1>4 DEF Core

LEMMA UpdateCore ==
  ASSUME Core, NEW s \in Slots, NEW k \in Rows, NEW d \in Devices, UpdateDeviceToken(s, k, d)
  PROVE  Core'
<1> DEFINE c == [pc |-> "find", of |-> k, at |-> 0, token |-> d]
<1>1. c \in CallType BY DEF CallType, Maybe, Core, Types, Rows
<1>2. call' = [call EXCEPT ![s] = c] /\ UNCHANGED <<members, confirmed, sessions, rows, notice, fails>>
  BY DEF UpdateDeviceToken
<1>3. fails' \in 0 .. MaxFails BY <1>2 DEF Core, Types
<1> QED BY <1>1, <1>2, <1>3, SlotCore

LEMMA NoCallTyped == NoCall \in CallType /\ NoCall.pc = "idle"
BY DEF NoCall, CallType, Maybe

LEMMA FindSessionCore == ASSUME Core, NEW s \in Slots, FindSession(s) PROVE Core'
<1> DEFINE user == sessions[call[s].of].user
           open == {k \in Rows : sessions[k].user = user /\ sessions[k].active}
<1>1. call[s] \in CallType /\ CallOK(s) /\ call[s].pc = "find" BY DEF Core, Types, FindSession
<1>2. fails' \in 0 .. MaxFails /\ UNCHANGED <<members, confirmed, sessions, rows, notice>>
  BY DEF Core, Types, FindSession
<1>3. CASE call' = [call EXCEPT ![s] = NoCall] BY <1>2, <1>3, NoCallTyped, SlotCore
<1>4. CASE \E k \in open : call' = [call EXCEPT ![s].pc = "write", ![s].at = k]
  <2>1. PICK k \in Rows : call' = [call EXCEPT ![s].pc = "write", ![s].at = k] BY <1>4
  <2> DEFINE c == [call[s] EXCEPT !.pc = "write", !.at = k]
  <2>2. k \in 0 .. MaxSessions BY DEF Core, Types, Rows
  <2>3. c \in CallType /\ c.pc = "write" /\ c.of = call[s].of /\ c.at = k /\ c.token = call[s].token
    BY <1>1, <2>2 DEF CallType
  <2>4. call' = [call EXCEPT ![s] = c] BY <2>1 DEF Core, Types
  <2>5. c.of \in Rows /\ c.token \in Devices /\ c.at \in Rows BY <1>1, <2>1, <2>3 DEF CallOK
  <2> HIDE DEF c
  <2> QED BY <1>2, <2>3, <2>4, <2>5, SlotCore
<1> QED BY <1>3, <1>4 DEF FindSession

LEMMA FailUpdateCore == ASSUME Core, NEW s \in Slots, FailUpdate(s) PROVE Core'
<1>1. call' = [call EXCEPT ![s] = NoCall] /\ UNCHANGED <<members, confirmed, sessions, rows, notice>>
  BY DEF FailUpdate
<1>2. fails' \in 0 .. MaxFails BY DEF FailUpdate, Core, Types
<1> QED BY <1>1, <1>2, NoCallTyped, SlotCore

LEMMA WriteTokenCore == ASSUME Core, NEW s \in Slots, WriteToken(s) PROVE Core'
<1>1. call[s].at \in Rows /\ call[s].token \in Devices BY DEF WriteToken, Core, CallOK
<1>2. /\ sessions' = [sessions EXCEPT ![call[s].at].token = call[s].token]
      /\ call' = [call EXCEPT ![s] = NoCall]
      /\ UNCHANGED <<members, confirmed, rows, notice, fails>>
  BY DEF WriteToken
<1>3. \A k \in Rows : sessions[k] \in SessionType BY SessionsTyped
<1>4. [sessions[call[s].at] EXCEPT !.token = call[s].token] \in SessionType
  BY <1>1, <1>3 DEF SessionType, Maybe
<1>5. sessions' \in Seq(SessionType) /\ Len(sessions') = Len(sessions)
  BY <1>1, <1>2, <1>4 DEF Core, Types, Rows
<1>6. Types' BY <1>2, <1>5, NoCallTyped DEF Core, Types
<1>7. \A n \in Notices : NoticeOK(n)' BY <1>2, <1>5, NoticesKept DEF Core, Types
<1>8. \A t \in Slots : call'[t] = IF t = s THEN NoCall ELSE call[t] BY <1>2 DEF Core, Types
<1>9. \A t \in Slots : CallOK(t)' BY <1>5, <1>8, NoCallTyped DEF Core, CallOK, Rows
<1> QED BY <1>6, <1>7, <1>9 DEF Core

LEMMA UpdatesCore == ASSUME Core, NEW s \in Slots, Updates(s) PROVE Core'
BY UpdateCore, FindSessionCore, WriteTokenCore, FailUpdateCore DEF Updates

LEMMA ElsewhereCore == ASSUME Core, NEW u \in Users, Elsewhere(u) PROVE Core'
<1>1. ASSUME UNCHANGED <<sessions, notice, call>>, Types' PROVE Core'
  <2>1. Len(sessions') >= Len(sessions) /\ Len(sessions') \in Nat BY <1>1 DEF Core, Types
  <2> QED BY <1>1, <2>1, NoticesKept, CallsKept DEF Core
<1>2. CASE AddUserToGroup(u) BY <1>2, <1>1 DEF AddUserToGroup, Core, Types
<1>3. CASE LeaveGroup(u) BY <1>3, <1>1 DEF LeaveGroup, Core, Types
<1>4. CASE ConfirmUser(u) BY <1>4, <1>1 DEF ConfirmUser, Core, Types
<1>5. CASE MarkAllAsRead(u) BY <1>5, <1>1 DEF MarkAllAsRead, Core, Types
<1>6. ASSUME NEW n \in Notices, MarkAsRead(n, u) PROVE Core'
  BY <1>6, <1>1 DEF MarkAsRead, Core, Types
<1>7. ASSUME NEW token \in Maybe(Devices), CreateSession(u, token) PROVE Core'
  <2> DEFINE new == [user |-> u, token |-> token, active |-> TRUE]
  <2>1. new \in SessionType BY DEF SessionType
  <2>2. sessions' = Append(sessions, new) /\ Len(sessions) < MaxSessions
    BY <1>7 DEF CreateSession
  <2>3. sessions' \in Seq(SessionType) /\ Len(sessions') = Len(sessions) + 1
    BY <2>1, <2>2 DEF Core, Types
  <2>4. Types' BY <1>7, <2>2, <2>3 DEF CreateSession, Core, Types
  <2>5. Len(sessions') >= Len(sessions) /\ Len(sessions') \in Nat BY <2>3 DEF Core, Types
  <2> QED BY <1>7, <2>4, <2>5, NoticesKept, CallsKept DEF CreateSession, Core
<1>8. CASE RevokeAllUserSessions(u)
  <2>1. sessions' = [k \in Rows |-> [sessions[k] EXCEPT !.active = @ /\ sessions[k].user # u]]
    BY <1>8 DEF RevokeAllUserSessions
  <2>2. ASSUME NEW k \in Rows
        PROVE  [sessions[k] EXCEPT !.active = @ /\ sessions[k].user # u] \in SessionType
    <3>1. sessions[k] \in SessionType BY SessionsTyped
    <3>2. (sessions[k].active /\ sessions[k].user # u) \in BOOLEAN OBVIOUS
    <3> QED BY <3>1, <3>2 DEF SessionType
  <2>3. Len(sessions) \in Nat BY DEF Core, Types
  <2>4. sessions' \in Seq(SessionType) /\ Len(sessions') = Len(sessions)
    BY <2>1, <2>2, <2>3 DEF Rows
  <2>5. Types' BY <1>8, <2>4 DEF RevokeAllUserSessions, Core, Types
  <2>6. Len(sessions') >= Len(sessions) /\ Len(sessions') \in Nat BY <2>3, <2>4
  <2> QED BY <1>8, <2>5, <2>6, NoticesKept, CallsKept DEF RevokeAllUserSessions, Core
<1> QED BY <1>2, <1>3, <1>4, <1>5, <1>6, <1>7, <1>8 DEF Elsewhere

LEMMA CrashCore == ASSUME Core, Crash PROVE Core'
<1> DEFINE after(n) == IF Running(n) THEN [notice[n] EXCEPT !.pc = "lost"] ELSE notice[n]
<1>1. /\ notice' = [n \in Notices |-> after(n)] /\ call' = [s \in Slots |-> NoCall]
      /\ UNCHANGED <<members, confirmed, sessions, rows, fails>>
  BY DEF Crash
<1>2. ASSUME NEW n \in Notices
      PROVE  /\ after(n) \in NoticeType
             /\ after(n).kind = notice[n].kind /\ after(n).found = notice[n].found
             /\ after(n).pc \in {"new", "done", "lost"}
             /\ after(n).pc = "new" <=> At(n, "new")
  <2>1. notice[n] \in NoticeType BY DEF Core, Types
  <2> QED BY <2>1 DEF NoticeType, Pcs, Running, Ended, At
<1>3. \A n \in Notices : NoticeOK(n)'
  BY <1>1, <1>2 DEF Core, NoticeOK, At, Listed, Rows
<1>4. Types' BY <1>1, <1>2, NoCallTyped DEF Core, Types
<1>5. \A s \in Slots : CallOK(s)' BY <1>1, NoCallTyped DEF CallOK
<1> QED BY <1>3, <1>4, <1>5 DEF Core

LEMMA UnchangedCore == ASSUME Core, UNCHANGED ours PROVE Core'
BY DEF ours, Core, Types, NoticeOK, CallOK, At, Listed, Rows

LEMMA StepCore == ASSUME Core, Step PROVE Core'
BY RequestsCore, QueriesCore, UpdatesCore, ElsewhereCore, CrashCore, UnchangedCore
   DEF Step, Work

\* The history is of users, and of users with devices.
LEMMA ObserveTyped ==
  ASSUME Core', seen \in [Notices -> SeenType], Observe
  PROVE  seen' \in [Notices -> SeenType]
<1>1. \A k \in Rows' : sessions'[k] \in SessionType BY DEF Core, Types, Rows
<1>2. Lit' \subseteq Users \X Devices BY <1>1 DEF Lit, SessionType, Maybe
<1>3. \A n \in Notices : Audience(n)' \subseteq Users BY DEF Core, Types, NoticeType, Audience
<1>4. \A n \in Notices : seen'[n] \in SeenType
  <2> TAKE n \in Notices
  <2>1. seen[n] \in SeenType OBVIOUS
  <2>2. [ever |-> seen[n].ever \cup Audience(n)', lit |-> seen[n].lit \cup Lit',
         users |-> seen[n].users \cap Audience(n)', steady |-> seen[n].steady \cap Lit'] \in SeenType
    BY <2>1, <1>2, <1>3 DEF SeenType
  <2> QED BY <2>1, <2>2 DEF Observe
<1> QED BY <1>4 DEF Observe

-----------------------------------------------------------------------------
(* The queues *)

LEMMA PushesQueued == ASSUME Core, NEW n \in Notices, QueuePushes(n) PROVE Q!Adding
<1> DEFINE found == {f \in notice[n].found : \A g \in notice[n].found : g.token = f.token => f.at <= g.at}
           S == {<<"push", n, f.at>> : f \in found}
           to == [j \in S |-> (CHOOSE f \in found : f.at = j[3]).token]
<1>1. found \subseteq [at : Sessions, token : Devices] BY DEF Core, Types, NoticeType
<1>2. Q!QueuePushToMany(to) /\ S \subseteq Q!Unused BY DEF QueuePushes, Push, Q!QueuePushToMany
<1>3. \A j \in S : j \in Pushes /\ j[1] = "push" BY <1>1 DEF Pushes
<1>4. to \in [S -> (Users \cup Devices) \cup {None}]
  <2> SUFFICES ASSUME NEW j \in S
               PROVE  (CHOOSE f \in found : f.at = j[3]).token \in Devices
    OBVIOUS
  <2>1. \E f \in found : f.at = j[3] OBVIOUS
  <2>2. (CHOOSE f \in found : f.at = j[3]) \in found BY <2>1
  <2> QED BY <1>1, <2>2
<1>5. S \in SUBSET {j \in Q!Unused : [i \in Pushes \cup Mails |-> i[1]][j] = "push"}
  BY <1>2, <1>3
<1> HIDE DEF S, to, found
<1> QED BY <1>2, <1>4, <1>5 DEF Q!Adding

LEMMA EmailsQueued == ASSUME Core, NEW n \in Notices, QueueBroadcastEmails(n) PROVE Q!Adding
<1>1. PICK U \in SUBSET notice[n].to : Q!QueueEmails([j \in {<<"mail", n, u>> : u \in U} |-> j[3]])
  BY DEF QueueBroadcastEmails
<1> DEFINE S == {<<"mail", n, u>> : u \in U}
           to == [j \in S |-> j[3]]
<1>2. U \subseteq Users BY DEF Core, Types, NoticeType
<1>3. \A j \in S : j \in Mails /\ j[1] = "mail" /\ j[3] \in Users BY <1>2 DEF Mails
<1>4. S \subseteq Q!Unused BY <1>1 DEF Q!QueueEmails
<1>5. S \in SUBSET {j \in Q!Unused : [i \in Pushes \cup Mails |-> i[1]][j] = "mail"}
  BY <1>3, <1>4
<1>6. to \in [S -> Users \cup Devices] BY <1>3
<1> HIDE DEF S
<1> QED BY <1>1, <1>5, <1>6 DEF Q!Adding, S

\* A step of Notifications is one of the queues, or leaves them alone.
LEMMA StepQueues == ASSUME Core, Step PROVE [Q!Next]_(Q!vars)
<1>1. ASSUME NEW n \in Notices, Requests(n) PROVE UNCHANGED queues
  BY <1>1 DEF Requests, NotifyGroup, NotifyUser, BroadcastToAllUsers, Call
<1>2. ASSUME NEW n \in Notices, Queries(n) PROVE Q!Adding \/ UNCHANGED queues
  BY <1>2, PushesQueued, EmailsQueued
     DEF Queries, ReadMembers, CreateRows, ReadTokens, Find, ReadUsers, Fail
<1>3. ASSUME NEW s \in Slots, Updates(s) PROVE UNCHANGED queues
  BY <1>3 DEF Updates, UpdateDeviceToken, FindSession, WriteToken, FailUpdate
<1>4. ASSUME NEW u \in Users, Elsewhere(u) PROVE UNCHANGED queues
  BY <1>4 DEF Elsewhere, AddUserToGroup, LeaveGroup, ConfirmUser, CreateSession,
              RevokeAllUserSessions, MarkAllAsRead, MarkAsRead
<1>5. ASSUME NEW j \in Pushes \cup Mails, Work(j) PROVE Q!Worker(j) BY <1>5 DEF Work
<1>6. CASE Crash BY <1>6 DEF Crash, Q!Next
<1> QED BY <1>1, <1>2, <1>3, <1>4, <1>5, <1>6 DEF Step, Q!Next, Q!vars, queues

IInv == Core /\ seen \in [Notices -> SeenType]

LEMMA CoreAlways == Spec => []IInv
<1>1. Init => IInv BY InitCore DEF IInv
<1>2. IInv /\ [Next]_vars => IInv'
  <2> SUFFICES ASSUME IInv, [Next]_vars PROVE IInv' OBVIOUS
  <2>1. CASE Next BY <2>1, StepCore, ObserveTyped DEF Next, IInv
  <2>2. CASE UNCHANGED vars BY <2>2, UnchangedCore DEF vars, IInv
  <2> QED BY <2>1, <2>2
<1> QED BY <1>1, <1>2, PTL DEF Spec

LEMMA QueuesWork == Spec => Q!Spec
<1>1. Init => Q!Init BY DEF Init
<1>2. IInv /\ [Next]_vars => [Q!Next]_(Q!vars)
  BY StepQueues DEF IInv, Next, vars, queues, Q!vars
<1> QED BY <1>1, <1>2, CoreAlways, PTL DEF Spec, Q!Spec

\* JobQueue's assumptions hold of these jobs.
LEMMA QueueAssumptions ==
  /\ [j \in Pushes \cup Mails |-> j[1]] \in [Pushes \cup Mails -> {"push", "mail"}]
  /\ None \notin Users \cup Devices
  /\ Attempts \in Nat \ {0} /\ StallLimit \in Nat
  /\ MaxRefusals \in Nat /\ MaxCrashes \in Nat
BY DEF Pushes, Mails

\* The proofs' instance of JobQueue is the specification's.
LEMMA SameQueues ==
  /\ Q!Init <=> QP!Init
  /\ [Q!Next]_(Q!vars) <=> [QP!Next]_(QP!vars)
  /\ Q!TypeOK <=> QP!TypeOK
<1>1. Q!Init <=> QP!Init
  BY DEF Q!Init, QP!Init, Q!NoJob, QP!NoJob, Q!NewJob, QP!NewJob
<1>2. ASSUME NEW j PROVE Q!Worker(j) <=> QP!Worker(j)
  BY DEF Q!Worker, QP!Worker, Q!Take, QP!Take, Q!Send, QP!Send, Q!Complete, QP!Complete,
         Q!Refuse, QP!Refuse, Q!Recover, QP!Recover, Q!Is, QP!Is, Q!Set, QP!Set, Q!Held, QP!Held
<1>3. Q!Adding <=> QP!Adding
  BY DEF Q!Adding, QP!Adding, Q!QueuePushToMany, QP!QueuePushToMany, Q!QueueEmails, QP!QueueEmails,
         Q!Add, QP!Add, Q!Unused, QP!Unused, Q!Is, QP!Is, Q!NewJob, QP!NewJob
<1>4. Q!Crash <=> QP!Crash BY DEF Q!Crash, QP!Crash, Q!Held, QP!Held
<1>5. [Q!Next]_(Q!vars) <=> [QP!Next]_(QP!vars)
  BY <1>2, <1>3, <1>4 DEF Q!Next, QP!Next, Q!vars, QP!vars
<1>6. Q!TypeOK <=> QP!TypeOK
  BY DEF Q!TypeOK, QP!TypeOK, Q!JobType, QP!JobType, Q!States, QP!States, Q!Is, QP!Is
<1> QED BY <1>1, <1>5, <1>6

LEMMA SamePromise ==
  /\ Q!D!Init <=> QP!D!Init
  /\ [Q!D!Next]_(Q!Parcels) <=> [QP!D!Next]_(QP!Parcels)
<1>1. Q!Parcels = QP!Parcels /\ (Q!Parcels)' = (QP!Parcels)'
  BY DEF Q!Parcels, QP!Parcels, Q!Phase, QP!Phase
<1>2. Q!D!Init <=> QP!D!Init BY <1>1 DEF Q!D!Init, QP!D!Init, Q!D!Parcel, QP!D!Parcel
<1>3. Q!D!Promise <=> QP!D!Promise
  BY <1>1 DEF Q!D!Promise, QP!D!Promise, Q!D!Parcel, QP!D!Parcel
<1>4. ASSUME NEW j
      PROVE  /\ Q!D!Deliver(j) <=> QP!D!Deliver(j)
             /\ Q!D!Mishap(j) <=> QP!D!Mishap(j)
             /\ Q!D!Keep(j) <=> QP!D!Keep(j)
  BY <1>1 DEF Q!D!Deliver, QP!D!Deliver, Q!D!Mishap, QP!D!Mishap, Q!D!Keep, QP!D!Keep,
              Q!D!Put, QP!D!Put
<1>5. Q!D!Next <=> QP!D!Next BY <1>3, <1>4 DEF Q!D!Next, QP!D!Next
<1> QED BY <1>1, <1>2, <1>5

\* Every variable keeps its type, a suspended call is at a query of its kind,
\* and the queues keep theirs.
THEOREM TypeCorrect == Spec => []TypeOK
<1>1. IInv /\ Q!TypeOK => TypeOK
  BY DEF IInv, Core, Types, TypeOK, NoticeOK, CallOK
<1>2. QP!Spec => []QP!TypeOK BY QP!TypeCorrect, QueueAssumptions, PTL
<1>3. Q!Spec => []Q!TypeOK BY <1>2, SameQueues, PTL DEF Q!Spec, QP!Spec
<1> QED BY <1>1, <1>3, CoreAlways, QueuesWork, PTL

\* The queues keep Delivery's promise for the notices that fill them.
THEOREM NoticesDeliver == Spec => Delivers
<1>1. QP!Spec => QP!Delivers BY QP!QueuesDeliver, QueueAssumptions, PTL
<1>2. QP!Spec => Delivers
  BY <1>1, SamePromise, PTL DEF QP!Delivers, Delivers, Q!Delivers, Q!D!Spec, QP!D!Spec
<1>3. Q!Spec => QP!Spec BY SameQueues, PTL DEF Q!Spec, QP!Spec
<1> QED BY <1>2, <1>3, QueuesWork, PTL

-----------------------------------------------------------------------------
(* Who is told *)

PushJob(n, k) == <<"push", n, k>>
MailJob(n, u) == <<"mail", n, u>>
In(j) == job[j].state # "none"

\* The history of a call covers the present.
SeenNow(n) ==
  Running(n) =>
    /\ Audience(n) \subseteq seen[n].ever /\ Lit \subseteq seen[n].lit
    /\ seen[n].users \subseteq Audience(n) /\ seen[n].steady \subseteq Lit

Told(n, token) == \E u \in seen[n].ever : <<u, token>> \in seen[n].lit

\* What a suspended call has read and done.
Reading(n) ==
  LET c == notice[n]
  IN  /\ (Listed(n) /\ c.pc \in {"rows", "tokens", "push"}) \/ c.pc = "mails" =>
           c.to \subseteq seen[n].ever /\ seen[n].users \subseteq c.to
      /\ Listed(n) /\ c.pc \in {"tokens", "push"} => \A u \in c.to : rows[n][u] # "none"
      /\ c.pc = "push" =>
           /\ \A f \in c.found : /\ Told(n, f.token)
                                 /\ Listed(n) => sessions[f.at].user \in c.to
           /\ \A f, g \in c.found : f.at = g.at => f = g
           /\ \A p \in seen[n].steady :
                p[1] \in seen[n].users => \E f \in c.found : f.token = p[2]

\* The jobs of a notice: none before they are queued, and of those that are
\* each has a receiver who was to be told.
NoPushes(n) == \A k \in Sessions : ~In(PushJob(n, k))
NoMails(n) == \A u \in Users : ~In(MailJob(n, u))
JobsOf(n) ==
  /\ ~Ended(n) => NoPushes(n)
  /\ notice[n].pc \in {"new", "users", "mails"} => NoMails(n)
  /\ \A k \in Sessions : In(PushJob(n, k)) =>
       /\ k \in Rows /\ Told(n, job[PushJob(n, k)].to)
       /\ Listed(n) => rows[n][sessions[k].user] # "none"
  /\ \A i, k \in Sessions :
       In(PushJob(n, i)) /\ In(PushJob(n, k)) /\ job[PushJob(n, i)].to = job[PushJob(n, k)].to => i = k
  /\ \A u \in Users : In(MailJob(n, u)) => job[MailJob(n, u)].to = u /\ u \in seen[n].ever

\* Nobody is forgotten.
Reached(n) ==
  LET c == notice[n]
  IN  /\ c.kind \in {"email", "both"} /\ c.pc \in {"tokens", "push", "done"} =>
           \A u \in seen[n].users : In(MailJob(n, u))
      /\ c.pc = "done" =>
           /\ Listed(n) => \A u \in seen[n].users : rows[n][u] # "none"
           /\ c.kind # "email" =>
                \A p \in seen[n].steady : p[1] \in seen[n].users =>
                  \E k \in Sessions : In(PushJob(n, k)) /\ job[PushJob(n, k)].to = p[2]

\* Sessions are of confirmed users; a broadcast by mail alone reads no tokens.
SessionsConfirmed == \A k \in Rows : sessions[k].user \in confirmed
MailOnly(n) == notice[n].kind = "email" => notice[n].pc \notin {"tokens", "push"}

NoticeInv(n) == SeenNow(n) /\ Reading(n) /\ JobsOf(n) /\ Reached(n) /\ MailOnly(n)
ToldInv == SessionsConfirmed /\ \A n \in Notices : NoticeInv(n)

-----------------------------------------------------------------------------
(* What every step keeps *)

SameSessions == \A k \in Rows : k \in Rows' /\ sessions'[k].user = sessions[k].user
RowsStay == \A n \in Notices, u \in Users : rows[n][u] # "none" => rows'[n][u] # "none"
Mono ==
  /\ SameSessions /\ RowsStay
  /\ confirmed \subseteq confirmed'
  /\ \A n \in Notices :
       /\ seen[n].ever \subseteq seen'[n].ever /\ seen[n].lit \subseteq seen'[n].lit
       /\ seen'[n].users \subseteq seen[n].users /\ seen'[n].steady \subseteq seen[n].steady
       /\ SeenNow(n)'

LEMMA RequestsMono ==
  ASSUME NEW n \in Notices, Requests(n) PROVE UNCHANGED <<sessions, rows, confirmed>>
BY DEF Requests, NotifyGroup, NotifyUser, BroadcastToAllUsers, Call

LEMMA QueriesMono ==
  ASSUME Core, NEW n \in Notices, Queries(n)
  PROVE  UNCHANGED <<sessions, confirmed>> /\ RowsStay
<1>1. UNCHANGED <<sessions, confirmed>>
  BY DEF Queries, ReadMembers, CreateRows, ReadTokens, Find, QueuePushes, Push, ReadUsers,
         QueueBroadcastEmails, Fail
<1>2. CASE CreateRows(n) BY <1>1, <1>2 DEF CreateRows, RowsStay, Core, Types
<1>3. CASE UNCHANGED rows BY <1>1, <1>3 DEF RowsStay
<1> QED BY <1>1, <1>2, <1>3
        DEF Queries, ReadMembers, ReadTokens, Find, QueuePushes, Push, ReadUsers,
            QueueBroadcastEmails, Fail

LEMMA UpdatesMono ==
  ASSUME Core, NEW s \in Slots, Updates(s)
  PROVE  UNCHANGED <<rows, confirmed>> /\ SameSessions
<1>1. UNCHANGED <<rows, confirmed>>
  BY DEF Updates, UpdateDeviceToken, FindSession, WriteToken, FailUpdate
<1>2. CASE WriteToken(s)
  <2>1. sessions' = [sessions EXCEPT ![call[s].at].token = call[s].token] BY <1>2 DEF WriteToken
  <2>2. call[s].at \in Rows BY <1>2 DEF WriteToken, Core, CallOK
  <2>3. \A k \in Rows : sessions[k] \in SessionType BY SessionsTyped
  <2>4. Rows' = Rows BY <2>1, <2>2 DEF Core, Types, Rows
  <2>5. \A k \in Rows : sessions'[k].user = sessions[k].user
    BY <2>1, <2>2, <2>3 DEF Core, Types, Rows, SessionType
  <2> QED BY <1>1, <2>4, <2>5 DEF SameSessions
<1>3. CASE UNCHANGED sessions BY <1>1, <1>3 DEF SameSessions, Rows
<1> QED BY <1>1, <1>2, <1>3 DEF Updates, UpdateDeviceToken, FindSession, FailUpdate

LEMMA ElsewhereMono ==
  ASSUME Core, NEW u \in Users, Elsewhere(u)
  PROVE  SameSessions /\ RowsStay /\ confirmed \subseteq confirmed'
<1>1. ASSUME UNCHANGED sessions PROVE SameSessions BY <1>1 DEF SameSessions, Rows
<1>2. ASSUME UNCHANGED rows PROVE RowsStay BY <1>2 DEF RowsStay
<1>3. CASE AddUserToGroup(u) BY <1>1, <1>2, <1>3 DEF AddUserToGroup
<1>4. CASE LeaveGroup(u) BY <1>1, <1>2, <1>4 DEF LeaveGroup
<1>5. CASE ConfirmUser(u) BY <1>1, <1>2, <1>5 DEF ConfirmUser
<1>6. CASE MarkAllAsRead(u)
  <2>1. RowsStay BY <1>6 DEF MarkAllAsRead, RowsStay, Core, Types
  <2> QED BY <1>1, <1>6, <2>1 DEF MarkAllAsRead
<1>7. ASSUME NEW n \in Notices, MarkAsRead(n, u) PROVE SameSessions /\ RowsStay /\ confirmed \subseteq confirmed'
  <2>1. RowsStay BY <1>7 DEF MarkAsRead, RowsStay, Core, Types
  <2> QED BY <1>1, <1>7, <2>1 DEF MarkAsRead
<1>8. ASSUME NEW token \in Maybe(Devices), CreateSession(u, token)
      PROVE  SameSessions /\ RowsStay /\ confirmed \subseteq confirmed'
  <2> DEFINE new == [user |-> u, token |-> token, active |-> TRUE]
  <2>1. sessions' = Append(sessions, new) BY <1>8 DEF CreateSession
  <2>2. SameSessions BY <2>1 DEF SameSessions, Rows, Core, Types
  <2> QED BY <1>2, <1>8, <2>2 DEF CreateSession
<1>9. CASE RevokeAllUserSessions(u)
  <2>1. sessions' = [k \in Rows |-> [sessions[k] EXCEPT !.active = @ /\ sessions[k].user # u]]
    BY <1>9 DEF RevokeAllUserSessions
  <2>2. Len(sessions) \in Nat BY DEF Core, Types
  <2>3. Rows' = Rows BY <2>1, <2>2 DEF Rows
  <2>4. \A k \in Rows : sessions[k] \in SessionType BY SessionsTyped
  <2>5. \A k \in Rows : sessions'[k].user = sessions[k].user BY <2>1, <2>4 DEF SessionType
  <2>6. SameSessions BY <2>3, <2>5 DEF SameSessions
  <2> QED BY <1>2, <1>9, <2>6 DEF RevokeAllUserSessions
<1> QED BY <1>3, <1>4, <1>5, <1>6, <1>7, <1>8, <1>9 DEF Elsewhere

LEMMA ObserveMono ==
  ASSUME Core, Core', seen \in [Notices -> SeenType], Observe, NEW n \in Notices
  PROVE  /\ seen[n].ever \subseteq seen'[n].ever /\ seen[n].lit \subseteq seen'[n].lit
         /\ seen'[n].users \subseteq seen[n].users /\ seen'[n].steady \subseteq seen[n].steady
         /\ SeenNow(n)'
<1>1. CASE notice'[n].pc \in {"new", "done", "lost"}
  <2>1. seen'[n] = seen[n] BY <1>1 DEF Observe
  <2>2. ~Running(n)' BY <1>1 DEF Running, Ended, At
  <2> QED BY <2>1, <2>2 DEF SeenNow
<1>2. CASE notice'[n].pc \notin {"new", "done", "lost"}
  <2>1. seen'[n] = [ever |-> seen[n].ever \cup Audience(n)', lit |-> seen[n].lit \cup Lit',
                    users |-> seen[n].users \cap Audience(n)', steady |-> seen[n].steady \cap Lit']
    BY <1>2 DEF Observe
  <2> QED BY <2>1 DEF SeenNow
<1> QED BY <1>1, <1>2

LEMMA StepMono ==
  ASSUME Core, seen \in [Notices -> SeenType], Step, Observe PROVE Mono
<1>1. SameSessions /\ RowsStay /\ confirmed \subseteq confirmed'
  <2>1. ASSUME UNCHANGED sessions PROVE SameSessions BY <2>1 DEF SameSessions, Rows
  <2>2. ASSUME UNCHANGED rows PROVE RowsStay BY <2>2 DEF RowsStay
  <2>3. ASSUME NEW n \in Notices, Requests(n)
        PROVE  SameSessions /\ RowsStay /\ confirmed \subseteq confirmed'
    BY <2>1, <2>2, <2>3, RequestsMono
  <2>4. ASSUME NEW n \in Notices, Queries(n)
        PROVE  SameSessions /\ RowsStay /\ confirmed \subseteq confirmed'
    BY <2>1, <2>4, QueriesMono
  <2>5. ASSUME NEW s \in Slots, Updates(s)
        PROVE  SameSessions /\ RowsStay /\ confirmed \subseteq confirmed'
    BY <2>2, <2>5, UpdatesMono
  <2>6. ASSUME NEW u \in Users, Elsewhere(u)
        PROVE  SameSessions /\ RowsStay /\ confirmed \subseteq confirmed'
    BY <2>6, ElsewhereMono
  <2>7. CASE Crash BY <2>1, <2>2, <2>7 DEF Crash
  <2>8. ASSUME NEW j \in Pushes \cup Mails, Work(j)
        PROVE  SameSessions /\ RowsStay /\ confirmed \subseteq confirmed'
    BY <2>1, <2>2, <2>8 DEF Work, ours
  <2> QED BY <2>3, <2>4, <2>5, <2>6, <2>7, <2>8 DEF Step
<1>2. Core' BY StepCore
<1> QED BY <1>1, <1>2, ObserveMono DEF Mono

\* The jobs of a notice stay as they are.
JobsKept(n) ==
  /\ \A k \in Sessions : /\ In(PushJob(n, k))' <=> In(PushJob(n, k))
                         /\ job'[PushJob(n, k)].to = job[PushJob(n, k)].to
  /\ \A u \in Users : /\ In(MailJob(n, u))' <=> In(MailJob(n, u))
                      /\ job'[MailJob(n, u)].to = job[MailJob(n, u)].to

JobKept(j) == (In(j)' <=> In(j)) /\ job'[j].to = job[j].to

LEMMA KeptByEach ==
  ASSUME NEW n \in Notices, \A j \in Pushes \cup Mails : JobKept(j) PROVE JobsKept(n)
BY DEF JobsKept, JobKept, PushJob, MailJob, Pushes, Mails

LEMMA WorkKept ==
  ASSUME Q!TypeOK, NEW j \in Pushes \cup Mails, Work(j), NEW n \in Notices PROVE JobsKept(n)
<1>1. job \in [Pushes \cup Mails -> Q!JobType] BY DEF Q!TypeOK
<1>2. ASSUME NEW r, Q!Set(j, r), r.state # "none", r.to = job[j].to, In(j) PROVE JobsKept(n)
  <2>1. \A i \in Pushes \cup Mails : JobKept(i) BY <1>1, <1>2 DEF Q!Set, JobKept, In
  <2> QED BY <2>1, KeptByEach
<1>3. CASE Q!Take(j)
  <2> DEFINE r == [job[j] EXCEPT !.state = "active"]
  <2>1. r.state # "none" /\ r.to = job[j].to BY <1>1 DEF Q!JobType
  <2> QED BY <1>2, <1>3, <2>1 DEF Q!Take, Q!Is, In
<1>4. CASE Q!Send(j)
  <2> DEFINE r == [job[j] EXCEPT !.state = "sent", !.got = IF job[j].to = None THEN @ ELSE @ + 1]
  <2>1. r.state # "none" /\ r.to = job[j].to BY <1>1 DEF Q!JobType
  <2> QED BY <1>2, <1>4, <2>1 DEF Q!Send, Q!Is, In
<1>5. CASE Q!Complete(j)
  <2> DEFINE r == [job[j] EXCEPT !.state = "done"]
  <2>1. r.state # "none" /\ r.to = job[j].to BY <1>1 DEF Q!JobType
  <2> QED BY <1>2, <1>5, <2>1 DEF Q!Complete, Q!Is, In
<1>6. CASE Q!Refuse(j)
  <2>1. PICK arrives \in {0, 1} :
          Q!Set(j, [job[j] EXCEPT !.refused = @ + 1, !.got = @ + arrives,
                      !.state = IF job[j].refused + 1 < Attempts THEN "wait" ELSE "failed"])
    BY <1>6 DEF Q!Refuse
  <2> DEFINE r == [job[j] EXCEPT !.refused = @ + 1, !.got = @ + arrives,
                     !.state = IF job[j].refused + 1 < Attempts THEN "wait" ELSE "failed"]
  <2>2. r.state # "none" /\ r.to = job[j].to BY <1>1 DEF Q!JobType
  <2> QED BY <1>2, <1>6, <2>1, <2>2 DEF Q!Refuse, Q!Is, In
<1>7. CASE Q!Recover(j)
  <2> DEFINE r == [job[j] EXCEPT !.stalled = @ + 1,
                     !.state = IF job[j].stalled < StallLimit THEN "wait" ELSE "failed"]
  <2>1. r.state # "none" /\ r.to = job[j].to BY <1>1 DEF Q!JobType
  <2> QED BY <1>2, <1>7, <2>1 DEF Q!Recover, Q!Is, In
<1> QED BY <1>3, <1>4, <1>5, <1>6, <1>7 DEF Work, Q!Worker

LEMMA CrashKept == ASSUME Q!TypeOK, Crash, NEW n \in Notices PROVE JobsKept(n)
<1>1. job' = [j \in Pushes \cup Mails |->
                IF Q!Held(j) THEN [job[j] EXCEPT !.state = "stalled"] ELSE job[j]]
  BY DEF Crash, Q!Crash
<1>2. \A j \in Pushes \cup Mails : JobKept(j)
  BY <1>1 DEF Q!TypeOK, Q!JobType, Q!Held, JobKept, In
<1> QED BY <1>2, KeptByEach

LEMMA UnchangedKept == ASSUME UNCHANGED queues, NEW n \in Notices PROVE JobsKept(n)
BY DEF queues, JobsKept, In

\* The jobs of a notice remain right while none is added to them.
LEMMA JobsStay ==
  ASSUME Core, Mono, NEW n \in Notices, JobsOf(n), JobsKept(n),
         Listed(n)' => Listed(n) \/ NoPushes(n),
         Ended(n) => Ended(n)',
         notice'[n].pc \in {"new", "users", "mails"} => NoMails(n)
  PROVE  JobsOf(n)'
<1>1. ~Ended(n)' => NoPushes(n)' BY DEF JobsOf, NoPushes, JobsKept
<1>2. notice'[n].pc \in {"new", "users", "mails"} => NoMails(n)' BY DEF NoMails, JobsKept
<1>3. ASSUME NEW token, Told(n, token) PROVE Told(n, token)' BY <1>3 DEF Told, Mono
<1>4. ASSUME NEW k \in Sessions, In(PushJob(n, k))'
      PROVE  /\ k \in Rows' /\ Told(n, job[PushJob(n, k)].to)'
             /\ Listed(n)' => rows'[n][sessions'[k].user] # "none"
  <2>1. In(PushJob(n, k)) /\ job'[PushJob(n, k)].to = job[PushJob(n, k)].to BY <1>4 DEF JobsKept
  <2>2. k \in Rows /\ Told(n, job[PushJob(n, k)].to) BY <2>1 DEF JobsOf
  <2>3. Told(n, job[PushJob(n, k)].to)'
    <3>1. PICK u \in seen[n].ever : <<u, job[PushJob(n, k)].to>> \in seen[n].lit BY <2>2 DEF Told
    <3>2. u \in seen'[n].ever /\ <<u, job'[PushJob(n, k)].to>> \in seen'[n].lit
      BY <2>1, <3>1 DEF Mono
    <3> QED BY <3>2 DEF Told
  <2>4. k \in Rows' /\ sessions'[k].user = sessions[k].user BY <2>2 DEF Mono, SameSessions
  <2>5. sessions[k].user \in Users BY <2>2, SessionsTyped DEF SessionType
  <2>6. Listed(n)' => rows[n][sessions[k].user] # "none" BY <2>1 DEF JobsOf, NoPushes
  <2> QED BY <2>3, <2>4, <2>5, <2>6 DEF Mono, RowsStay
<1>5. \A i, k \in Sessions :
        In(PushJob(n, i))' /\ In(PushJob(n, k))' /\ job'[PushJob(n, i)].to = job'[PushJob(n, k)].to => i = k
  BY DEF JobsOf, JobsKept
<1>6. \A u \in Users : In(MailJob(n, u))' => job'[MailJob(n, u)].to = u /\ u \in seen'[n].ever
  BY DEF JobsOf, JobsKept, Mono
<1> QED BY <1>1, <1>2, <1>4, <1>5, <1>6 DEF JobsOf

\* A notice nobody works on.
LEMMA Stays ==
  ASSUME IInv, Mono, NEW n \in Notices, NoticeInv(n), JobsKept(n), notice'[n] = notice[n]
  PROVE  NoticeInv(n)'
<1>1. Listed(n)' = Listed(n) /\ Ended(n)' = Ended(n) /\ Core BY DEF Listed, Ended, IInv
<1>2. JobsOf(n)' BY <1>1, JobsStay DEF NoticeInv, JobsOf
<1>3. SeenNow(n)' BY DEF Mono
<1>4. Reading(n)'
  <2> DEFINE c == notice[n]
  <2>1. (Listed(n)' /\ c.pc \in {"rows", "tokens", "push"}) \/ c.pc = "mails" =>
           c.to \subseteq seen'[n].ever /\ seen'[n].users \subseteq c.to
    BY <1>1 DEF NoticeInv, Reading, Mono
  <2>2. c.to \subseteq Users /\ \A f \in c.found : f.at \in Rows
    BY <1>1 DEF Core, Types, NoticeType, NoticeOK
  <2>3. Listed(n)' /\ c.pc \in {"tokens", "push"} => \A u \in c.to : rows'[n][u] # "none"
    BY <1>1, <2>2 DEF NoticeInv, Reading, Mono, RowsStay
  <2>4. ASSUME c.pc = "push", NEW f \in c.found
        PROVE  Told(n, f.token)' /\ (Listed(n)' => sessions'[f.at].user \in c.to)
    <3>1. PICK u \in seen[n].ever : <<u, f.token>> \in seen[n].lit
      BY <2>4 DEF NoticeInv, Reading, Told
    <3>2. Told(n, f.token)' BY <3>1 DEF Told, Mono
    <3> QED BY <1>1, <2>2, <2>4, <3>2 DEF NoticeInv, Reading, Mono, SameSessions
  <2>5. c.pc = "push" =>
          /\ \A f, g \in c.found : f.at = g.at => f = g
          /\ \A p \in seen'[n].steady :
                p[1] \in seen'[n].users => \E f \in c.found : f.token = p[2]
    BY DEF NoticeInv, Reading, Mono
  <2> QED BY <2>1, <2>3, <2>4, <2>5 DEF Reading
<1>5. Reached(n)'
  <2>1. seen'[n].users \subseteq seen[n].users /\ seen'[n].steady \subseteq seen[n].steady
    BY DEF Mono
  <2>2. seen[n].users \subseteq Users BY DEF IInv, SeenType
  <2>3. notice[n].kind \in {"email", "both"} /\ notice[n].pc \in {"tokens", "push", "done"} =>
           \A u \in seen'[n].users : In(MailJob(n, u))'
    BY <2>1, <2>2 DEF NoticeInv, Reached, JobsKept
  <2>4. notice[n].pc = "done" /\ Listed(n)' => \A u \in seen'[n].users : rows'[n][u] # "none"
    BY <1>1, <2>1, <2>2 DEF NoticeInv, Reached, Mono, RowsStay
  <2>5. notice[n].pc = "done" /\ notice[n].kind # "email" =>
          \A p \in seen'[n].steady : p[1] \in seen'[n].users =>
            \E k \in Sessions : In(PushJob(n, k))' /\ job'[PushJob(n, k)].to = p[2]
    BY <2>1 DEF NoticeInv, Reached, JobsKept
  <2> QED BY <2>3, <2>4, <2>5 DEF Reached
<1>6. MailOnly(n)' BY DEF NoticeInv, MailOnly
<1> QED BY <1>2, <1>3, <1>4, <1>5, <1>6 DEF NoticeInv

-----------------------------------------------------------------------------
(* A notice moves on *)

\* What a step may use: the invariants before it, and what every step keeps.
Moving(n) == IInv /\ IInv' /\ Mono /\ SessionsConfirmed /\ NoticeInv(n)

LEMMA PutIt ==
  ASSUME Core, NEW n \in Notices, NEW c, Put(n, c)
  PROVE  notice'[n] = c /\ \A m \in Notices \ {n} : notice'[m] = notice[m]
BY DEF Put, Core, Types

LEMMA ThenIt ==
  ASSUME Core, NEW n \in Notices, NEW pc, Then(n, pc)
  PROVE  /\ notice'[n] = [notice[n] EXCEPT !.pc = pc]
         /\ notice'[n].pc = pc /\ notice'[n].kind = notice[n].kind
         /\ notice'[n].to = notice[n].to /\ notice'[n].found = notice[n].found
<1>1. notice[n] \in NoticeType BY DEF Core, Types
<1> QED BY <1>1, PutIt DEF Then, NoticeType

LEMMA CallTold ==
  ASSUME NEW n \in Notices, Moving(n), NEW c, Call(n, c),
         \/ c.pc = "members" /\ c.kind = "group"
         \/ c.pc = "rows" /\ c.kind = "user"
         \/ c.pc = "users" /\ c.kind \in {"email", "both"}
         \/ c.pc = "tokens" /\ c.kind = "fcm"
  PROVE  NoticeInv(n)'
<1>1. Core /\ At(n, "new") /\ notice'[n] = c /\ JobsKept(n)
  BY PutIt, UnchangedKept DEF Moving, IInv, Call
<1>2. NoPushes(n) /\ NoMails(n) BY <1>1 DEF Moving, NoticeInv, JobsOf, At, Ended
<1>3. SeenNow(n)' BY DEF Moving, Mono
<1>4. JobsOf(n)' BY <1>1, <1>2, JobsStay DEF Moving, NoticeInv, Ended, At
<1>5. Running(n)' BY <1>1 DEF Running, At, Ended
<1>6. Reading(n)'
  <2>1. c.pc = "rows" => Audience(n)' = c.to BY <1>1 DEF Audience
  <2>2. c.pc = "rows" => c.to \subseteq seen'[n].ever /\ seen'[n].users \subseteq c.to
    BY <1>3, <1>5, <2>1 DEF SeenNow
  <2> QED BY <1>1, <2>2 DEF Reading, Listed
<1>7. Reached(n)' BY <1>1 DEF Reached
<1>8. MailOnly(n)' BY <1>1 DEF MailOnly
<1> QED BY <1>3, <1>4, <1>6, <1>7, <1>8 DEF NoticeInv

LEMMA RequestsTold == ASSUME NEW n \in Notices, Moving(n), Requests(n) PROVE NoticeInv(n)'
<1>1. ASSUME NEW u \in Users, NotifyGroup(n, u) PROVE NoticeInv(n)'
  <2> DEFINE c == [NoNotice EXCEPT !.pc = "members", !.kind = "group", !.sender = u]
  <2>1. Call(n, c) BY <1>1 DEF NotifyGroup
  <2>2. c.pc = "members" /\ c.kind = "group" BY DEF NoNotice
  <2> HIDE DEF c
  <2> QED BY <2>1, <2>2, CallTold
<1>2. ASSUME NEW u \in Users, NotifyUser(n, u) PROVE NoticeInv(n)'
  <2> DEFINE c == [NoNotice EXCEPT !.pc = "rows", !.kind = "user", !.to = {u}]
  <2>1. Call(n, c) BY <1>2 DEF NotifyUser
  <2>2. c.pc = "rows" /\ c.kind = "user" BY DEF NoNotice
  <2> HIDE DEF c
  <2> QED BY <2>1, <2>2, CallTold
<1>3. ASSUME NEW channel \in {"email", "fcm", "both"}, BroadcastToAllUsers(n, channel)
      PROVE  NoticeInv(n)'
  <2> DEFINE pc == IF channel = "fcm" THEN "tokens" ELSE "users"
             c == [NoNotice EXCEPT !.pc = pc, !.kind = channel]
  <2>1. Call(n, c) BY <1>3 DEF BroadcastToAllUsers
  <2>2. c.pc = pc /\ c.kind = channel BY DEF NoNotice
  <2> HIDE DEF c
  <2> QED BY <1>3, <2>1, <2>2, CallTold
<1> QED BY <1>1, <1>2, <1>3 DEF Requests

LEMMA ReadMembersTold == ASSUME NEW n \in Notices, Moving(n), ReadMembers(n) PROVE NoticeInv(n)'
<1> DEFINE to == members \ {notice[n].sender}
           pc == IF to = {} THEN "done" ELSE "rows"
           c == [notice[n] EXCEPT !.pc = pc, !.to = to]
<1>1. /\ Core /\ At(n, "members") /\ notice[n] \in NoticeType /\ notice[n].kind = "group"
      /\ notice'[n] = c /\ JobsKept(n)
  BY PutIt, UnchangedKept DEF Moving, IInv, Core, Types, NoticeOK, ReadMembers
<1>2. c.pc = pc /\ c.kind = "group" /\ c.to = to BY <1>1 DEF NoticeType
<1>3. SeenNow(n)' BY DEF Moving, Mono
<1>4. Audience(n) = to /\ Running(n) BY <1>1 DEF Audience, Running, At, Ended
<1>5. to \subseteq seen'[n].ever /\ seen'[n].users \subseteq to
  BY <1>4 DEF Moving, NoticeInv, SeenNow, Mono
<1> HIDE DEF c
<1>6. JobsOf(n)'
  BY <1>1, <1>2, JobsStay DEF Moving, NoticeInv, Ended, At, Listed
<1>7. Reading(n)' BY <1>1, <1>2, <1>5 DEF Reading
<1>8. Reached(n)'
  <2>1. ASSUME c.pc = "done" PROVE seen'[n].users = {} BY <1>2, <1>5, <2>1
  <2> QED BY <1>1, <1>2, <2>1 DEF Reached
<1>9. MailOnly(n)' BY <1>1, <1>2 DEF MailOnly
<1> QED BY <1>3, <1>6, <1>7, <1>8, <1>9 DEF NoticeInv

LEMMA CreateRowsTold == ASSUME NEW n \in Notices, Moving(n), CreateRows(n) PROVE NoticeInv(n)'
<1>1. /\ Core /\ At(n, "rows") /\ Listed(n) /\ JobsKept(n)
      /\ notice'[n].pc = "tokens" /\ notice'[n].kind = notice[n].kind /\ notice'[n].to = notice[n].to
  BY ThenIt, UnchangedKept DEF Moving, IInv, Core, NoticeOK, CreateRows
<1>2. SeenNow(n)' BY DEF Moving, Mono
<1>3. JobsOf(n)' BY <1>1, JobsStay DEF Moving, NoticeInv, Ended, At
<1>4. notice[n].to \subseteq Users BY <1>1 DEF Core, Types, NoticeType
<1>5. \A u \in notice[n].to : rows'[n][u] # "none" BY <1>1, <1>4 DEF CreateRows, Core, Types
<1>6. notice[n].to \subseteq seen'[n].ever /\ seen'[n].users \subseteq notice[n].to
  BY <1>1 DEF Moving, NoticeInv, Reading, Mono, At
<1>7. Reading(n)' BY <1>1, <1>5, <1>6 DEF Reading
<1>8. Reached(n)' /\ MailOnly(n)' BY <1>1 DEF Reached, MailOnly, Listed
<1> QED BY <1>2, <1>3, <1>7, <1>8 DEF NoticeInv

LEMMA ReadTokensTold == ASSUME NEW n \in Notices, Moving(n), ReadTokens(n) PROVE NoticeInv(n)'
<1> DEFINE found == {[at |-> k, token |-> sessions[k].token] : k \in Open(n)}
           c == [notice[n] EXCEPT !.pc = "push", !.found = found]
<1>1. /\ Core /\ At(n, "tokens") /\ notice[n] \in NoticeType /\ notice'[n] = c /\ JobsKept(n)
      /\ UNCHANGED <<sessions, rows>>
  BY PutIt, UnchangedKept DEF Moving, IInv, Core, Types, ReadTokens, Find
<1>2. c.pc = "push" /\ c.kind = notice[n].kind /\ c.to = notice[n].to /\ c.found = found
  BY <1>1 DEF NoticeType
<1>3. SeenNow(n)' BY DEF Moving, Mono
<1>4. /\ Audience(n) \subseteq seen[n].ever /\ Lit \subseteq seen[n].lit
      /\ seen[n].users \subseteq Audience(n) /\ seen[n].steady \subseteq Lit
  BY <1>1 DEF Moving, NoticeInv, SeenNow, Running, At, Ended
<1>5. Listed(n) => /\ notice[n].to \subseteq seen[n].ever /\ seen[n].users \subseteq notice[n].to
                   /\ \A u \in notice[n].to : rows[n][u] # "none"
  BY <1>1 DEF Moving, NoticeInv, Reading, At
<1>6. ~Listed(n) => Audience(n) = confirmed
  BY <1>1 DEF Moving, NoticeInv, MailOnly, Listed, Audience, Core, NoticeOK, At
<1>7. \A k \in Open(n) :
        /\ k \in Rows /\ sessions[k].active /\ sessions[k].token # None
        /\ Listed(n) => sessions[k].user \in notice[n].to
  BY DEF Open, Tokened
<1>8. ASSUME NEW f \in found
      PROVE  Told(n, f.token)' /\ (Listed(n) => sessions'[f.at].user \in c.to)
  <2>1. PICK k \in Open(n) : f = [at |-> k, token |-> sessions[k].token] BY <1>8
  <2>2. f.at = k /\ f.token = sessions[k].token BY <2>1
  <2>3. sessions[k].user \in seen[n].ever
    BY <1>4, <1>5, <1>6, <1>7 DEF Moving, SessionsConfirmed
  <2>4. <<sessions[k].user, f.token>> \in seen[n].lit BY <1>4, <1>7, <2>2 DEF Lit
  <2>5. Told(n, f.token)' BY <2>3, <2>4 DEF Told, Moving, Mono
  <2> QED BY <1>1, <1>2, <1>7, <2>2, <2>5
<1>9. \A f, g \in found : f.at = g.at => f = g OBVIOUS
<1>10. ASSUME NEW p \in seen'[n].steady, p[1] \in seen'[n].users
       PROVE  \E f \in found : f.token = p[2]
  <2>1. p \in Lit /\ p[1] \in seen[n].users BY <1>4, <1>10 DEF Moving, Mono
  <2>2. PICK k \in Rows : /\ sessions[k].active /\ sessions[k].token # None
                          /\ p = <<sessions[k].user, sessions[k].token>>
    BY <2>1 DEF Lit
  <2>3. p[1] = sessions[k].user /\ p[2] = sessions[k].token BY <2>2
  <2>4. Listed(n) => p[1] \in notice[n].to BY <1>5, <2>1
  <2>5. k \in Open(n) BY <2>2, <2>3, <2>4 DEF Open, Tokened
  <2>6. [at |-> k, token |-> sessions[k].token] \in found BY <2>5
  <2> QED BY <2>3, <2>6
<1> HIDE DEF c, found
<1>11. Listed(n)' = Listed(n) BY <1>1, <1>2 DEF Listed
<1>12. Reading(n)'
  <2>1. Listed(n) => c.to \subseteq seen'[n].ever /\ seen'[n].users \subseteq c.to
    BY <1>2, <1>5 DEF Moving, Mono
  <2>2. Listed(n) => \A u \in c.to : rows'[n][u] # "none" BY <1>1, <1>2, <1>5
  <2> QED BY <1>1, <1>2, <1>8, <1>9, <1>10, <1>11, <2>1, <2>2 DEF Reading
<1>13. JobsOf(n)' BY <1>1, <1>2, <1>11, JobsStay DEF Moving, NoticeInv, Ended, At
<1>14. Reached(n)'
  <2>1. seen'[n].users \subseteq seen[n].users /\ seen[n].users \subseteq Users
    BY DEF Moving, Mono, IInv, SeenType
  <2>2. c.kind \in {"email", "both"} => \A u \in seen'[n].users : In(MailJob(n, u))'
    BY <1>1, <1>2, <2>1 DEF Moving, NoticeInv, Reached, JobsKept, At
  <2> QED BY <1>1, <1>2, <2>2 DEF Reached
<1>15. MailOnly(n)' BY <1>1, <1>2 DEF Moving, NoticeInv, MailOnly, At
<1> QED BY <1>3, <1>12, <1>13, <1>14, <1>15 DEF NoticeInv

LEMMA ReadUsersTold == ASSUME NEW n \in Notices, Moving(n), ReadUsers(n) PROVE NoticeInv(n)'
<1> DEFINE c == [notice[n] EXCEPT !.pc = "mails", !.to = confirmed]
<1>1. /\ Core /\ At(n, "users") /\ notice[n] \in NoticeType /\ notice'[n] = c /\ JobsKept(n)
      /\ notice[n].kind \in {"email", "both"}
  BY PutIt, UnchangedKept DEF Moving, IInv, Core, Types, NoticeOK, ReadUsers, At
<1>2. c.pc = "mails" /\ c.kind = notice[n].kind /\ c.to = confirmed BY <1>1 DEF NoticeType
<1>3. SeenNow(n)' BY DEF Moving, Mono
<1>4. confirmed \subseteq seen'[n].ever /\ seen'[n].users \subseteq confirmed
  BY <1>1 DEF Moving, NoticeInv, SeenNow, Running, At, Ended, Audience, Mono
<1> HIDE DEF c
<1>5. JobsOf(n)' BY <1>1, <1>2, JobsStay DEF Moving, NoticeInv, JobsOf, Ended, At, Listed
<1>6. Reading(n)' BY <1>1, <1>2, <1>4 DEF Reading
<1>7. Reached(n)' /\ MailOnly(n)' BY <1>1, <1>2 DEF Reached, MailOnly
<1> QED BY <1>3, <1>5, <1>6, <1>7 DEF NoticeInv

\* A call that failed, or died with the process.
LEMMA LostTold ==
  ASSUME NEW n \in Notices, Moving(n), Running(n), JobsKept(n),
         notice'[n].pc = "lost", notice'[n].kind = notice[n].kind
  PROVE  NoticeInv(n)'
<1>1. JobsOf(n)' BY JobsStay DEF Moving, IInv, NoticeInv, Listed, Running, Ended
<1>2. Reading(n)' /\ Reached(n)' /\ MailOnly(n)' BY DEF Reading, Reached, MailOnly
<1> QED BY <1>1, <1>2 DEF Moving, Mono, NoticeInv

LEMMA FailTold == ASSUME NEW n \in Notices, Moving(n), Fail(n) PROVE NoticeInv(n)'
<1>1. Core /\ Running(n) /\ JobsKept(n) BY UnchangedKept DEF Moving, IInv, Fail
<1>2. notice'[n].pc = "lost" /\ notice'[n].kind = notice[n].kind BY <1>1, ThenIt DEF Fail
<1> QED BY <1>1, <1>2, LostTold

-----------------------------------------------------------------------------
(* The queries that add jobs *)

\* Of the sessions with one token, one is the first.
LEMMA FirstExists ==
  ASSUME NEW found \in SUBSET [at : Sessions, token : Devices], NEW f \in found
  PROVE  \E g \in found : /\ g.token = f.token
                          /\ \A h \in found : h.token = g.token => g.at <= h.at
<1> DEFINE T == {k \in Nat : \E g \in found : g.token = f.token /\ g.at = k}
<1>1. \A g \in found : g.at \in Nat BY DEF Sessions
<1>2. T \subseteq Nat /\ T # {} BY <1>1
<1>3. \E k \in T : \A i \in T : <<i, k>> \notin OpToRel(<, Nat)
  BY <1>2, NatLessThanWellFounded, WFMin
<1>4. PICK k \in T : \A i \in T : ~(i < k) BY <1>3 DEF OpToRel
<1>5. PICK g \in found : g.token = f.token /\ g.at = k BY <1>4
<1>6. \A h \in found : h.token = g.token => g.at <= h.at BY <1>1, <1>4, <1>5
<1> QED BY <1>5, <1>6

\* What QueuePushes adds: one job to each token that was found.
LEMMA PushesAdded ==
  ASSUME Core, NEW n \in Notices, QueuePushes(n), Q!TypeOK,
         \A f, g \in notice[n].found : f.at = g.at => f = g, NoPushes(n)
  PROVE  \E first \in SUBSET notice[n].found :
           /\ \A f \in notice[n].found : \E g \in first : g.token = f.token
           /\ \A f, g \in first : f.token = g.token => f = g
           /\ \A f \in first : In(PushJob(n, f.at))' /\ job'[PushJob(n, f.at)].to = f.token
           /\ \A k \in Sessions : In(PushJob(n, k))' => \E f \in first : f.at = k
           /\ \A j \in Pushes \cup Mails : j[1] # "push" \/ j[2] # n => job'[j] = job[j]
<1> DEFINE first == {f \in notice[n].found :
                       \A g \in notice[n].found : g.token = f.token => f.at <= g.at}
           S == {<<"push", n, f.at>> : f \in first}
           to == [j \in S |-> (CHOOSE f \in first : f.at = j[3]).token]
           added == {j \in S : to[j] # None}
<1>1. notice[n].found \in SUBSET [at : Sessions, token : Devices]
      /\ first \subseteq [at : Sessions, token : Devices]
  BY DEF Core, Types, NoticeType
<1>2. Q!Add(added, to) BY DEF QueuePushes, Push, Q!QueuePushToMany
<1>3. ASSUME NEW f \in first
      PROVE  /\ PushJob(n, f.at) \in Pushes \cup Mails /\ PushJob(n, f.at) \in added
             /\ to[PushJob(n, f.at)] = f.token
  <2>1. PushJob(n, f.at) \in S /\ PushJob(n, f.at)[3] = f.at BY DEF PushJob
  <2>2. (CHOOSE g \in first : g.at = PushJob(n, f.at)[3]) = f BY <2>1
  <2>3. to[PushJob(n, f.at)] = f.token BY <2>1, <2>2
  <2>4. f.token # None /\ f.at \in Sessions BY <1>1, NamesAssumption
  <2> QED BY <2>1, <2>3, <2>4 DEF PushJob, Pushes
<1>4. \A j \in added : \E f \in first : j = PushJob(n, f.at) BY DEF PushJob
<1> HIDE DEF added, to, S
<1>5. \A j \in Pushes \cup Mails : job'[j] = IF j \in added THEN Q!NewJob(to[j]) ELSE job[j]
  BY <1>2 DEF Q!Add
<1>6. ASSUME NEW f \in first
      PROVE  In(PushJob(n, f.at))' /\ job'[PushJob(n, f.at)].to = f.token
  <2>1. job'[PushJob(n, f.at)] = Q!NewJob(f.token) BY <1>3, <1>5
  <2>2. job'[PushJob(n, f.at)].state = "wait" /\ job'[PushJob(n, f.at)].to = f.token
    BY <2>1 DEF Q!NewJob
  <2> QED BY <2>2 DEF In
<1>7. ASSUME NEW k \in Sessions, In(PushJob(n, k))' PROVE \E f \in first : f.at = k
  <2>1. PushJob(n, k) \in Pushes BY DEF PushJob, Pushes
  <2>2. PushJob(n, k) \in added BY <1>5, <1>7, <2>1 DEF In, NoPushes
  <2>3. PICK f \in first : PushJob(n, k) = PushJob(n, f.at) BY <1>4, <2>2
  <2> QED BY <2>3 DEF PushJob
<1>8. \A j \in Pushes \cup Mails : j[1] # "push" \/ j[2] # n => job'[j] = job[j]
  BY <1>4, <1>5 DEF PushJob
<1>9. \A f \in notice[n].found : \E g \in first : g.token = f.token BY <1>1, FirstExists
<1>10. \A f, g \in first : f.token = g.token => f = g BY <1>1 DEF Sessions
<1> QED BY <1>6, <1>7, <1>8, <1>9, <1>10

LEMMA QueuePushesTold ==
  ASSUME NEW n \in Notices, Moving(n), Q!TypeOK, QueuePushes(n) PROVE NoticeInv(n)'
<1> DEFINE c == notice[n]
<1>1. /\ Core /\ At(n, "push") /\ UNCHANGED <<sessions, rows>>
      /\ notice'[n].pc = "done" /\ notice'[n].kind = c.kind
  BY ThenIt DEF Moving, IInv, QueuePushes, Push
<1>2. Reading(n) /\ NoPushes(n) /\ Listed(n)' = Listed(n)
  BY <1>1 DEF Moving, NoticeInv, JobsOf, Ended, At, Listed
<1>3. \A f, g \in c.found : f.at = g.at => f = g BY <1>1, <1>2 DEF Reading, At
<1>4. PICK first \in SUBSET c.found :
        /\ \A f \in c.found : \E g \in first : g.token = f.token
        /\ \A f, g \in first : f.token = g.token => f = g
        /\ \A f \in first : In(PushJob(n, f.at))' /\ job'[PushJob(n, f.at)].to = f.token
        /\ \A k \in Sessions : In(PushJob(n, k))' => \E f \in first : f.at = k
        /\ \A j \in Pushes \cup Mails : j[1] # "push" \/ j[2] # n => job'[j] = job[j]
  BY <1>1, <1>2, <1>3, PushesAdded
<1>5. \A f \in first : f.at \in Rows /\ f.at \in Sessions /\ f.token \in Devices
  BY <1>1 DEF Core, Types, NoticeType, NoticeOK
<1>6. \A u \in Users : job'[MailJob(n, u)] = job[MailJob(n, u)]
  BY <1>4 DEF MailJob, Mails
<1>7. JobsOf(n)'
  <2>1. ASSUME NEW k \in Sessions, In(PushJob(n, k))'
        PROVE  /\ k \in Rows' /\ Told(n, job[PushJob(n, k)].to)'
               /\ Listed(n)' => rows'[n][sessions'[k].user] # "none"
    <3>1. PICK f \in first : f.at = k BY <1>4, <2>1
    <3>2. job'[PushJob(n, k)].to = f.token BY <1>4, <3>1
    <3>3. Told(n, f.token) /\ (Listed(n) => sessions[k].user \in c.to)
      BY <1>1, <1>2, <3>1 DEF Reading, At
    <3>4. Told(n, job[PushJob(n, k)].to)' BY <3>2, <3>3 DEF Told, Moving, Mono
    <3>5. k \in Rows' BY <1>1, <1>5, <3>1 DEF Rows
    <3>6. Listed(n) => rows[n][sessions[k].user] # "none"
      BY <1>1, <1>2, <3>3 DEF Reading, At
    <3> QED BY <1>1, <1>2, <3>4, <3>5, <3>6
  <2>2. ASSUME NEW i \in Sessions, NEW k \in Sessions, In(PushJob(n, i))', In(PushJob(n, k))',
               job'[PushJob(n, i)].to = job'[PushJob(n, k)].to
        PROVE  i = k
    <3>1. PICK f \in first : f.at = i BY <1>4, <2>2
    <3>2. PICK g \in first : g.at = k BY <1>4, <2>2
    <3>3. f.token = g.token BY <1>4, <2>2, <3>1, <3>2
    <3>4. f = g BY <1>4, <3>3
    <3> QED BY <3>1, <3>2, <3>4
  <2>3. \A u \in Users : In(MailJob(n, u))' => job'[MailJob(n, u)].to = u /\ u \in seen'[n].ever
    BY <1>6 DEF Moving, NoticeInv, JobsOf, Mono, In
  <2>4. Ended(n)' /\ notice'[n].pc \notin {"new", "users", "mails"} BY <1>1 DEF Ended
  <2> QED BY <2>1, <2>2, <2>3, <2>4 DEF JobsOf
<1>8. Reached(n)'
  <2>1. seen'[n].users \subseteq seen[n].users /\ seen'[n].steady \subseteq seen[n].steady
        /\ seen[n].users \subseteq Users
    BY DEF Moving, Mono, IInv, SeenType
  <2>2. c.kind \in {"email", "both"} => \A u \in seen'[n].users : In(MailJob(n, u))'
    BY <1>1, <1>6, <2>1 DEF Moving, NoticeInv, Reached, At, In
  <2>3. ASSUME NEW p \in seen'[n].steady, p[1] \in seen'[n].users
        PROVE  \E k \in Sessions : In(PushJob(n, k))' /\ job'[PushJob(n, k)].to = p[2]
    <3>1. PICK f \in c.found : f.token = p[2] BY <1>1, <1>2, <2>1, <2>3 DEF Reading, At
    <3>2. PICK g \in first : g.token = p[2] BY <1>4, <3>1
    <3> QED BY <1>4, <1>5, <3>2
  <2>4. Listed(n) => \A u \in seen'[n].users : rows'[n][u] # "none"
    BY <1>1, <1>2, <2>1 DEF Reading, At
  <2> QED BY <1>1, <1>2, <2>2, <2>3, <2>4 DEF Reached
<1>9. Reading(n)' /\ MailOnly(n)' BY <1>1 DEF Reading, MailOnly
<1> QED BY <1>7, <1>8, <1>9 DEF Moving, Mono, NoticeInv

\* What QueueBroadcastEmails adds: a job for each of some of the users.
LEMMA MailsAdded ==
  ASSUME Core, NEW n \in Notices, NEW U \in SUBSET notice[n].to,
         Q!QueueEmails([j \in {<<"mail", n, u>> : u \in U} |-> j[3]]), NoMails(n)
  PROVE  /\ \A u \in U : In(MailJob(n, u))'
         /\ \A u \in Users : In(MailJob(n, u))' => u \in U /\ job'[MailJob(n, u)].to = u
         /\ \A j \in Pushes \cup Mails : j[1] # "mail" \/ j[2] # n => job'[j] = job[j]
<1> DEFINE S == {<<"mail", n, u>> : u \in U}
           to == [j \in S |-> j[3]]
<1>1. U \subseteq Users BY DEF Core, Types, NoticeType
<1>2. Q!Add(S, to) BY DEF Q!QueueEmails
<1>3. \A u \in Users : /\ MailJob(n, u) \in Pushes \cup Mails
                       /\ MailJob(n, u) \in S <=> u \in U
                       /\ u \in U => to[MailJob(n, u)] = u
  BY <1>1 DEF MailJob, Mails
<1>4. \A j \in S : j[1] = "mail" /\ j[2] = n OBVIOUS
<1> HIDE DEF S, to
<1>5. \A j \in Pushes \cup Mails : job'[j] = IF j \in S THEN Q!NewJob(to[j]) ELSE job[j]
  BY <1>2 DEF Q!Add
<1>6. ASSUME NEW u \in U PROVE In(MailJob(n, u))' /\ job'[MailJob(n, u)].to = u
  <2>1. job'[MailJob(n, u)] = Q!NewJob(u) BY <1>1, <1>3, <1>5
  <2>2. job'[MailJob(n, u)].state = "wait" /\ job'[MailJob(n, u)].to = u
    BY <2>1 DEF Q!NewJob
  <2> QED BY <2>2 DEF In
<1>7. \A u \in Users : In(MailJob(n, u))' => u \in U
  BY <1>3, <1>5 DEF In, NoMails
<1> QED BY <1>4, <1>5, <1>6, <1>7

LEMMA QueueBroadcastEmailsTold ==
  ASSUME NEW n \in Notices, Moving(n), QueueBroadcastEmails(n) PROVE NoticeInv(n)'
<1> DEFINE c == notice[n]
<1>1. /\ Core /\ At(n, "mails") /\ UNCHANGED <<sessions, rows>> /\ c.kind \in {"email", "both"}
      /\ NoMails(n) /\ NoPushes(n)
  BY DEF Moving, IInv, QueueBroadcastEmails, Core, NoticeOK, At, NoticeInv, JobsOf, Ended
<1>2. PICK U \in SUBSET c.to :
        /\ Q!QueueEmails([j \in {<<"mail", n, u>> : u \in U} |-> j[3]])
        /\ IF U = c.to
           THEN Then(n, IF c.kind = "both" THEN "tokens" ELSE "done")
           ELSE Then(n, "lost")
  BY DEF QueueBroadcastEmails
<1>3. /\ \A u \in U : In(MailJob(n, u))'
      /\ \A u \in Users : In(MailJob(n, u))' => u \in U /\ job'[MailJob(n, u)].to = u
      /\ \A j \in Pushes \cup Mails : j[1] # "mail" \/ j[2] # n => job'[j] = job[j]
  BY <1>1, <1>2, MailsAdded
<1>4. \/ U = c.to /\ notice'[n].pc = IF c.kind = "both" THEN "tokens" ELSE "done"
      \/ notice'[n].pc = "lost"
  BY <1>1, <1>2, ThenIt
<1>5. notice'[n].kind = c.kind BY <1>1, <1>2, ThenIt
<1>6. c.to \subseteq seen'[n].ever /\ seen'[n].users \subseteq c.to
  BY <1>1 DEF Moving, NoticeInv, Reading, Mono, At
<1>7. \A k \in Sessions : ~In(PushJob(n, k))'
  BY <1>1, <1>3 DEF NoPushes, In, PushJob, Pushes
<1>8. JobsOf(n)'
  <2>1. notice'[n].pc \notin {"new", "users", "mails"} BY <1>4
  <2>2. \A u \in Users : In(MailJob(n, u))' => job'[MailJob(n, u)].to = u /\ u \in seen'[n].ever
    BY <1>3, <1>6
  <2> QED BY <1>7, <2>1, <2>2 DEF JobsOf, NoPushes
<1>9. Reached(n)'
  <2>1. notice'[n].pc # "lost" => \A u \in seen'[n].users : In(MailJob(n, u))'
    BY <1>3, <1>4, <1>6
  <2>2. notice'[n].pc = "done" => c.kind = "email" BY <1>1, <1>4
  <2> QED BY <1>1, <1>5, <2>1, <2>2 DEF Reached, Listed
<1>10. Reading(n)' /\ MailOnly(n)' BY <1>1, <1>4, <1>5 DEF Reading, MailOnly, Listed
<1> QED BY <1>8, <1>9, <1>10 DEF Moving, Mono, NoticeInv

LEMMA QueriesTold ==
  ASSUME NEW n \in Notices, Moving(n), Q!TypeOK, Queries(n) PROVE NoticeInv(n)'
BY ReadMembersTold, CreateRowsTold, ReadTokensTold, QueuePushesTold, ReadUsersTold,
   QueueBroadcastEmailsTold, FailTold DEF Queries

\* The other notices keep their place and their jobs.
LEMMA OthersKept ==
  ASSUME Core, NEW n \in Notices, NEW m \in Notices \ {n}, Requests(n) \/ Queries(n)
  PROVE  notice'[m] = notice[m] /\ JobsKept(m)
<1>1. CASE UNCHANGED queues /\ \E c : Put(n, c) BY <1>1, PutIt, UnchangedKept
<1>2. ASSUME NEW S, NEW to, Q!Add(S, to), \A j \in S : j[2] = n PROVE JobsKept(m)
  <2>1. \A j \in Pushes \cup Mails : job'[j] = IF j \in S THEN Q!NewJob(to[j]) ELSE job[j]
    BY <1>2 DEF Q!Add
  <2>2. \A k \in Sessions : PushJob(m, k) \in Pushes \cup Mails /\ PushJob(m, k) \notin S
    BY <1>2 DEF PushJob, Pushes
  <2>3. \A u \in Users : MailJob(m, u) \in Pushes \cup Mails /\ MailJob(m, u) \notin S
    BY <1>2 DEF MailJob, Mails
  <2> QED BY <2>1, <2>2, <2>3 DEF JobsKept, In
<1>3. CASE QueuePushes(n)
  <2> DEFINE first == {f \in notice[n].found :
                         \A g \in notice[n].found : g.token = f.token => f.at <= g.at}
             T == {<<"push", n, f.at>> : f \in first}
             to == [j \in T |-> (CHOOSE f \in first : f.at = j[3]).token]
             S == {j \in T : to[j] # None}
  <2>1. Q!Add(S, to) BY <1>3 DEF QueuePushes, Push, Q!QueuePushToMany
  <2>2. \A j \in S : j[2] = n OBVIOUS
  <2>3. Then(n, "done") BY <1>3 DEF QueuePushes, Push
  <2> HIDE DEF S, to
  <2> QED BY <1>2, <2>1, <2>2, <2>3, PutIt DEF Then
<1>4. CASE QueueBroadcastEmails(n)
  <2>1. PICK U \in SUBSET notice[n].to :
          /\ Q!QueueEmails([j \in {<<"mail", n, u>> : u \in U} |-> j[3]])
          /\ \E pc : Then(n, pc)
    BY <1>4 DEF QueueBroadcastEmails
  <2> DEFINE S == {<<"mail", n, u>> : u \in U}
             to == [j \in S |-> j[3]]
  <2>2. Q!Add(S, to) BY <2>1 DEF Q!QueueEmails
  <2>3. \A j \in S : j[2] = n OBVIOUS
  <2> HIDE DEF S, to
  <2> QED BY <1>2, <2>1, <2>2, <2>3, PutIt DEF Then
<1>5. CASE Requests(n)
  BY <1>1, <1>5 DEF Requests, NotifyGroup, NotifyUser, BroadcastToAllUsers, Call
<1> QED BY <1>1, <1>3, <1>4, <1>5
        DEF Queries, ReadMembers, CreateRows, ReadTokens, Find, ReadUsers, Fail, Then

LEMMA CrashTold ==
  ASSUME NEW n \in Notices, Moving(n), Q!TypeOK, Crash PROVE NoticeInv(n)'
<1>1. Core /\ JobsKept(n) BY CrashKept DEF Moving, IInv
<1>2. notice'[n] = IF Running(n) THEN [notice[n] EXCEPT !.pc = "lost"] ELSE notice[n]
  BY DEF Crash
<1>3. CASE Running(n)
  <2>1. notice'[n].pc = "lost" /\ notice'[n].kind = notice[n].kind
    BY <1>1, <1>2, <1>3 DEF Core, Types, NoticeType
  <2> QED BY <1>1, <1>3, <2>1, LostTold
<1>4. CASE ~Running(n) BY <1>1, <1>2, <1>4, Stays DEF Moving
<1> QED BY <1>3, <1>4

\* The users of new sessions are confirmed, and a confirmed user remains so.
LEMMA ConfirmedStep ==
  ASSUME Core, Core', Mono, SessionsConfirmed, Step PROVE SessionsConfirmed'
<1>1. ASSUME Rows' = Rows PROVE SessionsConfirmed'
  BY <1>1 DEF SessionsConfirmed, Mono, SameSessions
<1>2. ASSUME UNCHANGED sessions PROVE Rows' = Rows BY <1>2 DEF Rows
<1>3. ASSUME NEW s \in Slots, Updates(s) PROVE Rows' = Rows
  <2>1. CASE WriteToken(s) BY <2>1 DEF WriteToken, Core, Types, Rows
  <2> QED BY <1>2, <1>3, <2>1 DEF Updates, UpdateDeviceToken, FindSession, FailUpdate
<1>4. ASSUME NEW u \in Users, NEW token \in Maybe(Devices), CreateSession(u, token)
      PROVE  SessionsConfirmed'
  <2> DEFINE new == [user |-> u, token |-> token, active |-> TRUE]
  <2>1. sessions' = Append(sessions, new) /\ u \in confirmed' BY <1>4 DEF CreateSession
  <2>2. sessions \in Seq(SessionType) BY DEF Core, Types
  <2>3. \A k \in Rows' : k \in Rows \/ sessions'[k] = new BY <2>1, <2>2 DEF Rows
  <2>4. ASSUME NEW k \in Rows PROVE sessions'[k].user \in confirmed'
    BY DEF SessionsConfirmed, Mono, SameSessions
  <2>5. new.user = u OBVIOUS
  <2> HIDE DEF new
  <2>6. ASSUME NEW k \in Rows' PROVE sessions'[k].user \in confirmed'
    BY <2>1, <2>3, <2>4, <2>5
  <2> QED BY <2>6 DEF SessionsConfirmed
<1>5. ASSUME NEW u \in Users, RevokeAllUserSessions(u) PROVE Rows' = Rows
  <2>1. Len(sessions) \in Nat BY DEF Core, Types
  <2> QED BY <1>5, <2>1 DEF RevokeAllUserSessions, Rows
<1>6. ASSUME NEW u \in Users, Elsewhere(u) PROVE SessionsConfirmed'
  BY <1>1, <1>2, <1>4, <1>5, <1>6
     DEF Elsewhere, AddUserToGroup, LeaveGroup, ConfirmUser, MarkAllAsRead, MarkAsRead
<1>7. ASSUME NEW n \in Notices, Requests(n) \/ Queries(n) PROVE UNCHANGED sessions
  BY <1>7, RequestsMono, QueriesMono
<1>8. CASE Crash BY <1>1, <1>2, <1>8 DEF Crash
<1>9. ASSUME NEW j \in Pushes \cup Mails, Work(j) PROVE UNCHANGED sessions
  BY <1>9 DEF Work, ours
<1> QED BY <1>1, <1>2, <1>3, <1>6, <1>7, <1>8, <1>9 DEF Step

LEMMA ToldStep ==
  ASSUME IInv, IInv', Q!TypeOK, ToldInv, Next PROVE ToldInv'
<1>1. Core /\ Core' /\ Step /\ Mono /\ SessionsConfirmed
  BY StepMono DEF IInv, Next, ToldInv
<1>2. SessionsConfirmed' BY <1>1, ConfirmedStep
<1>3. ASSUME NEW m \in Notices PROVE NoticeInv(m)'
  <2>1. Moving(m) BY <1>1 DEF Moving, ToldInv
  <2>2. CASE notice'[m] = notice[m] /\ JobsKept(m) BY <2>1, <2>2, Stays DEF Moving
  <2>3. ASSUME NEW n \in Notices, Requests(n) \/ Queries(n) PROVE NoticeInv(m)'
    <3>1. CASE m = n BY <2>1, <2>3, <3>1, RequestsTold, QueriesTold
    <3>2. CASE m # n BY <1>1, <2>2, <2>3, <3>2, OthersKept
    <3> QED BY <3>1, <3>2
  <2>4. ASSUME NEW s \in Slots, Updates(s) PROVE UNCHANGED <<notice, queues>>
    BY <2>4 DEF Updates, UpdateDeviceToken, FindSession, WriteToken, FailUpdate
  <2>5. ASSUME NEW u \in Users, Elsewhere(u) PROVE UNCHANGED <<notice, queues>>
    BY <2>5 DEF Elsewhere, AddUserToGroup, LeaveGroup, ConfirmUser, CreateSession,
                RevokeAllUserSessions, MarkAllAsRead, MarkAsRead
  <2>6. CASE UNCHANGED <<notice, queues>> BY <2>2, <2>6, UnchangedKept
  <2>7. ASSUME NEW j \in Pushes \cup Mails, Work(j) PROVE NoticeInv(m)'
    <3>1. UNCHANGED notice BY <2>7 DEF Work, ours
    <3> QED BY <2>2, <2>7, <3>1, WorkKept
  <2>8. CASE Crash BY <2>1, <2>8, CrashTold
  <2> QED BY <1>1, <2>3, <2>4, <2>5, <2>6, <2>7, <2>8 DEF Step
<1> QED BY <1>2, <1>3 DEF ToldInv

LEMMA ToldUnchanged == ASSUME IInv, ToldInv, UNCHANGED vars PROVE ToldInv'
<1>1. UNCHANGED <<members, confirmed, sessions, rows, notice, call, fails, seen, job, used>>
  BY DEF vars, ours, queues
<1>2. Rows' = Rows /\ Lit' = Lit /\ SameSessions /\ RowsStay
  BY <1>1 DEF Rows, Lit, SameSessions, RowsStay
<1>3. ASSUME NEW n \in Notices PROVE SeenNow(n)'
  <2>1. Audience(n)' = Audience(n) BY <1>1 DEF Audience
  <2>2. Running(n)' = Running(n) BY <1>1 DEF Running, Ended, At
  <2>3. SeenNow(n) BY DEF ToldInv, NoticeInv
  <2> QED BY <1>1, <1>2, <2>1, <2>2, <2>3 DEF SeenNow
<1>4. Mono BY <1>1, <1>2, <1>3 DEF Mono
<1>5. SessionsConfirmed' BY <1>1, <1>2 DEF ToldInv, SessionsConfirmed
<1>6. ASSUME NEW n \in Notices PROVE NoticeInv(n)'
  <2>1. JobsKept(n) BY <1>1, UnchangedKept DEF queues
  <2> QED BY <1>1, <1>4, <2>1, Stays DEF ToldInv
<1> QED BY <1>5, <1>6 DEF ToldInv

LEMMA ToldInit == Init => ToldInv
<1> SUFFICES ASSUME Init PROVE ToldInv OBVIOUS
<1>1. Rows = {} BY DEF Init, Rows
<1>2. SessionsConfirmed BY <1>1 DEF SessionsConfirmed
<1>3. ASSUME NEW n \in Notices PROVE NoticeInv(n)
  <2>1. notice[n].pc = "new" /\ notice[n].kind = "none" BY DEF Init, NoNotice
  <2>2. \A j \in Pushes \cup Mails : ~In(j) BY DEF Init, Q!Init, Q!NoJob, Q!NewJob, In
  <2>3. NoPushes(n) /\ NoMails(n)
    BY <2>2 DEF NoPushes, NoMails, PushJob, MailJob, Pushes, Mails
  <2>4. JobsOf(n) BY <2>3 DEF JobsOf, NoPushes, NoMails
  <2>5. ~Running(n) /\ ~Listed(n) BY <2>1 DEF Running, At, Listed
  <2> QED BY <2>1, <2>4, <2>5 DEF NoticeInv, SeenNow, Reading, Reached, MailOnly
<1> QED BY <1>2, <1>3 DEF ToldInv

\* The inductive invariant of the four theorems below.
LEMMA ToldAlways == Spec => [](TypeOK /\ ToldInv)
<1>1. Init => ToldInv BY ToldInit
<1>2. ToldInv /\ IInv /\ IInv' /\ TypeOK /\ [Next]_vars => ToldInv'
  BY ToldStep, ToldUnchanged DEF TypeOK
<1>3. Spec => []IInv BY CoreAlways
<1>4. Spec => []TypeOK BY TypeCorrect
<1> QED BY <1>1, <1>2, <1>3, <1>4, PTL DEF Spec

\* A queued job is the push of a session or the mail of a user.
LEMMA QueuedJobs ==
  ASSUME NEW n \in Notices
  PROVE  /\ \A j \in Queued(n, "push") : \E k \in Sessions : j = PushJob(n, k) /\ In(j)
         /\ \A j \in Queued(n, "mail") : \E u \in Users : j = MailJob(n, u) /\ In(j)
         /\ \A k \in Sessions : In(PushJob(n, k)) => PushJob(n, k) \in Queued(n, "push")
         /\ \A u \in Users : In(MailJob(n, u)) => MailJob(n, u) \in Queued(n, "mail")
BY DEF Queued, PushJob, MailJob, In, Pushes, Mails

\* Pushes and mails go to nobody but the users a notice was for while its call
\* ran, on devices they were logged in on then.
THEOREM OnlyIntendedAlways == Spec => []OnlyIntended
<1>1. TypeOK /\ ToldInv => OnlyIntended
  <2> SUFFICES ASSUME ToldInv, NEW n \in Notices
               PROVE  /\ \A j \in Queued(n, "push") :
                           \E u \in seen[n].ever : <<u, job[j].to>> \in seen[n].lit
                      /\ \A j \in Queued(n, "mail") : job[j].to \in seen[n].ever
    BY DEF OnlyIntended
  <2> QED BY QueuedJobs DEF ToldInv, NoticeInv, JobsOf, Told
<1> QED BY <1>1, ToldAlways, PTL

\* When a call has returned, everybody it was for all along was reached, on
\* every device used all along.
THEOREM EveryoneReachedAlways == Spec => []EveryoneReached
<1>1. TypeOK /\ ToldInv => EveryoneReached
  <2> SUFFICES ASSUME TypeOK, ToldInv, NEW n \in Notices, At(n, "done")
               PROVE  /\ notice[n].kind # "email" =>
                           \A p \in seen[n].steady :
                             p[1] \in seen[n].users => \E j \in Queued(n, "push") : job[j].to = p[2]
                      /\ Listed(n) => \A u \in seen[n].users : rows[n][u] # "none"
                      /\ notice[n].kind \in {"email", "both"} =>
                           \A u \in seen[n].users : \E j \in Queued(n, "mail") : job[j].to = u
    BY DEF EveryoneReached
  <2>1. Reached(n) /\ JobsOf(n) /\ notice[n].pc = "done" BY DEF ToldInv, NoticeInv, At
  <2>2. seen[n].users \subseteq Users BY DEF TypeOK, SeenType
  <2>3. notice[n].kind # "email" =>
          \A p \in seen[n].steady :
            p[1] \in seen[n].users => \E j \in Queued(n, "push") : job[j].to = p[2]
    BY <2>1, QueuedJobs DEF Reached
  <2>4. notice[n].kind \in {"email", "both"} =>
          \A u \in seen[n].users : \E j \in Queued(n, "mail") : job[j].to = u
    BY <2>1, <2>2, QueuedJobs DEF Reached, JobsOf
  <2> QED BY <2>1, <2>3, <2>4 DEF Reached
<1> QED BY <1>1, ToldAlways, PTL

\* No device gets two pushes of one notice.
THEOREM OnePushEachAlways == Spec => []OnePushEach
<1>1. TypeOK /\ ToldInv => OnePushEach
  <2> SUFFICES ASSUME ToldInv, NEW n \in Notices, NEW i \in Queued(n, "push"),
                      NEW j \in Queued(n, "push"), job[i].to = job[j].to
               PROVE  i = j
    BY DEF OnePushEach
  <2> QED BY QueuedJobs DEF ToldInv, NoticeInv, JobsOf
<1> QED BY <1>1, ToldAlways, PTL

\* What was pushed to a user is in the list of that user.
THEOREM PushIsListedAlways == Spec => []PushIsListed
<1>1. TypeOK /\ ToldInv => PushIsListed
  <2> SUFFICES ASSUME ToldInv, NEW n \in Notices, Listed(n), NEW j \in Queued(n, "push")
               PROVE  rows[n][sessions[j[3]].user] # "none"
    BY DEF PushIsListed
  <2>1. PICK k \in Sessions : j = PushJob(n, k) /\ In(j) BY QueuedJobs
  <2>2. j[3] = k BY <2>1 DEF PushJob
  <2> QED BY <2>1, <2>2 DEF ToldInv, NoticeInv, JobsOf
<1> QED BY <1>1, ToldAlways, PTL

=============================================================================
