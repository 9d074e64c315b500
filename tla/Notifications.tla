----------------------------- MODULE Notifications -----------------------------
(***************************************************************************)
(* Notices to the users of one group and to everybody                      *)
(* (src/notifications), from the rows and sessions they are made of to the *)
(* jobs of JobQueue, while sessions, device tokens and members change.     *)
(*                                                                         *)
(* An action is one query with what its handler does up to the next one.   *)
(***************************************************************************)
EXTENDS Naturals, Sequences

CONSTANTS
  Users, Devices, \* a device is its push token
  Notices,        \* calls that notify somebody
  Kinds,          \* kinds of notices that are sent
  Changes,        \* what else happens
  Slots,          \* requests in progress that set a device token
  None,
  Attempts, StallLimit, MaxRefusals, MaxCrashes, \* as in JobQueue
  MaxSessions,    \* bound: sessions
  MaxFails        \* bound: queries that throw

ASSUME KindsAssumption == Kinds \subseteq {"group", "user", "email", "fcm", "both"}
ASSUME NamesAssumption == Users \cap Devices = {} /\ None \notin Users \cup Devices
ASSUME LimitAssumption == Attempts \in Nat \ {0} /\ StallLimit \in Nat
ASSUME BoundAssumption ==
  /\ MaxRefusals \in Nat /\ MaxCrashes \in Nat
  /\ MaxSessions \in Nat /\ MaxFails \in Nat

VARIABLES
  members,   \* users of the group
  confirmed, \* users whose address is confirmed
  sessions,  \* UserSession rows, oldest first
  rows,      \* Notices -> Users -> "none", or whether the Notification row is read
  notice,    \* Notices -> the call
  call,      \* Slots -> the updateDeviceToken request suspended there
  fails,     \* queries that threw
  seen,      \* history: for whom and on which devices each notice could have been
  job, used  \* the queues

ours == <<members, confirmed, sessions, rows, notice, call, fails>>
queues == <<job, used>>
vars == <<ours, seen, queues>>

\* A push is for a session, a mail for a user.
Sessions == 1 .. MaxSessions
Pushes == {<<"push", n, k>> : n \in Notices, k \in Sessions}
Mails == {<<"mail", n, u>> : n \in Notices, u \in Users}

Q == INSTANCE JobQueue WITH
       Jobs <- Pushes \cup Mails,
       Queue <- [j \in Pushes \cup Mails |-> j[1]],
       Addresses <- Users \cup Devices

-----------------------------------------------------------------------------
(* State *)

Maybe(S) == S \cup {None}
SessionType == [user : Users, token : Maybe(Devices), active : BOOLEAN]

Kind == {"none", "group", "user", "email", "fcm", "both"}
Pcs == {"new", "members", "rows", "tokens", "push", "users", "mails", "done", "lost"}

\* The next query, the sender, the users and the sessions that were read.
NoticeType ==
  [pc : Pcs, kind : Kind, sender : Maybe(Users), to : SUBSET Users,
   found : SUBSET [at : Sessions, token : Devices]]
NoNotice == [pc |-> "new", kind |-> "none", sender |-> None, to |-> {}, found |-> {}]

\* The next query, the session the token was issued with, the one that was
\* read, and the device.
CallType ==
  [pc : {"idle", "find", "write"}, of : 0 .. MaxSessions, at : 0 .. MaxSessions,
   token : Maybe(Devices)]
NoCall == [pc |-> "idle", of |-> 0, at |-> 0, token |-> None]

Rows == 1 .. Len(sessions)
At(n, pc) == notice[n].pc = pc
Ended(n) == notice[n].pc \in {"done", "lost"}
Listed(n) == notice[n].kind \in {"group", "user"}
Running(n) == ~At(n, "new") /\ ~Ended(n)

\* The users a notice is for, and who holds which device, at this moment.
Audience(n) ==
  CASE notice[n].kind = "group" -> members \ {notice[n].sender}
    [] notice[n].kind = "user" -> notice[n].to
    [] OTHER -> confirmed
Lit ==
  {<<sessions[k].user, sessions[k].token>> :
     k \in {i \in Rows : sessions[i].active /\ sessions[i].token # None}}

\* Who and what was there at one moment of the call, or at all of them.
SeenType == [ever : SUBSET Users, lit : SUBSET (Users \X Devices),
             users : SUBSET Users, steady : SUBSET (Users \X Devices)]
Unseen == [ever |-> {}, lit |-> {}, users |-> Users, steady |-> Users \X Devices]

Init ==
  /\ confirmed \in SUBSET Users /\ members \in SUBSET confirmed
  /\ sessions = <<>>
  /\ rows = [n \in Notices |-> [u \in Users |-> "none"]]
  /\ notice = [n \in Notices |-> NoNotice]
  /\ call = [s \in Slots |-> NoCall]
  /\ fails = 0
  /\ seen = [n \in Notices |-> Unseen]
  /\ Q!Init

\* What a call has seen before a step.
Observe ==
  seen' = [n \in Notices |->
             IF notice'[n].pc \in {"new", "done", "lost"} THEN seen[n]
             ELSE [ever |-> seen[n].ever \cup Audience(n)', lit |-> seen[n].lit \cup Lit',
                   users |-> seen[n].users \cap Audience(n)',
                   steady |-> seen[n].steady \cap Lit']]

-----------------------------------------------------------------------------
(* Notices *)

Put(n, c) == notice' = [notice EXCEPT ![n] = c]
Then(n, pc) == Put(n, [notice[n] EXCEPT !.pc = pc])

Call(n, c) ==
  /\ At(n, "new") /\ c.kind \in Kinds
  /\ Put(n, c)
  /\ UNCHANGED <<members, confirmed, sessions, rows, call, fails, queues>>

NotifyGroup(n, u) == Call(n, [NoNotice EXCEPT !.pc = "members", !.kind = "group", !.sender = u])
NotifyUser(n, u) == Call(n, [NoNotice EXCEPT !.pc = "rows", !.kind = "user", !.to = {u}])
BroadcastToAllUsers(n, channel) ==
  Call(n, [NoNotice EXCEPT !.pc = IF channel = "fcm" THEN "tokens" ELSE "users", !.kind = channel])

ReadMembers(n) ==
  LET to == members \ {notice[n].sender}
  IN  /\ At(n, "members")
      /\ Put(n, [notice[n] EXCEPT !.pc = IF to = {} THEN "done" ELSE "rows", !.to = to])
      /\ UNCHANGED <<members, confirmed, sessions, rows, call, fails, queues>>

\* Mutant: the pushes are queued without the rows being created.
SkipRows(n) ==
  /\ At(n, "rows") /\ Then(n, "tokens")
  /\ UNCHANGED <<members, confirmed, sessions, rows, call, fails, queues>>

CreateRows(n) ==
  /\ At(n, "rows")
  /\ rows' = [rows EXCEPT ![n] = [u \in Users |-> IF u \in notice[n].to THEN "unread" ELSE @[u]]]
  /\ Then(n, "tokens")
  /\ UNCHANGED <<members, confirmed, sessions, call, fails, queues>>

\* The sessions with a token, of the users told or of all.
Tokened(n) ==
  {k \in Rows : /\ sessions[k].token # None
                /\ Listed(n) => sessions[k].user \in notice[n].to}
Open(n) == {k \in Tokened(n) : sessions[k].active}

Find(n, S) ==
  /\ At(n, "tokens")
  /\ Put(n, [notice[n] EXCEPT !.pc = "push",
                              !.found = {[at |-> k, token |-> sessions[k].token] : k \in S}])
  /\ UNCHANGED <<members, confirmed, sessions, rows, call, fails, queues>>

\* Mutant: the tokens of sessions that are over are read too.
ReadAllTokens(n) == Find(n, Tokened(n))

\* Mutant: the newest session of each user is enough.
ReadNewestTokens(n) ==
  Find(n, {k \in Open(n) : \A i \in Open(n) : sessions[i].user = sessions[k].user => i <= k})

ReadTokens(n) == Find(n, Open(n))

Push(n, found) ==
  /\ At(n, "push")
  /\ Q!QueuePushToMany([j \in {<<"push", n, f.at>> : f \in found} |->
                          (CHOOSE f \in found : f.at = j[3]).token])
  /\ Then(n, "done")
  /\ UNCHANGED <<members, confirmed, sessions, rows, call, fails>>

\* Mutant: every session is pushed.
QueueEveryPush(n) == Push(n, notice[n].found)

\* new Set(...): one push to each token, here the one of its first session.
QueuePushes(n) ==
  Push(n, {f \in notice[n].found : \A g \in notice[n].found : g.token = f.token => f.at <= g.at})

\* Mutant: the addresses are not confirmed.
ReadAllUsers(n) ==
  /\ At(n, "users")
  /\ Put(n, [notice[n] EXCEPT !.pc = "mails", !.to = Users])
  /\ UNCHANGED <<members, confirmed, sessions, rows, call, fails, queues>>

ReadUsers(n) ==
  /\ At(n, "users")
  /\ Put(n, [notice[n] EXCEPT !.pc = "mails", !.to = confirmed])
  /\ UNCHANGED <<members, confirmed, sessions, rows, call, fails, queues>>

\* Mutant: that some of the adds threw is not noticed.
QueueEmailsAnyway(n) ==
  /\ At(n, "mails")
  /\ \E S \in SUBSET notice[n].to :
       /\ Q!QueueEmails([j \in {<<"mail", n, u>> : u \in S} |-> j[3]])
       /\ S # notice[n].to => fails < MaxFails
       /\ fails' = IF S = notice[n].to THEN fails ELSE fails + 1
  /\ Then(n, IF notice[n].kind = "both" THEN "tokens" ELSE "done")
  /\ UNCHANGED <<members, confirmed, sessions, rows, call>>

\* Promise.all: when some of the adds throw, the others are done all the same.
QueueBroadcastEmails(n) ==
  LET to == notice[n].to
  IN  /\ At(n, "mails")
      /\ \E S \in SUBSET to :
           /\ Q!QueueEmails([j \in {<<"mail", n, u>> : u \in S} |-> j[3]])
           /\ IF S = to
              THEN Then(n, IF notice[n].kind = "both" THEN "tokens" ELSE "done") /\ UNCHANGED fails
              ELSE Then(n, "lost") /\ fails < MaxFails /\ fails' = fails + 1
      /\ UNCHANGED <<members, confirmed, sessions, rows, call>>

\* A query throws, and nothing follows.
Fail(n) ==
  /\ Running(n) /\ fails < MaxFails
  /\ fails' = fails + 1
  /\ Then(n, "lost")
  /\ UNCHANGED <<members, confirmed, sessions, rows, call, queues>>

-----------------------------------------------------------------------------
(* Device tokens *)

\* Any session's token will do, its row is not looked at (JwtStrategy).
UpdateDeviceToken(s, k, d) ==
  /\ call[s].pc = "idle"
  /\ call' = [call EXCEPT ![s] = [pc |-> "find", of |-> k, at |-> 0, token |-> d]]
  /\ UNCHANGED <<members, confirmed, sessions, rows, notice, fails, queues>>

\* Mutant: that there is no session is not noticed.
FindAnySession(s) ==
  LET user == sessions[call[s].of].user
      open == {k \in Rows : sessions[k].user = user /\ sessions[k].active}
  IN  /\ call[s].pc = "find"
      /\ \E k \in open \cup {0} :
           /\ \A i \in open : i <= k
           /\ call' = [call EXCEPT ![s].pc = "write", ![s].at = k]
      /\ UNCHANGED <<members, confirmed, sessions, rows, notice, fails, queues>>

\* The newest active session of the user, if there is one.
FindSession(s) ==
  LET user == sessions[call[s].of].user
      open == {k \in Rows : sessions[k].user = user /\ sessions[k].active}
  IN  /\ call[s].pc = "find"
      /\ \/ /\ open = {}
            /\ call' = [call EXCEPT ![s] = NoCall]
         \/ \E k \in open :
              /\ \A i \in open : i <= k
              /\ call' = [call EXCEPT ![s].pc = "write", ![s].at = k]
      /\ UNCHANGED <<members, confirmed, sessions, rows, notice, fails, queues>>

WriteToken(s) ==
  /\ call[s].pc = "write"
  /\ sessions' = [sessions EXCEPT ![call[s].at].token = call[s].token]
  /\ call' = [call EXCEPT ![s] = NoCall]
  /\ UNCHANGED <<members, confirmed, rows, notice, fails, queues>>

FailUpdate(s) ==
  /\ call[s].pc # "idle" /\ fails < MaxFails
  /\ fails' = fails + 1
  /\ call' = [call EXCEPT ![s] = NoCall]
  /\ UNCHANGED <<members, confirmed, sessions, rows, notice, queues>>

-----------------------------------------------------------------------------
(* Reading *)

MarkAsRead(n, u) ==
  /\ rows[n][u] # "none"
  /\ rows' = [rows EXCEPT ![n][u] = "read"]
  /\ UNCHANGED <<members, confirmed, sessions, notice, call, fails, queues>>

MarkAllAsRead(u) ==
  /\ rows' = [n \in Notices |-> [rows[n] EXCEPT ![u] = IF @ = "unread" THEN "read" ELSE @]]
  /\ UNCHANGED <<members, confirmed, sessions, notice, call, fails, queues>>

-----------------------------------------------------------------------------
(* What other components do: groups, accounts and sessions *)

AddUserToGroup(u) ==
  /\ u \in confirmed \ members /\ members' = members \cup {u}
  /\ UNCHANGED <<confirmed, sessions, rows, notice, call, fails, queues>>

LeaveGroup(u) ==
  /\ u \in members /\ members' = members \ {u}
  /\ UNCHANGED <<confirmed, sessions, rows, notice, call, fails, queues>>

ConfirmUser(u) ==
  /\ u \notin confirmed /\ confirmed' = confirmed \cup {u}
  /\ UNCHANGED <<members, sessions, rows, notice, call, fails, queues>>

CreateSession(u, token) ==
  /\ u \in confirmed /\ Len(sessions) < MaxSessions
  /\ sessions' = Append(sessions, [user |-> u, token |-> token, active |-> TRUE])
  /\ UNCHANGED <<members, confirmed, rows, notice, call, fails, queues>>

RevokeAllUserSessions(u) ==
  /\ sessions' = [k \in Rows |-> [sessions[k] EXCEPT !.active = @ /\ sessions[k].user # u]]
  /\ UNCHANGED <<members, confirmed, rows, notice, call, fails, queues>>

-----------------------------------------------------------------------------
(* The process and its workers *)

Crash ==
  /\ Q!Crash
  /\ notice' = [n \in Notices |-> IF Running(n) THEN [notice[n] EXCEPT !.pc = "lost"] ELSE notice[n]]
  /\ call' = [s \in Slots |-> NoCall]
  /\ UNCHANGED <<members, confirmed, sessions, rows, fails>>

Work(j) == Q!Worker(j) /\ UNCHANGED ours

-----------------------------------------------------------------------------
(* Specification *)

Requests(n) ==
  \/ \E u \in Users : NotifyGroup(n, u)
  \/ \E u \in Users : NotifyUser(n, u)
  \/ \E channel \in {"email", "fcm", "both"} : BroadcastToAllUsers(n, channel)

Queries(n) ==
  \/ ReadMembers(n)
  \/ CreateRows(n)
  \/ ReadTokens(n)
  \/ QueuePushes(n)
  \/ ReadUsers(n)
  \/ QueueBroadcastEmails(n)
  \/ Fail(n)

Updates(s) ==
  \/ "token" \in Changes /\ \E k \in Rows, d \in Devices : UpdateDeviceToken(s, k, d)
  \/ FindSession(s)
  \/ WriteToken(s)
  \/ FailUpdate(s)

Elsewhere(u) ==
  \/ "group" \in Changes /\ AddUserToGroup(u)
  \/ "group" \in Changes /\ LeaveGroup(u)
  \/ "account" \in Changes /\ ConfirmUser(u)
  \/ "session" \in Changes /\ \E token \in Maybe(Devices) : CreateSession(u, token)
  \/ "session" \in Changes /\ RevokeAllUserSessions(u)
  \/ "read" \in Changes /\ MarkAllAsRead(u)
  \/ "read" \in Changes /\ \E n \in Notices : MarkAsRead(n, u)

Step ==
  \/ \E n \in Notices : Requests(n)
  \/ \E n \in Notices : Queries(n)
  \/ \E s \in Slots : Updates(s)
  \/ \E u \in Users : Elsewhere(u)
  \/ \E j \in Pushes \cup Mails : Work(j)
  \/ Crash

Next == Step /\ Observe

Spec == Init /\ [][Next]_vars

-----------------------------------------------------------------------------
(* Properties *)

Queued(n, queue) == {j \in Pushes \cup Mails : job[j].state # "none" /\ j[1] = queue /\ j[2] = n}

\* Every variable has its type, and a suspended call is at a query of its kind.
TypeOK ==
  /\ members \subseteq Users /\ confirmed \subseteq Users
  /\ sessions \in Seq(SessionType) /\ Len(sessions) <= MaxSessions
  /\ rows \in [Notices -> [Users -> {"none", "unread", "read"}]]
  /\ notice \in [Notices -> NoticeType]
  /\ call \in [Slots -> CallType]
  /\ fails \in 0 .. MaxFails
  /\ seen \in [Notices -> SeenType]
  /\ Q!TypeOK
  /\ \A n \in Notices :
       /\ At(n, "new") <=> notice[n].kind = "none"
       /\ At(n, "members") => notice[n].kind = "group"
       /\ At(n, "rows") => Listed(n)
       /\ notice[n].pc \in {"users", "mails"} => notice[n].kind \in {"email", "both"}
       /\ \A f \in notice[n].found : f.at \in Rows
  /\ \A s \in Slots :
       /\ call[s].pc # "idle" => call[s].of \in Rows /\ call[s].token \in Devices
       /\ call[s].pc = "write" => call[s].at \in Rows

\* Nobody is pushed or mailed but for whom the notice was at some moment of the
\* call, and no device but one that such a user was logged in on at some moment
\* of it (dispatch, broadcastToAllUsers).
OnlyIntended ==
  \A n \in Notices :
    /\ \A j \in Queued(n, "push") :
         \E u \in seen[n].ever : <<u, job[j].to>> \in seen[n].lit
    /\ \A j \in Queued(n, "mail") : job[j].to \in seen[n].ever

\* When the call has returned, everybody for whom it was all along has the row
\* or the mail, and a push on every device used all along.
EveryoneReached ==
  \A n \in Notices : At(n, "done") =>
    /\ notice[n].kind # "email" =>
         \A p \in seen[n].steady :
           p[1] \in seen[n].users => \E j \in Queued(n, "push") : job[j].to = p[2]
    /\ Listed(n) => \A u \in seen[n].users : rows[n][u] # "none"
    /\ notice[n].kind \in {"email", "both"} =>
         \A u \in seen[n].users : \E j \in Queued(n, "mail") : job[j].to = u

\* A device gets one push of a notice although several sessions, of one user or
\* of two, have its token (new Set in dispatch and broadcastToAllUsers).
OnePushEach ==
  \A n \in Notices : \A i, j \in Queued(n, "push") : job[i].to = job[j].to => i = j

\* What was pushed can be read in the list, also after a restart or a failure.
PushIsListed ==
  \A n \in Notices : Listed(n) =>
    \A j \in Queued(n, "push") : rows[n][sessions[j[3]].user] # "none"

\* The queues keep their promise when it is these calls that fill them.
Delivers == Q!Delivers

\* "Update the FCM device token for the current session"
\* (notifications.controller.ts): the session it was called from.
TokenOfCaller ==
  [][\A s \in Slots : WriteToken(s) => call[s].at = call[s].of]_vars

=============================================================================
