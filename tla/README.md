# Salamty: a TLA+ verification project

Salamty is a NestJS backend: people share their location with the members of a
group, raise an SOS, and announce trips whose late arrival raises the SOS for
them. One Node process serves HTTP and Socket.IO, PostgreSQL (Prisma) holds the
rows, Redis (BullMQ) the queues of mails and pushes. This directory holds TLA+
models of its stateful parts, TLC runs over small instances, and proofs checked
by TLAPS. All paths below are relative to `src/`.

## 1. The system

| Component | State | Operations | Depends on |
|---|---|---|---|
| LiveSessionService (`src/realtime/services/live-session.service.ts`) | `groups: Map<groupId, LiveGroup>`, one `LiveMember` record per user: socket, location, SOS, path, destination, trip id, offline and reminder flags. Shadowed by `User.sos`, `GroupMember.path/lastLocation`, `Trip`, `LocationLog`. | connect, disconnect, updateLocation, startSos, endSos, startTrip, extendTrip, endTrip, the interval `sweep` | Prisma, NotificationsService, Socket.IO rooms |
| TrackingGateway (`src/realtime/gateways/tracking.gateway.ts`) | `client.data` of every socket | turns messages into LiveSessionService calls and errors into answers | LiveSessionService |
| LocationController (`src/realtime/controllers/location.controller.ts`) | none | the HTTP fallback for a location | LiveSessionService |
| GroupEventsGateway (`src/realtime/gateways/group-events.gateway.ts`) | `socketByUser: Map`, Socket.IO rooms of the `groups` namespace | connect, disconnect, join and leave a room, notify a room | Prisma |
| GroupService (`src/group/group.service.ts`) | `Group`, `GroupMember` rows | create, add a user by secret key, leave (deleting an empty group), list | GroupEventsGateway |
| AuthService (`src/auth/services/auth.service.ts`) | `User` rows | register, verify, log in, forgot, reset, resend, log out, regenerate the secret key; admin versions | OtpService, SessionService, MailService |
| OtpService, SessionService | `UserAuthOtp`, `UserSession` rows | create, invalidate, validate and consume; create, revoke | Prisma |
| NotificationsService (`src/notifications/notifications.service.ts`) | `Notification` rows, device tokens in `UserSession` | notify a group or a user, list, mark as read, device token, broadcast | FcmService, MailService |
| FcmService, MailService and their processors | two BullMQ queues, three attempts per job | enqueue, process | Redis, Firebase, SMTP |
| payload.util, handshake.util (`src/realtime/utils`) | none | read tokens, group ids, locations and trips from what clients send | none |
| SettingsService (`src/settings/settings.service.ts`) | the `AppConfig` row | read, update | Prisma |

How they interact. A tracking socket calls LiveSessionService through
TrackingGateway; the sweep calls it from a timer; both call
NotificationsService and await it. Groups are changed over HTTP by GroupService,
which moves the users' `groups`-namespace sockets between rooms but never
touches the live sessions. AuthService issues the tokens that both gateways verify and
the secret keys that GroupService looks users up by, and the sessions whose
device tokens NotificationsService reads.

What is hard. The process runs one handler at a time but switches at every
`await`, so two handlers of one user, or a handler and a sweep, interleave
between their database calls, and the database may order the calls of two
handlers either way. The live state is only in memory and each operation writes
a part of it through, so a failure or a restart between two writes leaves the
rows to disagree. Sweeps may overlap, because nothing makes the timer wait for
the previous pass. Check-then-act pairs over rows (OTP, membership, token) are
not in a transaction. `PROJECT.json` lists each hazard at its line.

What makes each component correct: memory, rows and the other members' screens
agree about trip and SOS once the handlers are done; an alarm is announced, and
once; an overdue trip is alarmed; a restart loses nothing that was written; a
user's rooms are the groups it is a member of, and a group lives as long as
its members; a code or a secret key is used once and the one issued last works;
a notification that has a row is pushed to every device.

## 2. Modules

### LiveMember (built)

One user's record in one group's session, its rows, and one other member (the
*peer*) who sees what the room is told.

| TLA+ | Code |
|---|---|
| `cur`, `heap` | `this.groups.get(groupId)` and the `LiveGroup` objects; a handler keeps the object it captured after the map has dropped it |
| `heap[o]` | the `LiveMember` (`in`: present in `members`; `socket`: `socketId !== null`; `eta`: `destination?.estimatedArrival`) |
| `row`, `trips` | `User.sos`, `GroupMember.path/lastLocation`; the `Trip` rows |
| `view` | what the peer's screen shows of the user's SOS and arrival, from SESSION_INIT and the room's events |
| `sockets` | the user's tracking sockets whose `client.data` is set |
| `call[s]` | a suspended handler: the `await` it is at, whether the awaited operation has taken effect (`ran`), and its captured locals |
| `audit`, `clash` | history: what was raised and announced; concerns on which handlers overlapped or failed |

A handler is a chain of atomic segments: `StartSos` runs to the first `await`,
`CommitFlag` is the database performing the update, `SosFlagged` the segment
after it, and so on. Between any two of them every other handler, a sweep, a
failure of the awaited call, or a restart may step in. `Fail` is the awaited
call throwing before or after its effect; a client's handler then ends with an error
answer, a sweep logs it and leaves the member. `Crash` keeps only the rows.

Abstractions. Locations are members of a set, without coordinates and times; whether a location is
old is nondeterministic, since it carries the client's clock, but a member
silent long enough to go offline has been silent long enough to be reported.
`LocationLog` rows and the wording of notices are write-only and left out;
`notifyGroup` is one awaited operation. The other members of the group are the
peer and a nondeterministic choice when a pass asks whether everybody is
offline (a connected peer is not). A pass that is suspended while the group is
rebuilt may meet the new object later in the same iteration of the map; here
the next pass does. An operation of a process that has died does not reach the
database after the restart.

### GroupMembership (built)

GroupService and GroupEventsGateway together, because what matters is whether
rows and rooms agree.

| TLA+ | Code |
|---|---|
| `rows`, `status` | the `GroupMember` rows; whether a `Group` row exists, or has existed |
| `sock[k]` | a socket of the `groups` namespace: `client.data.userId`, whether it is open, its rooms |
| `reg` | `socketByUser` |
| `call[s]` | a suspended handler, as in LiveMember |
| `latest`, `due`, `hist` | history: a user's newest socket; groups that changed since a socket was last told; what raced or failed |

Requests name any group that exists or has existed, so deleted groups and
non-members are asked for too. A secret key is abstracted to the user it finds,
or nobody. `await socket.join(...)` completes at once with the in-memory
adapter, so `UserAdded` joins and notifies in one segment. A rejected handshake
changes nothing and is left out.

### Account (built)

One account of AuthService, OtpService and SessionService, for users and
administrators.

| TLA+ | Code |
|---|---|
| `user` | the `User` row: role, `confirmed`, the password and the secret key it holds; a key is the number it was generated with, 0 the one that registration stores and tells nobody |
| `otps` | the `UserAuthOtp` rows in the order of `createdAt`; a code is the number of its row, 0 a wrong one |
| `sessions` | the active `UserSession` rows, as the set of passwords they were opened under |
| `call[s]` | a suspended request: the query that is next, and what it captured |
| `mailed`, `told` | the code queued last for the mailbox, the key returned last |
| `hist` | history: concerns on which requests overlapped or failed (`raced`), codes that two requests were checking at once (`shared`) |

Requests share nothing but rows, so an action is one query together with what
its handler computes up to the next one; a query that throws before its effect
is `Fail` there, one that throws after it is `Fail` at the next. A comparison
or a hash by bcrypt is awaited between two queries and touches no row, so it is
part of the action it follows; so is queueing the welcome mail. The handlers of
users and administrators differ in the role they ask for, in `confirmed`, and
in that an administrator's forgotten password does not invalidate the earlier
codes. Codes are taken to be distinct; the constant code of a development build
is not modelled. Nothing in the program writes `isActive`, and a token stays good
after its session is revoked (`jwt.strategy.ts` reads the user only), so logging
out changes rows and nothing else here. `regenerate` and `logout` need a token,
which only a confirmed account has been given.

### JobQueue and Delivery (built)

The two BullMQ queues with FcmService, MailService and their processors.

| TLA+ | Code |
|---|---|
| `job[j].state` | where a job is: waiting (also between attempts and during the delay of a broadcast), held by the worker before (`active`) or after (`sent`) Firebase or SMTP took it, held by a worker that died (`stalled`), over |
| `job[j].to`, `got` | the receiver; history: how often it got the job |
| `refused`, `stalled` | attempts that threw, workers it lost |
| `used` | how much of the bounds is spent |

`QueuePushToMany` is one `addBulk` and adds all jobs or none; `QueueEmails` is
several `add`s under one `Promise.all`, so any part of them. A worker takes one
job at a time, the default concurrency. `Refuse` is the send throwing, perhaps
after the message got through; the third refusal ends the job
(`JOB_OPTIONS.attempts`). `Crash` ends the workers but not the jobs, which are in
Redis; `Recover` is BullMQ's check for stalled jobs, which gives a job up when
it stalls a second time (`StallLimit`, its default `maxStalledCount`).

`Delivery` is the promise alone, without queues, workers or restarts: what is
handed over is pending until it has arrived and is kept, or has had enough mishaps
and is lost, and it arrives a second time only after a mishap. `JobQueue`
implements it (`Delivers == D!Spec`) with a refusal or a stall as a mishap.

### Notifications (built)

NotificationsService over the members of one group, the sessions and the
queues: it composes with `JobQueue`, whose jobs are here the pushes of a
session and the mails of a user (`Q == INSTANCE JobQueue`).

| TLA+ | Code |
|---|---|
| `members`, `confirmed` | the `GroupMember` rows of the group; users with `confirmed` (role USER, active) |
| `sessions` | `UserSession` rows in the order of `createdAt`: user, `notificationToken`, `isActive` |
| `rows[n][u]` | the `Notification` row of notice n for u, and its `isRead` |
| `notice[n]` | a call of notifyGroup, notifyUser or broadcastToAllUsers: its next query, the user ids and tokens it has read |
| `call[s]` | a suspended updateDeviceToken: the session its token was issued with (`of`), the one it found (`at`) |
| `seen` | history: for whom the notice was, and which device was whose, at some moment of the call (`ever`, `lit`) or at all of them (`users`, `steady`) |

An action is one query with what the handler computes up to the next one, as in
`Account`; around it members come and go, sessions open and end, tokens move.
Those actions are guarded as the components that do them guard them, and
`Changes` says which of them a run has. Every step is followed by `Observe`, which
keeps the history. The token of a request stays good after its session is
revoked, so `UpdateDeviceToken` takes any session ever opened.

### LiveGroups (built)

The map of live sessions, over several users, groups and sockets: what LiveMember,
which looks at one user in one group, takes as given or leaves open.

| TLA+ | Code |
|---|---|
| `groups`, `heap` | `this.groups`, and the `LiveGroup` objects with a record per user (`in`: it is in `members`; `sock`: the `socketId`) |
| `rows`, `flag` | the `GroupMember` rows with `lastLocation`; `User.sos`, one per user |
| `sock[k]` | a tracking socket: whose and for which group, open or not, `client.data` set or not |
| `call[s]` | a handler of a socket, or a pass of the sweep, suspended at an `await` |
| `hist.lost` | history: sockets that the code no longer tracks |
| `hist.apart` | history: sessions whose SOS may differ from the flag |
| `hist.unsaved`, `left` | history: places whose saving failed or that went with the row; who left while a session held them |

Connecting reads the membership, then joins the session in the map at once or
builds one from the rows with two more awaits, during which others build theirs and
`groups.set` replaces what it finds. `handleDisconnect` looks the member up
by the ids in `client.data`, not by the socket; a socket that closes before its
`client.data` is set is never looked up. A pass walks the map while it changes:
it meets sessions that are added, holds the object it is in after the map has
dropped it, and deletes by id. `GroupService` changes the rows under a session.

Abstractions. A record has those fields that decide who is tracked: a location is there or not, trips and
paths are in LiveMember. Ages carry the client's clock, so whether a
location is old is open, and so is whether a trip is overdue (an overdue trip is counted in the bound). The order
in which a pass takes groups and members is any. Awaits that nothing here
depends on (logging a location, the path) are not steps, and a write that ends a
handler is one step with that end.

### LiveInputs (built)

What TrackingGateway and LocationController make of what clients send, and what
its values do in LiveSessionService.

| TLA+ | Code |
|---|---|
| `rec`, `row`, `trips` | the user's record; its `GroupMember` row with `User.sos`; its `Trip` rows |
| `room` | the location and the SOS the group was told last |
| `answer` | the `Ack` of a message, or whether a connection or a request was accepted |
| `Numbers` | numbers of payloads, in half milliseconds, so that `new Date` has a fraction to drop |
| `Earliest`, `Latest` | the first and last time that `Date` and PostgreSQL take |
| `RawPlaces`, `RawNumbers` | a value that is a number, text that converts to one, or neither; a pair of coordinates in or out of range, or so small that it prints with an exponent |

The same location is read by three rules: messages take numbers only, a
handshake with an invalid location has none, and HTTP converts text first
(`enableImplicitConversion`) and then refuses what `IsLatitude` cannot read. Then
`IsDate` decides: a positive number beyond the range of `Date` passes every
check, and the first query that is given it throws, in the middle of the handler.
Here a handler runs alone, in one step, and nothing else throws; interleavings and
other failures are in LiveMember and LiveGroups. The fields that only the sweep's
notices use are left out.

## 3. Runs

Every run bounds its requests, failures and restarts. A run of `MCLiveMember` bounds the client operations (`MaxCalls`), failures
(`MaxFails`), restarts (`MaxCrashes`) and the clock (`MaxTime`), and lists the
operations clients issue (`Kinds`). Deadlock is not checked: once the bounds are spent and
no session is live, nothing is left to do, as in the code when nobody connects.
Slots of a kind, trip ids, locations and session objects are symmetric in the safety runs.

| Run | Question | Bounds |
|---|---|---|
| `member_trips` | do rows, record and screen agree about the trip once its handlers are done (`TripAgreement`), are trip id and arrival always together (`CoupledTrip`), does every id in memory or in a handler have a row (`TripRowsExist`)? | two client handlers and a sweep at once, four operations of every kind but locations and disconnections, two trips with arrivals 0 and 1, the clock at 0 (reminders, no overdue arrival: `member_overdue` has those), a failing call, a restart |
| `member_sos` | does the SOS flag agree everywhere (`SosAgreement`); is an alarm or a reminder ever repeated (`NoRepeats`); is every rise announced, or still going to be, unless an operation failed (`NoRiseForgotten`); is the saved path a prefix of the one in memory (`PathAgreement`); and do they survive dropping and rebuilding the session? | two client handlers, two overlapping sweeps, three operations: SOS, locations, a trip, reconnections; a failing call, a restart |
| `member_overdue` | is an overdue trip of a live session alarmed (`OverdueRaisesSos`)? | all trip operations, arrivals 0 and 1, clock to 1, one failure |
| `groups` | is a user's newest socket in the rooms of its groups (`MembersHear`) and no others (`OnlyMembersHear`), is every change told to the members in the room (`ChangesAnnounced`), and does a group go away with its last member (`NoOrphans`), and never before (`InhabitedKept`)? | two users, one group, three connections, two handlers at once, five requests, a failing query, a restart |
| `accounts` | does the key told last work (`KeyAgreement`), the code mailed last (`MailedCodeWorks`), and no other (`OnlyMailedWorks`); is a code accepted once (`AcceptedOnce`), and does a reset end the sessions of the old password (`SessionsCurrent`)? | a user or an administrator, two passwords, all eight requests, two at once of four; a failing query, a restart |
| `account_verified` | is an account verified once, as `src/auth/controllers/user-auth.controller.ts:59` says? **Violated**: two requests with one code both read it before either marks it | register and two verifications |
| `queue_jobs` | do the queues implement `Delivery` (`Delivers`), and does every waiting job end (`EveryJobEnds`)? | two pushes, a mail, three refusals, two restarts |
| `notify` | does a notice or a broadcast reach those it was for all along (`EveryoneReached`), on every device once (`OnePushEach`), nobody it was never for (`OnlyIntended`), and a member never without its row (`PushIsListed`)? | two users, two devices; in one scenario a notice to the group or a push to everybody while members, two sessions and tokens change, with a failing query; in the other a notice to one user or a broadcast by mail or both, one session, addresses are confirmed, rows are read, a failing query, a refused send, a restart |
| `notify_token` | is a device token written to the session of the request, as `src/notifications/controllers/notifications.controller.ts:66` says? **Violated**: it goes to the user's newest active session | two sessions, one request |
| `live_groups` | is an open socket tracked by its group's live session (`ConnectedTracked`), does a record name only sockets of its user that are open (`SocketsKnown`), does `User.sos` agree with the user's sessions (`SosOfSessions`), has an offline member a saved place (`OfflineSaved`), is a session free of strangers (`NoStrangers`)? | two users of one group or one of two groups, two sockets, two handlers and two passes at once, three session objects; three events of the clients (connections, SOS, locations, leaving, joining), overdue trips, overlapping passes, failures and restarts together |
| `live_inputs` | do only valid locations get in (`TypeOK`), does the trip row keep the arrival (`ArrivalKept`), is an SOS announced (`SosAnnounced`), is the group shown where the user is (`RoomSeesLocation`), and does a refusal change nothing (`RefusedChangesNothing`), as far as every time is a Date? | five messages, connections or restarts; numbers not positive, with and without a fraction, the last Date, and beyond it |
| `member_http` | is a location accepted only from a user connected to the tracking socket, as `src/realtime/controllers/location.controller.ts:32` says? **Violated**: the record outlives the socket | one client |

The agreement properties are stated for `Settled` states: the session is live, no
handler is about to change the concern, and since the last restart no two
handlers on it overlapped and none failed (`clash`). A session built while a late pass may
still save the user's record in an earlier one counts as an overlap on the path (`Lingering`). Where handlers do overlap
the code really loses updates (endTrip over startTrip wipes the new trip); the
properties say that nothing else does. Four operations and two
simultaneous client handlers are the smallest numbers at which a trip is
started, replaced or extended and ended around a restart while another handler
is suspended; two sweeps, that passes overlap.

The same holds in `GroupMembership`, where `hist` names the races that do
break the agreement in the code: a user who leaves and is added at once
(`raced`), who connects while leaving (`ghosts`), somebody added while the last
member's departure is being counted (`contested`: the group is deleted with its
new member), and a group a handler failed on (`failed`: it may stay, empty, for
good). A connection starts a new socket without rooms, so it forgives what raced
before it unless the handler is still running. Five requests create a group, add
to it, connect twice and leave; with one group every interference is about the
same rows, and handlers of different groups share nothing but `socketByUser`.

In `Account`, `hist` names what breaks the agreement in the code: two requests
that issue codes, or generate keys, overlap or one fails half-way (`raced`), a
session that is being opened while a reset revokes them, two requests checking one code
(`shared`). A request that takes up a concern alone clears it: asking for another
code repairs what raced before. Four requests register, verify, forget and
reset; an administrator, who is there from the start, can log in besides, and
the same code can be sent twice.

In `Notifications` no race has to be excluded: the four properties hold of every
interleaving because they promise only what a call could know. A user who joins, or a
device that logs in, while the call runs may be told or not. One notice is
enough, because notices share nothing but the queues, which `queue_jobs` fills with
several jobs at once; two users with one device between them, and one with two,
are the cases of `new Set(tokens)`. A call that throws or dies is excluded from
`EveryoneReached` only: the code does not resume it.

In `LiveGroups`, `hist` names the ways in which the code loses a socket it should track:
a newer connection of the user, the close of an older one, a concurrent
builder, leaving before the session is built, a pass that was suspended while
its session was dropped and built again, and a reconnection while the notice of its absence
was awaited. Each of them was needed for `ConnectedTracked` to hold in the run, and the
run shows that there is no other. The SOS flag differs from a session when it was
changed in another group, when two handlers that save it overlap or one fails, or
when a session is built from a flag that changes meanwhile. Three events with
closes, saves and passes for free are the smallest number at which a session
is built, dropped by a pass, and built again under another that is suspended.

In `LiveInputs` nothing but a time that is no Date is excluded, and each such
exclusion is needed. Five steps connect, start a trip, extend it out of range, restart and
rebuild; the same with an SOS.

Fairness of `LiveMember` (`FairSpec`): the timer keeps starting passes, and every awaited
operation takes effect and its handler resumes. The first is `@Interval`, the
second holds of calls that are answered, possibly by an error (`Fail`). No
fairness is given to clients. Fairness of `JobQueue`: a worker goes on with the job it
holds and looks for stalled ones (weak); a waiting job is taken if the worker
is free again and again (strong), because the queue is first in, first out.

## 4. Proofs

`LiveMember_proofs` proves `TypeCorrect == Spec => []TypeOK`, one lemma per action.
`TypeOK` includes `CallOK`: each suspended handler holds the object, trip and
arrival its next segment dereferences. It is inductive as it stands.

The same module proves `AnnouncedOnce == Spec => []NoRepeats`.
`NoRepeats` alone is not inductive. The invariant `AnnounceInv` numbers the
rises of the SOS: a number that is still going to be announced belongs to one
handler, has not been announced, and is not above the last one used; likewise for
reminders, where an armed number not yet used belongs to an unreminded record or to one suspended
sweep.

It also proves `RisesAreAnnounced` (`NoRiseForgotten`): `RisesInv` says that
a rise not announced has a handler that still carries its number. And it proves
`TripsCoupled` (`CoupledTrip`) and `TripsHaveRows` (`TripRowsExist`). The first needs that the object a handler
restores is coupled before it is stored; the second that every id in memory, in
a handler and in what a builder has read has a row, and that rows are never
removed.

`LiveMemberAgree_proofs` proves the three agreements of `LiveMember`: `SosAgrees`
(`SosAgreement`), `PathAgrees` (`PathAgreement`) and `TripAgrees` (`TripAgreement`).
They speak of states in which nobody is at work on the concern, so they are far from
inductive: the invariant `AgreeInv` has to say what is true in between. Its parts:

- `SessionInv`: two handlers about one concern have clashed (`Exclusive`); a handler
  works on the session's own object, or there is no session, or everything has clashed; a
  session is rebuilt by one handler, while there is none; a pass has nothing left to save
  for an object that is no longer the session's.
- `SosInv`, `PathInv`, `ArrivalInv`: if the concern has not clashed, every handler about it
  (there is one at most) has done what its place says, and not more (`SosFits`,
  `PathFits`, `TripFits`: before its write the row is as it was, afterwards as the handler wants
  it; a builder that has read has read what the row still holds); and if there is no such handler,
  rows, record and peer match (`SosMatch`, `Prefix`, `TripMatch`).

A step is one slot's (`Turn`). Most steps leave the data of a concern alone, which
`SosKept`, `PathKept` and `TripKept` settle at once; for the few that change it,
`Exclusive` says that nobody else is concerned, so that only the one handler has to be followed.
A session that is built (`SessionBuilt`) and a connection into one that lacks the user
(`Newcomer`) are cases of their own.

The proof of `PathAgreement` failed at first, for a reason: a pass suspended in
a session that another pass, itself late, has dropped by its id
(`live-session.service.ts:297-298`) although the user was not offline, may look at
that user later and save the path and the location of the old object (`:341-342`) over those of
the session built in between. It takes two passes and more objects than the
run has. `SessionBuilt` now notes it in `clash` (`Lingering`), and with that the
property is a theorem for any number of passes and objects.

`GroupMembership_proofs` proves `TypeCorrect`, `OrphansDeleted`
(`NoOrphans`) and `InhabitedGroupsKept` (the action property `InhabitedKept`).
`NoOrphans` is inductive with `DeletedGone`: a handler whose delete has run has
deleted. Whoever removes the last row becomes `Emptying` and hands that over
from segment to segment until the group is gone or somebody is found in it.
`InhabitedKept` needs `KeptInv`: a handler that counted nobody (`Doomed`) faces
an empty or a contested group, an upsert and a count of the same group in
progress make it contested, and a group a handler works on exists, so that no
creation adds members to it.

The same module proves `NewestHears` (`MembersHear`), `NewestHearsOnly`
(`OnlyMembersHear`) and `ChangesAreTold` (`ChangesAnnounced`). All three rest on
`RoomsInv`: handlers that race are in the history (`Overlaps`); a user's newest socket is the
one registered and is open (`Registered`), which an older socket that closes
does not change; rows belong to live groups, and a socket is due news only of
rooms it is in (`Told`). `Hears` adds that a member's registered socket is in the room, or
somebody is about to put it there or to read that it belongs there, and that nobody is about
to take a member out; `HearsOnly` is its converse: a room whose row is gone is being left,
and only memberships are joined; `DueAnnounced` that a socket that is due news has a handler
that still tells it (`Announcer`). For the last, the handler that deletes the
group needs `NoOrphans`' invariant: it tells nobody because nobody is left.

`Account_proofs` proves `TypeCorrect`; its `CallOK` says that a request is at a
query of its operation (`Stages`) and holds what the query uses. The same
module proves the five invariants of the runs. `NoAccount` (before the row
there are no codes, sessions or keys) supports them all. Each has an inductive
invariant: `SessionInv` adds that who is entering checked the present password;
`KeyInv` that when nothing raced one request at most holds a key, and that once
it is stored the row has it (`KeyToldIsStored`); `OnceInv` that a row somebody is about to
consume has not been accepted and nobody else is (`CodeAcceptedOnce`); `CodeInv`
that one request at most is sending a code, which is the newest row by the time it
is mailed (`MailedCodeIsNewest`, `OtherCodesFail`).

`JobQueue_proofs` proves `TypeCorrect` and `QueuesDeliver`, the refinement
`Spec => Delivers`: initial states map to initial states, and each action to
one of `Delivery` or a stutter. Its invariant `JobOK` bounds arrivals by mishaps: a
job that is waiting or held has arrived at most once per mishap.

`Notifications_proofs` proves that a step of Notifications is a step of the queues
or leaves them alone (`QueuesWork`), so that `TypeCorrect` and `NoticesDeliver`
follow from the theorems about `JobQueue`. The four invariants of the runs are
theorems too, from one inductive invariant, `ToldInv`. It says of a suspended call that
the history covers the present (`SeenNow`), that the users and tokens it has
read were there at some moment and miss nobody who was there at all of them (`Reading`),
that its jobs have receivers like that, one each, and none before they are
queued (`JobsOf`), and that those who had to be reached have been (`Reached`). `Mono`
collects what every step keeps: sessions keep their user, rows are never
removed, the history only grows. `QueuePushes` needs that among sessions with
one token there is a first (`FirstExists`, by well-foundedness of the naturals).

`LiveInputs_proofs` proves `TypeCorrect` and all the properties of its run:
`ArrivalIsKept`, `SosIsAnnounced`, `RoomAlwaysSees` and the action property
`RefusalsChangeNothing`. `Typed` is `TypeOK` with the bound of the trip apart, and
`Handled` says what the events amount to, whatever their raw input: a lemma per event shows it,
and the invariants are then proved of `Handled` alone. The arrival and
the room's location are inductive with the types; the arrival needs that a
whole number of milliseconds is its own (`WholeIsWhole`). The SOS needs the
same of the row (`SosInv`), because a restart takes the SOS and the path from there. A refused
step changes nothing by the types alone.

`LiveGroups_proofs` proves `TypeCorrect` and the five invariants of its run. `Typed`
adds to `TypeOK` that an open socket is somebody's (`SocksOwned`); `Mapped` says
that no two groups share a session object and that a pass works on an object of its
own group. A step changes the records of a session in few ways, which `RecordSteps` lists once
for all invariants; `SockSteps` and `FlagSteps` do the same for sockets and flags.
`OnlyMembersHeld` extends `NoStrangers` to users on their way into a session,
whose membership was read before an await. `OfflineMembersSaved` is
nearly inductive: `Placed` says which pass is saving the place. For the sockets, `Connecting` says that a
handler of handleConnection has its socket for itself, with `client.data` unset, which gives
`RecordsNameOwnSockets` (`Known`) and `SocketsTracked` (`Tracked`). `FlagOfSessions`
follows from `Agrees`: every save in flight has the record's value, and if there is none the flag has it.

The assumptions are those of the modules. In `LiveMember`, client and sweep slots are disjoint,
the null is none of the ids, arrivals and bounds are natural numbers; in `GroupMembership` and `Account` the same of null and bounds, and roles are `USER` and `ADMIN`; in `JobQueue` and `Notifications` the limits are natural numbers, at least one attempt is made, and users and devices are disjoint;
in `LiveGroups` they are the same for slots, null and bound, memberships are sets of pairs of a
user and a group, and there are finitely many users;
in `LiveInputs` the numbers are integers, the earliest and the latest Date lie around zero, and
the bound is a natural number. No bound is used as one: the theorems hold for every value, any number of handlers included.

Every invariant and every action property of the passing runs is a theorem. Liveness
under fairness (`OverdueRaisesSos`, `EveryJobEnds`) is only model-checked, as is everything that needs
ENABLED: the prover has no rule for it. The runs that expect a violation
(`LocationNeedsSocket`, `VerifiedOnce`, `TokenOfCaller`) refute what they check,
so there is nothing to prove.

## 5. Not modelled

SettingsService: one row, a read, and an update by id of the columns that are
given; nothing else reads it. JwtStrategy, guards and secret-key.util: a read and a
comparison, or a random value, per request; the modules take their outcome.
Bootstrap, modules, the other DTOs' validation and Swagger, mail templates, the exception
filter and response interceptor, throttling and CORS (no state of their own);
Firebase, SMTP, Redis and PostgreSQL except as seen by the code. The only test
of the repository, `test/app.e2e-spec.ts`, checks the root endpoint.
