------------------------------- MODULE Account -------------------------------
(***************************************************************************)
(* One account: its row, the codes mailed for it, its sessions and its     *)
(* secret key (src/auth/services), under concurrent HTTP requests.         *)
(*                                                                         *)
(* The requests share nothing but the rows, so an action is one query with *)
(* what its handler does up to the next one, and a request that fails      *)
(* stops between two of them.                                              *)
(***************************************************************************)
EXTENDS Naturals, Sequences

CONSTANTS
  Passwords,
  Roles,      \* roles that accounts and requests have
  Ops,        \* requests that are made
  Slots,      \* requests in progress
  None,
  MaxCalls,   \* bound: requests
  MaxFails,   \* bound: queries that throw
  MaxCrashes  \* bound: process restarts

ASSUME RolesAssumption == Roles \subseteq {"USER", "ADMIN"}
ASSUME NoneAssumption == None \notin Passwords
ASSUME BoundAssumption == MaxCalls \in Nat /\ MaxFails \in Nat /\ MaxCrashes \in Nat

VARIABLES
  user,     \* the User row; role "none" before there is one
  otps,     \* UserAuthOtp rows, oldest first
  sessions, \* passwords under which active UserSession rows were opened
  call,     \* Slots -> the request suspended there
  keys,     \* secret keys generated so far; a key is its number
  mailed,   \* row of the code queued last for the mailbox, 0 if none
  told,     \* secret key returned last to the client, 0 if none
  used,     \* how much of each bound is spent
  hist      \* history: what overlapped or failed

vars == <<user, otps, sessions, call, keys, mailed, told, used, hist>>

-----------------------------------------------------------------------------
(* State *)

Maybe(S) == S \cup {None}

UserType ==
  [role : {"none", "USER", "ADMIN"}, confirmed : BOOLEAN, pw : Maybe(Passwords), key : Nat]
NoUser == [role |-> "none", confirmed |-> FALSE, pw |-> None, key |-> 0]

\* `times` is history: how many requests the code was accepted for.
OtpType == [used : BOOLEAN, expired : BOOLEAN, times : Nat]
NewOtp == [used |-> FALSE, expired |-> FALSE, times |-> 0]

Pcs == {"idle", "find", "create", "inv", "otp_create", "mail", "otp_find",
        "otp_use", "key_update", "pw_update", "ses_create", "revoke", "answer"}
AllOps == {"register", "verify", "login", "regenerate", "forgot", "resend",
           "reset", "logout"}

\* The query that is next; the password sent or, in verify, the one read; the
\* row whose code is sent, the row read or created; the key generated.
CallType ==
  [pc : Pcs, op : {"none"} \cup AllOps, as : {"none", "USER", "ADMIN"},
   pw : Maybe(Passwords), code : Nat, row : Nat, key : Nat]

NoCall ==
  [pc |-> "idle", op |-> "none", as |-> "none", pw |-> None, code |-> 0, row |-> 0, key |-> 0]

\* Concerns on which requests overlapped or failed, and codes that two requests
\* were checking at once.
HistType == [raced : SUBSET {"key", "code", "session"}, shared : SUBSET Nat]

\* Administrators are created outside the program.
Init ==
  /\ \/ user = NoUser
     \/ \E role \in Roles \ {"USER"}, pw \in Passwords :
          user = [role |-> role, confirmed |-> TRUE, pw |-> pw, key |-> 0]
  /\ otps = <<>> /\ sessions = {} /\ call = [s \in Slots |-> NoCall]
  /\ keys = 0 /\ mailed = 0 /\ told = 0
  /\ used = [calls |-> 0, fails |-> 0, crashes |-> 0]
  /\ hist = [raced |-> {}, shared |-> {}]

Rows == 1 .. Len(otps)

-----------------------------------------------------------------------------
(* Suspended requests *)

At(s, pc) == call[s].pc = pc
Others(s) == {call[t] : t \in Slots \ {s}}

Await(s, c) == call' = [call EXCEPT ![s] = c]
Then(s, pc) == Await(s, [call[s] EXCEPT !.pc = pc])
Return(s) == Await(s, NoCall)

\* A request is about to mail a code, tell a key, open a session under the
\* password it checked, or revoke the sessions of the password it replaced.
Issuing(c) == c.pc \in {"create", "inv", "otp_create", "mail"}
Keyed(c) == c.key # 0
Entering(c) == c.op \in {"verify", "login"} /\ c.pc \notin {"idle", "find", "answer"}
Resetting(c) == c.op = "reset" /\ c.pc = "revoke"

\* A request takes up a concern; if it is the only one, what raced before no
\* longer matters.
Claim(concern, alone) ==
  hist' = [hist EXCEPT !.raced = IF alone THEN @ \ {concern} ELSE @ \cup {concern}]

\* createSecretKey, before the request stores the key.
Generate(s) ==
  /\ keys' = keys + 1
  /\ Await(s, [call[s] EXCEPT !.pc = "key_update", !.key = keys + 1])
  /\ Claim("key", \A c \in Others(s) : ~Keyed(c))

-----------------------------------------------------------------------------
(* Requests, and the first thing all but logout do: find the user *)

Request(s, c) ==
  /\ At(s, "idle") /\ used.calls < MaxCalls
  /\ c.op \in Ops
  /\ used' = [used EXCEPT !.calls = @ + 1]
  /\ Await(s, c)
  /\ UNCHANGED <<user, otps, sessions, keys, mailed, told, hist>>

Ask(s, op, as, pw, code) ==
  as \in Roles /\
  Request(s, [NoCall EXCEPT !.pc = "find", !.op = op, !.as = as, !.pw = pw, !.code = code])

UserRegister(s, pw) == Ask(s, "register", "USER", pw, 0)
UserVerifyEmail(s, code) == Ask(s, "verify", "USER", None, code)
Login(s, as, pw) == Ask(s, "login", as, pw, 0)
ForgotPassword(s, as) == Ask(s, "forgot", as, None, 0)
ResendOtp(s, as) == Ask(s, "resend", as, None, 0)
ResetPassword(s, as, pw, code) == Ask(s, "reset", as, pw, code)

\* These two need a token, which only a confirmed account gets.
RegenerateSecretKey(s) == user.confirmed /\ Ask(s, "regenerate", "USER", None, 0)
UserLogout(s) ==
  user.confirmed /\ Request(s, [NoCall EXCEPT !.pc = "revoke", !.op = "logout"])

\* The codes a request may send: those of the rows, or a wrong one.
Sent == Rows \cup {0}

\* Whether the row read lets the request go on.
Admitted(c) ==
  IF c.op = "register" THEN user.role = "none"
  ELSE /\ user.role = c.as
       /\ c.op = "verify" => ~user.confirmed
       /\ c.op = "login" => c.pw = user.pw
       /\ c.op \in {"login", "forgot"} /\ c.as = "USER" => user.confirmed

Refuse(s) ==
  /\ At(s, "find") /\ ~Admitted(call[s])
  /\ Return(s)
  /\ UNCHANGED <<user, otps, sessions, keys, mailed, told, used, hist>>

\* verify opens its session under the password that it reads here.
FindUser(s) ==
  LET c == call[s]
  IN  /\ At(s, "find") /\ Admitted(c)
      /\ \/ c.op = "register" /\ Then(s, "create") /\ UNCHANGED <<keys, hist>>
         \/ c.op = "reset" /\ Then(s, "otp_find") /\ UNCHANGED <<keys, hist>>
         \/ c.op = "login" /\ Then(s, "ses_create") /\ UNCHANGED <<keys, hist>>
         \/ c.op = "regenerate" /\ Generate(s)
         \/ /\ c.op = "verify" /\ UNCHANGED <<keys, hist>>
            /\ Await(s, [c EXCEPT !.pc = "otp_find", !.pw = user.pw])
      /\ UNCHANGED <<user, otps, sessions, mailed, told, used>>

\* Mutant: a new code leaves the previous ones valid.
FindUserOnly(s) ==
  /\ At(s, "find") /\ Admitted(call[s]) /\ call[s].op \in {"forgot", "resend"}
  /\ Then(s, "otp_create")
  /\ Claim("code", \A d \in Others(s) : ~Issuing(d))
  /\ UNCHANGED <<user, otps, sessions, keys, mailed, told, used>>

\* An administrator's forgotten password leaves the previous codes valid.
FindForCode(s) ==
  LET c == call[s]
      alone == \A d \in Others(s) : ~Issuing(d)
  IN  /\ At(s, "find") /\ Admitted(c) /\ c.op \in {"forgot", "resend"}
      /\ IF c.op = "forgot" /\ c.as = "ADMIN"
         THEN /\ Then(s, "otp_create")
              /\ IF alone THEN UNCHANGED hist ELSE Claim("code", FALSE)
         ELSE Then(s, "inv") /\ Claim("code", alone)
      /\ UNCHANGED <<user, otps, sessions, keys, mailed, told, used>>

-----------------------------------------------------------------------------
(* Registering, and issuing a code *)

\* The unique address refuses when another request was faster.  The key that
\* is stored here is told to nobody.
CreateUser(s) ==
  /\ At(s, "create")
  /\ IF user.role # "none" THEN Return(s) /\ UNCHANGED <<user, hist>>
     ELSE /\ user' = [role |-> "USER", confirmed |-> FALSE, pw |-> call[s].pw, key |-> 0]
          /\ Then(s, "otp_create")
          /\ IF \E c \in Others(s) : Issuing(c) THEN Claim("code", FALSE) ELSE UNCHANGED hist
  /\ UNCHANGED <<otps, sessions, keys, mailed, told, used>>

InvalidatePreviousOtps(s) ==
  /\ At(s, "inv")
  /\ otps' = [r \in Rows |-> [otps[r] EXCEPT !.used = TRUE]]
  /\ Then(s, "otp_create")
  /\ UNCHANGED <<user, sessions, keys, mailed, told, used, hist>>

\* Mutant: the codes are invalidated once the new one is there.
CreateOtpThenInvalidate(s) ==
  /\ At(s, "otp_create")
  /\ otps' = [r \in 1 .. Len(otps) + 1 |-> [Append(otps, NewOtp)[r] EXCEPT !.used = TRUE]]
  /\ Await(s, [call[s] EXCEPT !.pc = "mail", !.row = Len(otps) + 1])
  /\ UNCHANGED <<user, sessions, keys, mailed, told, used, hist>>

CreateOtp(s) ==
  /\ At(s, "otp_create")
  /\ otps' = Append(otps, NewOtp)
  /\ Await(s, [call[s] EXCEPT !.pc = "mail", !.row = Len(otps) + 1])
  /\ UNCHANGED <<user, sessions, keys, mailed, told, used, hist>>

QueueOtpEmail(s) ==
  /\ At(s, "mail")
  /\ mailed' = call[s].row /\ Return(s)
  /\ UNCHANGED <<user, otps, sessions, keys, told, used, hist>>

-----------------------------------------------------------------------------
(* validateAndConsumeOtp *)

Valid == {r \in Rows : ~otps[r].used /\ ~otps[r].expired}
Newest(r) == r \in Valid /\ \A q \in Valid : q <= r

\* Mutant: that there is no record is not noticed.
FindAnyOtp(s) ==
  LET c == call[s]
  IN  /\ At(s, "otp_find")
      /\ IF Newest(c.code) \/ (Valid = {} /\ c.code = 0)
         THEN Await(s, [c EXCEPT !.pc = "otp_use", !.row = c.code])
         ELSE Return(s)
      /\ UNCHANGED <<user, otps, sessions, keys, mailed, told, used, hist>>

\* Only the newest row is read, and only its code is right.  A row that another
\* request has read and not consumed yet is shared.
FindOtp(s) ==
  LET c == call[s]
  IN  /\ At(s, "otp_find")
      /\ IF Newest(c.code)
         THEN /\ Await(s, [c EXCEPT !.pc = "otp_use", !.row = c.code])
              /\ IF \E d \in Others(s) : d.pc = "otp_use" /\ d.row = c.code
                 THEN hist' = [hist EXCEPT !.shared = @ \cup {c.code}]
                 ELSE UNCHANGED hist
         ELSE Return(s) /\ UNCHANGED hist
      /\ UNCHANGED <<user, otps, sessions, keys, mailed, told, used>>

\* Mutant: the code is not marked as used.
AcceptOtp(s) ==
  /\ At(s, "otp_use")
  /\ otps' = [otps EXCEPT ![call[s].row].times = @ + 1]
  /\ \/ call[s].op = "verify" /\ Generate(s)
     \/ call[s].op = "reset" /\ Then(s, "pw_update") /\ UNCHANGED <<keys, hist>>
  /\ UNCHANGED <<user, sessions, mailed, told, used>>

ConsumeOtp(s) ==
  /\ At(s, "otp_use")
  /\ otps' = [otps EXCEPT ![call[s].row].used = TRUE, ![call[s].row].times = @ + 1]
  /\ \/ call[s].op = "verify" /\ Generate(s)
     \/ call[s].op = "reset" /\ Then(s, "pw_update") /\ UNCHANGED <<keys, hist>>
  /\ UNCHANGED <<user, sessions, mailed, told, used>>

Expire(r) ==
  /\ ~otps[r].expired
  /\ otps' = [otps EXCEPT ![r].expired = TRUE]
  /\ UNCHANGED <<user, sessions, call, keys, mailed, told, used, hist>>

-----------------------------------------------------------------------------
(* The secret key, sessions and the password *)

\* Mutant: verification keeps the key that registration stored.
StoreKeyIfAsked(s) ==
  /\ At(s, "key_update")
  /\ \/ /\ call[s].op = "verify" /\ Then(s, "ses_create")
        /\ user' = [user EXCEPT !.confirmed = TRUE]
     \/ /\ call[s].op = "regenerate" /\ Then(s, "answer")
        /\ user' = [user EXCEPT !.key = call[s].key]
  /\ UNCHANGED <<otps, sessions, keys, mailed, told, used, hist>>

StoreKey(s) ==
  /\ At(s, "key_update")
  /\ \/ /\ call[s].op = "verify" /\ Then(s, "ses_create")
        /\ user' = [user EXCEPT !.key = call[s].key, !.confirmed = TRUE]
     \/ /\ call[s].op = "regenerate" /\ Then(s, "answer")
        /\ user' = [user EXCEPT !.key = call[s].key]
  /\ UNCHANGED <<otps, sessions, keys, mailed, told, used, hist>>

\* revokeAllUserSessions in between closes only the sessions that are there.
CreateSession(s) ==
  /\ At(s, "ses_create")
  /\ sessions' = sessions \cup {call[s].pw}
  /\ IF call[s].op = "verify" THEN Then(s, "answer") ELSE Return(s)
  /\ UNCHANGED <<user, otps, keys, mailed, told, used, hist>>

Answer(s) ==
  /\ At(s, "answer")
  /\ told' = call[s].key /\ Return(s)
  /\ UNCHANGED <<user, otps, sessions, keys, mailed, used, hist>>

\* Mutant: the sessions opened under the old password stay.
StorePasswordOnly(s) ==
  /\ At(s, "pw_update")
  /\ user' = [user EXCEPT !.pw = call[s].pw] /\ Return(s)
  /\ UNCHANGED <<otps, sessions, keys, mailed, told, used, hist>>

StorePassword(s) ==
  /\ At(s, "pw_update")
  /\ user' = [user EXCEPT !.pw = call[s].pw] /\ Then(s, "revoke")
  /\ UNCHANGED <<otps, sessions, keys, mailed, told, used, hist>>

RevokeAllUserSessions(s) ==
  /\ At(s, "revoke")
  /\ sessions' = {} /\ Return(s)
  /\ IF call[s].op = "reset" THEN Claim("session", \A c \in Others(s) : ~Entering(c))
     ELSE UNCHANGED hist
  /\ UNCHANGED <<user, otps, keys, mailed, told, used>>

-----------------------------------------------------------------------------
(* Failures *)

\* What a request leaves half done.
Unfinished(c) ==
  {x \in {"key", "code", "session"} :
     \/ x = "key" /\ Keyed(c)
     \/ x = "code" /\ Issuing(c)
     \/ x = "session" /\ Resetting(c)}

\* A query throws, or took effect and throws, and nothing follows.
Fail(s) ==
  /\ ~At(s, "idle") /\ used.fails < MaxFails
  /\ used' = [used EXCEPT !.fails = @ + 1]
  /\ Return(s)
  /\ hist' = [hist EXCEPT !.raced = @ \cup Unfinished(call[s])]
  /\ UNCHANGED <<user, otps, sessions, keys, mailed, told>>

Crash ==
  /\ used.crashes < MaxCrashes
  /\ used' = [used EXCEPT !.crashes = @ + 1]
  /\ call' = [s \in Slots |-> NoCall]
  /\ hist' = [hist EXCEPT !.raced = @ \cup UNION {Unfinished(call[s]) : s \in Slots}]
  /\ UNCHANGED <<user, otps, sessions, keys, mailed, told>>

-----------------------------------------------------------------------------
(* Specification *)

Requests(s) ==
  \/ \E pw \in Passwords : UserRegister(s, pw)
  \/ \E code \in Sent : UserVerifyEmail(s, code)
  \/ \E as \in Roles, pw \in Passwords : Login(s, as, pw)
  \/ \E as \in Roles : ForgotPassword(s, as)
  \/ \E as \in Roles : ResendOtp(s, as)
  \/ \E as \in Roles, pw \in Passwords, code \in Sent : ResetPassword(s, as, pw, code)
  \/ RegenerateSecretKey(s)
  \/ UserLogout(s)

Queries(s) ==
  \/ Refuse(s)
  \/ FindUser(s)
  \/ FindForCode(s)
  \/ CreateUser(s)
  \/ InvalidatePreviousOtps(s)
  \/ CreateOtp(s)
  \/ QueueOtpEmail(s)
  \/ FindOtp(s)
  \/ ConsumeOtp(s)
  \/ StoreKey(s)
  \/ CreateSession(s)
  \/ Answer(s)
  \/ StorePassword(s)
  \/ RevokeAllUserSessions(s)

Next ==
  \/ \E s \in Slots : Requests(s)
  \/ \E s \in Slots : Queries(s)
  \/ \E s \in Slots : Fail(s)
  \/ \E r \in Rows : Expire(r)
  \/ Crash

Spec == Init /\ [][Next]_vars

-----------------------------------------------------------------------------
(* Properties *)

\* The queries of each operation.
Stages(op) ==
  CASE op = "none" -> {"idle"}
    [] op = "register" -> {"find", "create", "otp_create", "mail"}
    [] op = "verify" -> {"find", "otp_find", "otp_use", "key_update", "ses_create", "answer"}
    [] op = "login" -> {"find", "ses_create"}
    [] op = "regenerate" -> {"find", "key_update", "answer"}
    [] op \in {"forgot", "resend"} -> {"find", "inv", "otp_create", "mail"}
    [] op = "reset" -> {"find", "otp_find", "otp_use", "pw_update", "revoke"}
    [] op = "logout" -> {"revoke"}

\* What a suspended request has captured.
CallOK(c) ==
  /\ c.pc \in Stages(c.op)
  /\ c.op \in AllOps \ {"logout"} => c.as \in Roles
  /\ c.op \in {"register", "login", "reset"} \/ Entering(c) => c.pw \in Passwords
  /\ c.pc \in {"otp_use", "mail"} => c.row \in Rows
  /\ c.key <= keys

\* Every variable has its type, every suspended request what it will use.
TypeOK ==
  /\ user \in UserType /\ (user.role # "none" => user.pw \in Passwords)
  /\ otps \in Seq(OtpType)
  /\ sessions \subseteq Passwords
  /\ call \in [Slots -> CallType]
  /\ keys \in Nat /\ mailed \in 0 .. Len(otps) /\ told \in 0 .. keys
  /\ used \in [calls : Nat, fails : Nat, crashes : Nat]
  /\ hist \in HistType
  /\ \A s \in Slots : CallOK(call[s])

Clear(concern) == concern \notin hist.raced

\* The secret key told last works, unless requests that store keys overlapped
\* or failed (userVerifyEmail, regenerateSecretKey).
KeyAgreement ==
  Clear("key") /\ told # 0 /\ (\A s \in Slots : ~Keyed(call[s])) => user.key = told

\* The code mailed last is the newest row and nothing but being accepted uses
\* it up, unless requests for codes overlapped or failed.
MailedCodeWorks ==
  Clear("code") /\ mailed # 0 /\ (\A s \in Slots : ~Issuing(call[s])) =>
    /\ mailed = Len(otps)
    /\ otps[mailed].used => otps[mailed].times > 0

\* Then it is also the only one of a user's that works (invalidatePreviousOtps).
OnlyMailedWorks ==
  Clear("code") /\ user.role = "USER" /\ (\A s \in Slots : ~Issuing(call[s])) =>
    Valid \subseteq {mailed}

\* A code is accepted once, unless two requests checked it at the same time
\* (validateAndConsumeOtp).
AcceptedOnce == \A r \in Rows \ hist.shared : otps[r].times <= 1

\* After a reset, every active session was opened under the new password,
\* unless it was being opened meanwhile (userResetPassword, adminNewPassword).
SessionsCurrent ==
  Clear("session") /\ (\A s \in Slots : ~Resetting(call[s])) => sessions \subseteq {user.pw}

\* "Returns 'Email already verified' with no authToken if the account was
\* already confirmed" (user-auth.controller.ts): no account is verified twice.
VerifiedOnce ==
  [][\A s \in Slots : StoreKey(s) /\ call[s].op = "verify" => ~user.confirmed]_vars

=============================================================================
