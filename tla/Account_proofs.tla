--------------------------- MODULE Account_proofs ---------------------------
(* Theorems about Account, for every value of its constants: types first,  *)
(* then the safety invariants, each with an inductive invariant of its own  *)
(* and a lemma about the steps that do not touch what it is about.          *)
EXTENDS Account, SequenceTheorems, TLAPS

-----------------------------------------------------------------------------
(* How the shared pieces of a step type the state after it. *)

LEMMA StateTyped ==
  ASSUME TypeOK
  PROVE  /\ \A s \in Slots : call[s] \in CallType /\ CallOK(call[s])
         /\ Len(otps) \in Nat /\ otps \in [Rows -> OtpType]
         /\ keys \in Nat
BY LenProperties DEF TypeOK, Rows

LEMMA StagesAre ==
  /\ Stages("none") = {"idle"}
  /\ Stages("register") = {"find", "create", "otp_create", "mail"}
  /\ Stages("verify") = {"find", "otp_find", "otp_use", "key_update", "ses_create", "answer"}
  /\ Stages("login") = {"find", "ses_create"}
  /\ Stages("regenerate") = {"find", "key_update", "answer"}
  /\ Stages("forgot") = {"find", "inv", "otp_create", "mail"}
  /\ Stages("resend") = {"find", "inv", "otp_create", "mail"}
  /\ Stages("reset") = {"find", "otp_find", "otp_use", "pw_update", "revoke"}
  /\ Stages("logout") = {"revoke"}
BY DEF Stages

\* The operations a query belongs to.
LEMMA OpAt ==
  ASSUME TypeOK, NEW s \in Slots
  PROVE  /\ At(s, "create") => call[s].op = "register"
         /\ At(s, "inv") => call[s].op \in {"forgot", "resend"}
         /\ At(s, "otp_create") \/ At(s, "mail") => call[s].op \in {"register", "forgot", "resend"}
         /\ At(s, "otp_find") \/ At(s, "otp_use") => call[s].op \in {"verify", "reset"}
         /\ At(s, "key_update") \/ At(s, "answer") => call[s].op \in {"verify", "regenerate"}
         /\ At(s, "ses_create") => call[s].op \in {"verify", "login"}
         /\ At(s, "pw_update") => call[s].op = "reset"
         /\ At(s, "revoke") => call[s].op \in {"reset", "logout"}
<1>1. call[s].pc \in Stages(call[s].op) /\ call[s].op \in {"none"} \cup AllOps
  BY StateTyped DEF CallOK, CallType
<1>2. QED
  BY <1>1, StagesAre DEF At, AllOps

\* CallOK in the next state.
NextCallOK(c) ==
  /\ c.pc \in Stages(c.op)
  /\ c.op \in AllOps \ {"logout"} => c.as \in Roles
  /\ c.op \in {"register", "login", "reset"} \/ Entering(c) => c.pw \in Passwords
  /\ c.pc \in {"otp_use", "mail"} => c.row \in 1 .. Len(otps')
  /\ c.key <= keys'

\* The conjuncts of TypeOK' that speak of the slots.
CallsOK ==
  /\ call' \in [Slots -> CallType]
  /\ \A t \in Slots : NextCallOK(call'[t])

\* Rows and keys only become more.
Grows ==
  /\ otps' \in Seq(OtpType) /\ Len(otps) <= Len(otps')
  /\ keys' \in Nat /\ keys <= keys'

LEMMA Still ==
  ASSUME TypeOK
  PROVE  /\ UNCHANGED <<otps, keys>> => Grows
         /\ UNCHANGED otps /\ keys' = keys + 1 => Grows
         /\ otps' \in Seq(OtpType) /\ Len(otps) <= Len(otps') /\ UNCHANGED keys => Grows
BY StateTyped DEF TypeOK, Grows

LEMMA CallOKStays ==
  ASSUME TypeOK, Grows, NEW c \in CallType, CallOK(c)
  PROVE  NextCallOK(c)
<1>1. Len(otps) \in Nat /\ Len(otps') \in Nat
  BY StateTyped, LenProperties DEF Grows
<1>2. QED
  BY <1>1, StateTyped DEF Grows, CallOK, NextCallOK, CallType, Rows

LEMMA NoCallTyped == NoCall \in CallType /\ ~Entering(NoCall)
BY DEF NoCall, CallType, Pcs, Maybe, AllOps, Entering

LEMMA AwaitTyped ==
  ASSUME TypeOK, Grows, NEW s \in Slots, NEW c \in CallType, NextCallOK(c), Await(s, c)
  PROVE  CallsOK
<1>1. call' = [call EXCEPT ![s] = c]
  BY DEF Await
<1>2. \A t \in Slots : NextCallOK(call[t])
  BY StateTyped, CallOKStays
<1>3. QED
  BY <1>1, <1>2 DEF CallsOK, TypeOK

LEMMA ReturnTyped ==
  ASSUME TypeOK, Grows, NEW s \in Slots, Return(s)
  PROVE  CallsOK
<1>1. NextCallOK(NoCall)
  BY NoCallTyped, StagesAre DEF Grows, NextCallOK, NoCall, AllOps
<1>2. QED
  BY <1>1, NoCallTyped, AwaitTyped DEF Return

\* A request goes on: its operation, and what it captured, stay.
LEMMA ThenTyped ==
  ASSUME TypeOK, Grows, NEW s \in Slots, NEW pc \in Stages(call[s].op), Then(s, pc),
         pc \in {"otp_use", "mail"} => call[s].row \in 1 .. Len(otps'),
         call[s].op = "verify" => call[s].pc \notin {"idle", "find", "answer"} \/ pc \in {"idle", "find", "answer"}
  PROVE  CallsOK
<1> DEFINE c == [call[s] EXCEPT !.pc = pc]
<1>1. pc \in Pcs
  BY StateTyped, StagesAre DEF CallType, AllOps, Pcs
<1>2. c \in CallType
  BY <1>1, StateTyped DEF CallType
<1>3. NextCallOK(call[s])
  BY StateTyped, CallOKStays
<1>4. NextCallOK(c)
  BY <1>3, StateTyped, StagesAre DEF NextCallOK, Entering, CallType
<1>5. QED
  BY <1>2, <1>4, AwaitTyped DEF Then

LEMMA ClaimTyped ==
  ASSUME TypeOK, NEW concern \in {"key", "code", "session"}, NEW alone \in BOOLEAN,
         Claim(concern, alone)
  PROVE  hist' \in HistType
BY DEF TypeOK, HistType, Claim

LEMMA GenerateTyped ==
  ASSUME TypeOK, NEW s \in Slots, Generate(s), Grows,
         call[s].op \in {"verify", "regenerate"}, call[s].op = "verify" => call[s].pc \notin {"idle", "find", "answer"}
  PROVE  CallsOK /\ hist' \in HistType
<1> DEFINE c == [call[s] EXCEPT !.pc = "key_update", !.key = keys + 1]
<1>0. "key_update" \in Pcs /\ keys + 1 \in Nat
  BY StateTyped DEF Pcs
<1>1. c \in CallType
  BY <1>0, StateTyped DEF CallType
<1>2. NextCallOK(call[s])
  BY StateTyped, CallOKStays
<1>3. NextCallOK(c)
  BY <1>2, StateTyped, StagesAre DEF NextCallOK, Entering, CallType, Generate
<1>4. CallsOK
  BY <1>1, <1>3, AwaitTyped DEF Generate
<1>5. hist' \in HistType
  BY ClaimTyped DEF Generate
<1>6. QED
  BY <1>4, <1>5

\* What TypeOK' says of everything but the slots.
RestOK ==
  /\ user' \in UserType /\ (user'.role # "none" => user'.pw \in Passwords)
  /\ sessions' \subseteq Passwords
  /\ mailed' \in 0 .. Len(otps') /\ told' \in 0 .. keys'
  /\ used' \in [calls : Nat, fails : Nat, crashes : Nat]
  /\ hist' \in HistType

LEMMA Assembled ==
  ASSUME Grows, CallsOK, RestOK
  PROVE  TypeOK'
BY DEF Grows, CallsOK, RestOK, TypeOK, CallOK, NextCallOK, Rows, Entering

\* What a step leaves alone stays typed, whatever is added to rows and keys.
LEMMA RestTyped ==
  ASSUME TypeOK, Grows
  PROVE  /\ UNCHANGED user => user' \in UserType /\ (user'.role # "none" => user'.pw \in Passwords)
         /\ UNCHANGED sessions => sessions' \subseteq Passwords
         /\ UNCHANGED mailed => mailed' \in 0 .. Len(otps')
         /\ UNCHANGED told => told' \in 0 .. keys'
         /\ UNCHANGED used => used' \in [calls : Nat, fails : Nat, crashes : Nat]
         /\ UNCHANGED hist => hist' \in HistType
<1>1. Len(otps) \in Nat /\ Len(otps') \in Nat
  BY StateTyped, LenProperties DEF Grows
<1>2. QED
  BY <1>1 DEF TypeOK, Grows

-----------------------------------------------------------------------------
(* Each action keeps the types. *)

LEMMA RequestTyped ==
  ASSUME TypeOK, NEW s \in Slots, NEW c \in CallType, CallOK(c), Request(s, c)
  PROVE  TypeOK'
<1>1. Grows /\ CallsOK
  BY Still, CallOKStays, AwaitTyped DEF Request
<1>2. RestOK
  BY <1>1, RestTyped DEF Request, RestOK, TypeOK
<1>3. QED
  BY <1>1, <1>2, Assembled

LEMMA AskTyped ==
  ASSUME TypeOK, NEW s \in Slots, NEW op \in AllOps \ {"logout"}, NEW as \in Roles,
         NEW pw \in Maybe(Passwords), NEW code \in Nat,
         op \in {"register", "login", "reset"} => pw \in Passwords,
         Ask(s, op, as, pw, code)
  PROVE  TypeOK'
<1> DEFINE c == [NoCall EXCEPT !.pc = "find", !.op = op, !.as = as, !.pw = pw, !.code = code]
<1>1. c \in CallType
  BY RolesAssumption DEF NoCall, CallType, Pcs
<1>2. c.pc = "find" /\ c.op = op /\ c.as = as /\ c.pw = pw /\ c.key = 0
  BY DEF NoCall
<1> HIDE DEF c
<1>3. CallOK(c)
  <2>1. 0 <= keys
    BY StateTyped
  <2>2. "find" \in Stages(op)
    BY StagesAre DEF AllOps
  <2>3. QED
    BY <1>2, <2>1, <2>2 DEF CallOK, Entering
<1> USE DEF c
<1>4. QED
  BY <1>1, <1>3, RequestTyped DEF Ask

LEMMA RequestsTyped ==
  ASSUME TypeOK, NEW s \in Slots, Requests(s)
  PROVE  TypeOK'
<1>1. None \in Maybe(Passwords) /\ Passwords \subseteq Maybe(Passwords)
  BY DEF Maybe
<1>2. Sent \subseteq Nat
  BY StateTyped DEF Sent, Rows
<1>3. CASE \E pw \in Passwords : UserRegister(s, pw)
  <2>1. "USER" \in Roles
    BY <1>3 DEF UserRegister, Ask
  <2>2. QED
    BY <1>1, <1>3, <2>1, AskTyped DEF UserRegister, AllOps
<1>4. CASE \E code \in Sent : UserVerifyEmail(s, code)
  <2>1. "USER" \in Roles
    BY <1>4 DEF UserVerifyEmail, Ask
  <2>2. QED
    BY <1>1, <1>2, <1>4, <2>1, AskTyped DEF UserVerifyEmail, AllOps
<1>5. CASE \E as \in Roles, pw \in Passwords : Login(s, as, pw)
  BY <1>1, <1>5, AskTyped DEF Login, AllOps
<1>6. CASE \E as \in Roles : ForgotPassword(s, as)
  BY <1>1, <1>6, AskTyped DEF ForgotPassword, AllOps
<1>7. CASE \E as \in Roles : ResendOtp(s, as)
  BY <1>1, <1>7, AskTyped DEF ResendOtp, AllOps
<1>8. CASE \E as \in Roles, pw \in Passwords, code \in Sent : ResetPassword(s, as, pw, code)
  BY <1>1, <1>2, <1>8, AskTyped DEF ResetPassword, AllOps
<1>9. CASE RegenerateSecretKey(s)
  <2>1. "USER" \in Roles
    BY <1>9 DEF RegenerateSecretKey, Ask
  <2>2. QED
    BY <1>1, <1>9, <2>1, AskTyped DEF RegenerateSecretKey, AllOps
<1>10. CASE UserLogout(s)
  <2> DEFINE c == [NoCall EXCEPT !.pc = "revoke", !.op = "logout"]
  <2>1. "revoke" \in Pcs /\ "logout" \in AllOps
    BY DEF Pcs, AllOps
  <2>2. c \in CallType
    BY <2>1, NoCallTyped DEF CallType
  <2>3. CallOK(c)
    BY NoCallTyped, StateTyped, StagesAre DEF NoCall, CallType, CallOK, Entering, AllOps
  <2>4. QED
    BY <1>10, <2>2, <2>3, RequestTyped DEF UserLogout
<1>11. QED
  BY <1>3, <1>4, <1>5, <1>6, <1>7, <1>8, <1>9, <1>10 DEF Requests

\* The row a refused or admitted request has read.
LEMMA FindTyped ==
  ASSUME TypeOK, NEW s \in Slots, Refuse(s) \/ FindUser(s) \/ FindForCode(s)
  PROVE  TypeOK'
<1>1. CASE Refuse(s)
  <2>1. Grows /\ CallsOK
    BY <1>1, Still, ReturnTyped DEF Refuse
  <2>2. QED
    BY <1>1, <2>1, RestTyped, Assembled DEF Refuse, RestOK
<1>2. CASE FindUser(s)
  <2>1. Grows
    BY <1>2, Still DEF FindUser, Generate
  <2>2. CallsOK /\ hist' \in HistType
    <3>1. CASE call[s].op \in {"register", "reset", "login"}
      BY <1>2, <2>1, <3>1, OpAt, StagesAre, ThenTyped, RestTyped DEF FindUser, At
    <3>2. CASE call[s].op = "regenerate"
      BY <1>2, <2>1, <3>2, GenerateTyped DEF FindUser
    <3>3. CASE call[s].op = "verify"
      <4> DEFINE c == [call[s] EXCEPT !.pc = "otp_find", !.pw = user.pw]
      <4>1. call[s].as \in Roles
        BY <3>3, StateTyped DEF CallOK, AllOps
      <4>2. user.pw \in Passwords
        BY <1>2, <3>3, <4>1, RolesAssumption DEF FindUser, Admitted, TypeOK
      <4>3. "otp_find" \in Pcs
        BY DEF Pcs
      <4>4. c \in CallType
        BY <4>2, <4>3, StateTyped DEF CallType, Maybe
      <4>5. NextCallOK(call[s])
        BY <2>1, StateTyped, CallOKStays
      <4>6. NextCallOK(c)
        BY <3>3, <4>2, <4>5, StateTyped, StagesAre DEF NextCallOK, CallType
      <4>7. Await(s, c) /\ UNCHANGED hist
        BY <1>2, <3>3 DEF FindUser
      <4>8. QED
        BY <2>1, <4>4, <4>6, <4>7, AwaitTyped, RestTyped
    <3>4. QED
      BY <1>2, <3>1, <3>2, <3>3 DEF FindUser
  <2>3. QED
    BY <1>2, <2>1, <2>2, RestTyped, Assembled DEF FindUser, RestOK
<1>3. CASE FindForCode(s)
  <2>1. Grows
    BY <1>3, Still DEF FindForCode
  <2>2. CallsOK
    BY <1>3, <2>1, OpAt, StagesAre, ThenTyped DEF FindForCode
  <2>3. hist' \in HistType
    BY <1>3, <2>1, RestTyped, ClaimTyped DEF FindForCode
  <2>4. QED
    BY <1>3, <2>1, <2>2, <2>3, RestTyped, Assembled DEF FindForCode, RestOK
<1>4. QED
  BY <1>1, <1>2, <1>3

\* A row more, or other rows for the same number of them.
LEMMA RowsTyped ==
  ASSUME TypeOK
  PROVE  /\ Append(otps, NewOtp) \in Seq(OtpType) /\ Len(Append(otps, NewOtp)) = Len(otps) + 1
         /\ \A f \in [Rows -> OtpType] : f \in Seq(OtpType) /\ Len(f) = Len(otps)
<1>1. NewOtp \in OtpType
  BY DEF NewOtp, OtpType
<1>2. QED
  BY <1>1, StateTyped DEF TypeOK, Rows

LEMMA IssueTyped ==
  ASSUME TypeOK, NEW s \in Slots,
         CreateUser(s) \/ InvalidatePreviousOtps(s) \/ CreateOtp(s) \/ QueueOtpEmail(s)
  PROVE  TypeOK'
<1>1. CASE CreateUser(s)
  <2>1. Grows
    BY <1>1, Still DEF CreateUser
  <2>2. CallsOK
    BY <1>1, <2>1, OpAt, StagesAre, ThenTyped, ReturnTyped DEF CreateUser, At
  <2>3. hist' \in HistType
    BY <1>1, <2>1, RestTyped, ClaimTyped DEF CreateUser
  <2>4. user' \in UserType /\ (user'.role # "none" => user'.pw \in Passwords)
    <3>1. CASE UNCHANGED user
      BY <2>1, <3>1, RestTyped
    <3>2. CASE user' = [role |-> "USER", confirmed |-> FALSE, pw |-> call[s].pw, key |-> 0]
      <4>1. call[s].op = "register"
        BY <1>1, OpAt DEF CreateUser
      <4>2. call[s].pw \in Passwords
        BY <4>1, StateTyped DEF CallOK
      <4>3. QED
        BY <3>2, <4>2 DEF UserType, Maybe
    <3>3. QED
      BY <1>1, <3>1, <3>2 DEF CreateUser
  <2>5. QED
    BY <1>1, <2>1, <2>2, <2>3, <2>4, RestTyped, Assembled DEF CreateUser, RestOK
<1>2. CASE InvalidatePreviousOtps(s)
  <2>1. otps' \in [Rows -> OtpType]
    BY <1>2, StateTyped DEF InvalidatePreviousOtps, OtpType
  <2>2. Grows
    BY <1>2, <2>1, RowsTyped, StateTyped, Still DEF InvalidatePreviousOtps
  <2>3. CallsOK
    BY <1>2, <2>2, OpAt, StagesAre, ThenTyped DEF InvalidatePreviousOtps, At
  <2>4. QED
    BY <1>2, <2>2, <2>3, RestTyped, Assembled DEF InvalidatePreviousOtps, RestOK
<1>3. CASE CreateOtp(s)
  <2> DEFINE c == [call[s] EXCEPT !.pc = "mail", !.row = Len(otps) + 1]
  <2>1. Grows /\ Len(otps') = Len(otps) + 1
    BY <1>3, RowsTyped, StateTyped, Still DEF CreateOtp
  <2>2. "mail" \in Pcs /\ Len(otps) + 1 \in Nat
    BY StateTyped DEF Pcs
  <2>3. c \in CallType
    BY <2>2, StateTyped DEF CallType
  <2>4. NextCallOK(call[s])
    BY <2>1, StateTyped, CallOKStays
  <2>5. NextCallOK(c)
    BY <1>3, <2>1, <2>4, OpAt, StagesAre, StateTyped DEF CreateOtp, At, NextCallOK, Entering, CallType
  <2>6. CallsOK
    BY <1>3, <2>1, <2>3, <2>5, AwaitTyped DEF CreateOtp
  <2>7. QED
    BY <1>3, <2>1, <2>6, RestTyped, Assembled DEF CreateOtp, RestOK
<1>4. CASE QueueOtpEmail(s)
  <2>1. Grows /\ CallsOK
    BY <1>4, Still, ReturnTyped DEF QueueOtpEmail
  <2>2. mailed' \in 0 .. Len(otps')
    BY <1>4, StateTyped DEF QueueOtpEmail, At, CallOK, Rows
  <2>3. QED
    BY <1>4, <2>1, <2>2, RestTyped, Assembled DEF QueueOtpEmail, RestOK
<1>5. QED
  BY <1>1, <1>2, <1>3, <1>4

LEMMA CodeTyped ==
  ASSUME TypeOK, NEW s \in Slots, FindOtp(s) \/ ConsumeOtp(s)
  PROVE  TypeOK'
<1>1. CASE FindOtp(s)
  <2>1. Grows
    BY <1>1, Still DEF FindOtp
  <2>2. CASE Newest(call[s].code)
    <3> DEFINE c == [call[s] EXCEPT !.pc = "otp_use", !.row = call[s].code]
    <3>1. call[s].code \in 1 .. Len(otps') /\ "otp_use" \in Pcs
      BY <1>1, <2>2 DEF FindOtp, Newest, Valid, Rows, Pcs
    <3>2. c \in CallType
      BY <3>1, StateTyped DEF CallType
    <3>3. NextCallOK(call[s])
      BY <2>1, StateTyped, CallOKStays
    <3>4. NextCallOK(c)
      BY <1>1, <3>1, <3>3, OpAt, StagesAre, StateTyped DEF FindOtp, At, NextCallOK, Entering, CallType
    <3>5. CallsOK
      BY <1>1, <2>1, <2>2, <3>2, <3>4, AwaitTyped DEF FindOtp
    <3>6. hist' \in HistType
      BY SMTT(30), <1>1, <2>2, StateTyped DEF FindOtp, TypeOK, HistType, CallType
    <3>7. QED
      BY <1>1, <2>1, <3>5, <3>6, RestTyped, Assembled DEF FindOtp, RestOK
  <2>3. CASE ~Newest(call[s].code)
    <3>1. CallsOK
      BY <1>1, <2>1, <2>3, ReturnTyped DEF FindOtp
    <3>2. QED
      BY <1>1, <2>1, <2>3, <3>1, RestTyped, Assembled DEF FindOtp, RestOK
  <2>4. QED
    BY <2>2, <2>3
<1>2. CASE ConsumeOtp(s)
  <2>1. call[s].row \in Rows
    BY <1>2, StateTyped DEF ConsumeOtp, At, CallOK
  <2>2. otps' \in [Rows -> OtpType]
    BY <1>2, <2>1, StateTyped DEF ConsumeOtp, OtpType
  <2>3. Grows
    <3>1. otps' \in Seq(OtpType) /\ Len(otps') = Len(otps)
      BY <2>2, RowsTyped
    <3>2. keys' = keys \/ keys' = keys + 1
      BY <1>2 DEF ConsumeOtp, Generate
    <3>3. QED
      BY <3>1, <3>2, StateTyped DEF Grows
  <2>4. CallsOK /\ hist' \in HistType
    <3>1. CASE call[s].op = "verify"
      BY <1>2, <2>3, <3>1, GenerateTyped DEF ConsumeOtp, At
    <3>2. CASE call[s].op = "reset"
      BY <1>2, <2>3, <3>2, OpAt, StagesAre, ThenTyped, RestTyped DEF ConsumeOtp, At
    <3>3. QED
      BY <1>2, <3>1, <3>2 DEF ConsumeOtp
  <2>5. QED
    BY <1>2, <2>3, <2>4, RestTyped, Assembled DEF ConsumeOtp, RestOK
<1>3. QED
  BY <1>1, <1>2

LEMMA ExpireTyped ==
  ASSUME TypeOK, NEW r \in Rows, Expire(r)
  PROVE  TypeOK'
<1>1. otps' \in [Rows -> OtpType]
  BY StateTyped DEF Expire, OtpType
<1>2. Grows
  BY <1>1, RowsTyped, StateTyped, Still DEF Expire
<1>3. CallsOK
  BY <1>2, StateTyped, CallOKStays DEF Expire, CallsOK, TypeOK
<1>4. QED
  BY <1>2, <1>3, RestTyped, Assembled DEF Expire, RestOK

LEMMA CredentialsTyped ==
  ASSUME TypeOK, NEW s \in Slots,
         StoreKey(s) \/ CreateSession(s) \/ Answer(s) \/ StorePassword(s) \/ RevokeAllUserSessions(s)
  PROVE  TypeOK'
<1>1. CASE StoreKey(s)
  <2>1. Grows /\ CallsOK
    BY <1>1, Still, OpAt, StagesAre, ThenTyped DEF StoreKey, At
  <2>2. user' \in UserType /\ (user'.role # "none" => user'.pw \in Passwords)
    BY <1>1, StateTyped DEF StoreKey, TypeOK, UserType, CallType
  <2>3. QED
    BY <1>1, <2>1, <2>2, RestTyped, Assembled DEF StoreKey, RestOK
<1>2. CASE CreateSession(s)
  <2>1. Grows
    BY <1>2, Still DEF CreateSession
  <2>2. CallsOK
    BY <1>2, <2>1, OpAt, StagesAre, ThenTyped, ReturnTyped DEF CreateSession, At
  <2>3. sessions' \subseteq Passwords
    <3>1. Entering(call[s])
      BY <1>2, OpAt DEF CreateSession, At, Entering
    <3>2. call[s].pw \in Passwords
      BY <3>1, StateTyped DEF CallOK
    <3>3. QED
      BY <1>2, <3>2 DEF CreateSession, TypeOK
  <2>4. QED
    BY <1>2, <2>1, <2>2, <2>3, RestTyped, Assembled DEF CreateSession, RestOK
<1>3. CASE Answer(s)
  <2>1. Grows /\ CallsOK
    BY <1>3, Still, ReturnTyped DEF Answer
  <2>2. told' \in 0 .. keys'
    BY <1>3, StateTyped DEF Answer, CallOK, CallType
  <2>3. QED
    BY <1>3, <2>1, <2>2, RestTyped, Assembled DEF Answer, RestOK
<1>4. CASE StorePassword(s)
  <2>1. Grows /\ CallsOK
    BY <1>4, Still, OpAt, StagesAre, ThenTyped DEF StorePassword, At
  <2>2. call[s].op = "reset"
    BY <1>4, OpAt DEF StorePassword
  <2>3. call[s].pw \in Passwords
    BY <2>2, StateTyped DEF CallOK
  <2>4. user' \in UserType /\ (user'.role # "none" => user'.pw \in Passwords)
    BY <1>4, <2>3 DEF StorePassword, TypeOK, UserType, Maybe
  <2>5. QED
    BY <2>4, <1>4, <2>1, <2>2, RestTyped, Assembled DEF StorePassword, RestOK
<1>5. CASE RevokeAllUserSessions(s)
  <2>1. Grows /\ CallsOK
    BY <1>5, Still, ReturnTyped DEF RevokeAllUserSessions
  <2>2. hist' \in HistType
    BY <1>5, <2>1, RestTyped, ClaimTyped DEF RevokeAllUserSessions
  <2>3. QED
    BY <1>5, <2>1, <2>2, RestTyped, Assembled DEF RevokeAllUserSessions, RestOK
<1>6. QED
  BY <1>1, <1>2, <1>3, <1>4, <1>5

LEMMA FailureTyped ==
  ASSUME TypeOK, Crash \/ \E s \in Slots : Fail(s)
  PROVE  TypeOK'
<1>1. \A c : Unfinished(c) \subseteq {"key", "code", "session"}
  BY DEF Unfinished
<1>2. Grows
  BY Still DEF Crash, Fail
<1>3. hist' \in HistType
  BY <1>1 DEF TypeOK, HistType, Crash, Fail
<1>4. used' \in [calls : Nat, fails : Nat, crashes : Nat]
  BY DEF TypeOK, Crash, Fail
<1>5. CallsOK
  <2>1. CASE Crash
    <3>1. NextCallOK(NoCall)
      BY <1>2, NoCallTyped, StagesAre DEF Grows, NextCallOK, NoCall, AllOps
    <3>2. QED
      BY <2>1, <3>1, NoCallTyped DEF Crash, CallsOK
  <2>2. CASE \E s \in Slots : Fail(s)
    BY <1>2, <2>2, ReturnTyped DEF Fail
  <2>3. QED
    BY <2>1, <2>2
<1>6. QED
  BY <1>2, <1>3, <1>4, <1>5, RestTyped, Assembled DEF Crash, Fail, RestOK

LEMMA InitTyped ==
  ASSUME Init
  PROVE  TypeOK
<1>1. CallOK(NoCall)
  BY NoCallTyped, StagesAre DEF Init, CallOK, NoCall, AllOps
<1>2. user \in UserType /\ (user.role # "none" => user.pw \in Passwords)
  <2>1. CASE user = NoUser
    BY <2>1 DEF UserType, NoUser, Maybe
  <2>2. ASSUME NEW role \in Roles \ {"USER"}, NEW pw \in Passwords,
               user = [role |-> role, confirmed |-> TRUE, pw |-> pw, key |-> 0]
        PROVE  user \in UserType /\ (user.role # "none" => user.pw \in Passwords)
    BY <2>2, RolesAssumption DEF UserType, Maybe
  <2>3. QED
    BY <2>1, <2>2 DEF Init
<1>3. otps \in Seq(OtpType) /\ Len(otps) = 0
  BY EmptySeq DEF Init
<1>4. hist \in HistType
  BY DEF Init, HistType
<1>5. QED
  BY <1>1, <1>2, <1>3, <1>4, NoCallTyped DEF Init, TypeOK

LEMMA StepTyped ==
  ASSUME TypeOK, [Next]_vars
  PROVE  TypeOK'
<1>1. CASE \E s \in Slots : Requests(s)
  BY <1>1, RequestsTyped
<1>2. CASE \E s \in Slots : Queries(s)
  BY <1>2, FindTyped, IssueTyped, CodeTyped, CredentialsTyped DEF Queries
<1>3. CASE Crash \/ \E s \in Slots : Fail(s)
  BY <1>3, FailureTyped
<1>4. CASE \E r \in Rows : Expire(r)
  BY <1>4, ExpireTyped
<1>5. CASE UNCHANGED vars
  BY <1>5 DEF vars, TypeOK, Rows, CallOK, Entering
<1>6. QED
  BY <1>1, <1>2, <1>3, <1>4, <1>5 DEF Next

\* In every reachable state the variables have their types and a suspended
\* request holds what its next query uses.
THEOREM TypeCorrect == Spec => []TypeOK
BY InitTyped, StepTyped, PTL DEF Spec

-----------------------------------------------------------------------------
(* The shape of steps *)

LEMMA CallTyped ==
  ASSUME TypeOK
  PROVE  /\ call \in [Slots -> CallType]
         /\ \A s \in Slots : call[s].op = "none" <=> call[s].pc = "idle"
         /\ \A s \in Slots : call[s].op = "login" => call[s].pc \in {"find", "ses_create"}
<1>1. \A s \in Slots : call[s].pc \in Stages(call[s].op) /\ call[s].op \in {"none"} \cup AllOps
  BY StateTyped DEF CallOK, CallType
<1>2. QED
  BY <1>1, StagesAre DEF TypeOK, AllOps

\* A request that begins: it is at its first query and has generated no key.
LEMMA Begun ==
  ASSUME TypeOK, NEW s \in Slots, Requests(s)
  PROVE  /\ call[s].pc = "idle"
         /\ \E c : /\ call' = [call EXCEPT ![s] = c] /\ c.key = 0
                   /\ \/ c.pc = "find"
                      \/ c.pc = "revoke" /\ c.op = "logout" /\ user.confirmed
         /\ UNCHANGED <<user, otps, sessions, keys, mailed, told, hist>>
<1> DEFINE First(c) == c.pc = "find" \/ (c.pc = "revoke" /\ c.op = "logout" /\ user.confirmed)
<1>1. ASSUME NEW op, NEW as, NEW pw, NEW code, Ask(s, op, as, pw, code)
      PROVE  \E c : Request(s, c) /\ c.key = 0 /\ First(c)
  <2> DEFINE c == [NoCall EXCEPT !.pc = "find", !.op = op, !.as = as, !.pw = pw, !.code = code]
  <2>1. c.key = 0 /\ c.pc = "find"
    BY DEF NoCall
  <2> HIDE DEF c
  <2>2. QED
    BY <1>1, <2>1 DEF Ask, c
<1>2. ASSUME UserLogout(s) PROVE \E c : Request(s, c) /\ c.key = 0 /\ First(c)
  <2> DEFINE c == [NoCall EXCEPT !.pc = "revoke", !.op = "logout"]
  <2>1. c.key = 0 /\ c.pc = "revoke" /\ c.op = "logout"
    BY DEF NoCall
  <2> HIDE DEF c
  <2>2. QED
    BY <1>2, <2>1 DEF UserLogout, c
<1>3. \E c : Request(s, c) /\ c.key = 0 /\ First(c)
  BY <1>1, <1>2 DEF Requests, UserRegister, UserVerifyEmail, Login, ForgotPassword, ResendOtp,
                    ResetPassword, RegenerateSecretKey
<1>4. QED
  BY <1>3 DEF Request, Await, At

\* Who is admitted has an account, unless it is registering.
LEMMA AdmittedHasAccount ==
  ASSUME TypeOK, NEW s \in Slots, At(s, "find"), Admitted(call[s]), call[s].op # "register"
  PROVE  user.role = call[s].as /\ user.role \in Roles /\ user.role # "none"
<1>1. call[s].as \in Roles
  BY StateTyped, CallTyped, StagesAre DEF CallOK, At, CallType, AllOps
<1>2. QED
  BY <1>1, RolesAssumption DEF Admitted

-----------------------------------------------------------------------------
(* Before there is an account there is nothing else either *)

NoAccount ==
  user.role = "none" =>
    /\ ~user.confirmed /\ sessions = {} /\ otps = <<>> /\ told = 0
    /\ \A s \in Slots : call[s].pc \in {"idle", "find", "create"}

LEMMA NoAccountInit ==
  ASSUME Init
  PROVE  NoAccount
BY RolesAssumption DEF Init, NoAccount, NoUser, NoCall

LEMMA NoAccountStep ==
  ASSUME TypeOK, NoAccount, [Next]_vars
  PROVE  NoAccount'
<1> SUFFICES ASSUME user'.role = "none" PROVE NoAccount'
  BY DEF NoAccount
<1>1. ASSUME NEW s \in Slots, Requests(s) PROVE NoAccount'
  BY <1>1, Begun, CallTyped DEF NoAccount
<1>2. ASSUME NEW s \in Slots, Refuse(s) \/ Fail(s) PROVE NoAccount'
  BY <1>2, CallTyped DEF NoAccount, Refuse, Fail, Return, Await, NoCall
<1>3. ASSUME NEW s \in Slots, FindUser(s) PROVE NoAccount'
  <2>1. call[s].op = "register" /\ call' = [call EXCEPT ![s] = [call[s] EXCEPT !.pc = "create"]]
    BY <1>3, AdmittedHasAccount DEF FindUser, Then, Await
  <2>2. QED
    BY <1>3, <2>1, CallTyped DEF NoAccount, FindUser, CallType
<1>4. ASSUME NEW s \in Slots, FindForCode(s) PROVE NoAccount'
  BY <1>4, AdmittedHasAccount DEF FindForCode
<1>5. ASSUME NEW s \in Slots, CreateUser(s) PROVE NoAccount'
  <2>1. CASE user.role = "none"
    BY <1>5, <2>1 DEF CreateUser
  <2>2. CASE user.role # "none"
    BY <1>5, <2>2 DEF CreateUser
  <2>3. QED
    BY <2>1, <2>2
<1>6. ASSUME NEW s \in Slots,
             \/ InvalidatePreviousOtps(s) \/ CreateOtp(s) \/ QueueOtpEmail(s) \/ FindOtp(s)
             \/ ConsumeOtp(s) \/ CreateSession(s) \/ Answer(s) \/ RevokeAllUserSessions(s)
      PROVE  NoAccount'
  BY <1>6 DEF NoAccount, At, InvalidatePreviousOtps, CreateOtp, QueueOtpEmail, FindOtp,
              ConsumeOtp, CreateSession, Answer, RevokeAllUserSessions
<1>7. ASSUME NEW s \in Slots, StoreKey(s) \/ StorePassword(s) PROVE NoAccount'
  BY <1>7 DEF NoAccount, At, StoreKey, StorePassword, TypeOK, UserType
<1>8. ASSUME Crash PROVE NoAccount'
  BY <1>8 DEF NoAccount, Crash, NoCall
<1>9. ASSUME NEW r \in Rows, Expire(r) PROVE NoAccount'
  BY <1>9, EmptySeq DEF NoAccount, Expire, Rows
<1>10. ASSUME UNCHANGED vars PROVE NoAccount'
  BY <1>10 DEF NoAccount, vars
<1>11. QED
  BY <1>1, <1>2, <1>3, <1>4, <1>5, <1>6, <1>7, <1>8, <1>9, <1>10 DEF Next, Queries

\* What a step leaves alone of the calls: all but one.
Moved(s, c) == call' = [call EXCEPT ![s] = c]

\* The same concerns have raced.
SameRaces(concern) == concern \in hist'.raced <=> concern \in hist.raced

LEMMA Claimed ==
  ASSUME TypeOK, NEW concern, NEW alone, Claim(concern, alone)
  PROVE  /\ \A x : x # concern => SameRaces(x)
         /\ concern \in hist'.raced <=> ~alone
BY DEF Claim, SameRaces, TypeOK, HistType

-----------------------------------------------------------------------------
(* Sessions *)

SessionInv ==
  Clear("session") /\ (\A s \in Slots : ~Resetting(call[s])) =>
    /\ sessions \subseteq {user.pw}
    /\ \A s \in Slots : Entering(call[s]) => call[s].pw = user.pw

\* A step that is not about sessions; it may become a reset about to revoke.
LEMMA SessionQuiet ==
  ASSUME TypeOK, SessionInv, NEW s \in Slots, NEW c, Moved(s, c), ~Resetting(call[s]),
         UNCHANGED sessions, user'.pw = user.pw, SameRaces("session"),
         Entering(c) => c.pw = user.pw \/ (Entering(call[s]) /\ c.pw = call[s].pw)
  PROVE  SessionInv'
BY CallTyped DEF SessionInv, Moved, Clear, SameRaces

LEMMA SessionInit ==
  ASSUME Init
  PROVE  SessionInv
BY DEF Init, SessionInv, Entering, NoCall

LEMMA SessionFind ==
  ASSUME TypeOK, SessionInv, NEW s \in Slots, Refuse(s) \/ FindUser(s) \/ FindForCode(s)
  PROVE  SessionInv'
<1>1. At(s, "find") /\ ~Resetting(call[s])
  BY DEF Refuse, FindUser, FindForCode, At, Resetting
<1>2. CASE Refuse(s)
  BY <1>1, <1>2, SessionQuiet DEF Refuse, Return, Await, Moved, NoCall, Entering, SameRaces
<1>3. CASE FindForCode(s)
  <2>1. \E pc \in {"inv", "otp_create"} : Moved(s, [call[s] EXCEPT !.pc = pc])
    BY <1>3 DEF FindForCode, Then, Await, Moved
  <2>2. PICK pc \in {"inv", "otp_create"} : Moved(s, [call[s] EXCEPT !.pc = pc])
    BY <2>1
  <2>3. SameRaces("session")
    <3>1. CASE UNCHANGED hist
      BY <3>1 DEF SameRaces
    <3>2. CASE \E alone : Claim("code", alone)
      BY <3>2, Claimed
    <3>3. QED
      BY <1>3, <3>1, <3>2 DEF FindForCode
  <2>4. ~Entering([call[s] EXCEPT !.pc = pc])
    BY <1>3, CallTyped DEF FindForCode, Entering, CallType
  <2>5. QED
    BY <1>1, <1>3, <2>2, <2>3, <2>4, SessionQuiet DEF FindForCode
<1>4. CASE FindUser(s)
  <2>1. CASE call[s].op \in {"register", "reset"}
    <3>1. PICK pc \in {"create", "otp_find"} : Moved(s, [call[s] EXCEPT !.pc = pc])
      BY <1>4, <2>1 DEF FindUser, Then, Await, Moved
    <3>2. ~Entering([call[s] EXCEPT !.pc = pc])
      BY <2>1, CallTyped DEF Entering, CallType
    <3>3. QED
      BY <1>1, <1>4, <2>1, <3>1, <3>2, SessionQuiet DEF FindUser, SameRaces
  <2>2. CASE call[s].op = "login"
    <3> DEFINE c == [call[s] EXCEPT !.pc = "ses_create"]
    <3>1. Moved(s, c) /\ UNCHANGED hist
      BY <1>4, <2>2 DEF FindUser, Then, Await, Moved
    <3>2. c.pw = user.pw
      BY <1>4, <2>2, CallTyped DEF FindUser, Admitted, CallType
    <3>3. QED
      BY <1>1, <1>4, <3>1, <3>2, SessionQuiet DEF FindUser, SameRaces
  <2>3. CASE call[s].op = "verify"
    <3> DEFINE c == [call[s] EXCEPT !.pc = "otp_find", !.pw = user.pw]
    <3>1. Moved(s, c) /\ UNCHANGED hist
      BY <1>4, <2>3 DEF FindUser, Await, Moved
    <3>2. c.pw = user.pw
      BY CallTyped DEF CallType
    <3>3. QED
      BY <1>1, <1>4, <3>1, <3>2, SessionQuiet DEF FindUser, SameRaces
  <2>4. CASE call[s].op = "regenerate"
    <3> DEFINE c == [call[s] EXCEPT !.pc = "key_update", !.key = keys + 1]
    <3>1. Moved(s, c) /\ Claim("key", \A d \in Others(s) : ~Keyed(d))
      BY <1>4, <2>4 DEF FindUser, Generate, Await, Moved
    <3>2. ~Entering(c) /\ SameRaces("session")
      BY <2>4, <3>1, Claimed, CallTyped DEF Entering, CallType
    <3>3. QED
      BY <1>1, <1>4, <3>1, <3>2, SessionQuiet DEF FindUser
  <2>5. QED
    BY <1>4, <2>1, <2>2, <2>3, <2>4 DEF FindUser
<1>5. QED
  BY <1>2, <1>3, <1>4

\* A step that only takes a request to its next query, or generates a key.
LEMMA SessionOnward ==
  ASSUME TypeOK, SessionInv, NEW s \in Slots, ~At(s, "find"), ~At(s, "revoke"), ~At(s, "idle"),
         ~At(s, "answer"),
         NEW pc, Then(s, pc) \/ Return(s) \/ Generate(s)
                 \/ \E r : Await(s, [call[s] EXCEPT !.pc = pc, !.row = r]),
         SameRaces("session"), UNCHANGED sessions, user'.pw = user.pw
  PROVE  SessionInv'
<1>1. ~Resetting(call[s])
  BY DEF At, Resetting
<1>2. \A c : Moved(s, c) /\ (Entering(c) => c.op = call[s].op /\ c.pw = call[s].pw) => SessionInv'
  BY <1>1, SessionQuiet DEF Entering, At
<1>3. CASE Then(s, pc)
  <2> DEFINE c == [call[s] EXCEPT !.pc = pc]
  <2>1. Moved(s, c) /\ c.op = call[s].op /\ c.pw = call[s].pw
    BY <1>3, CallTyped DEF Then, Await, Moved, CallType
  <2>2. QED
    BY <1>2, <2>1
<1>4. CASE Return(s)
  <2>1. Moved(s, NoCall) /\ ~Entering(NoCall)
    BY <1>4 DEF Return, Await, Moved, NoCall, Entering
  <2>2. QED
    BY <1>2, <2>1
<1>5. CASE Generate(s)
  <2> DEFINE c == [call[s] EXCEPT !.pc = "key_update", !.key = keys + 1]
  <2>1. Moved(s, c) /\ c.op = call[s].op /\ c.pw = call[s].pw
    <3>1. call[s] \in CallType
      BY StateTyped
    <3>2. c.op = call[s].op /\ c.pw = call[s].pw
      BY <3>1 DEF CallType
    <3>3. QED
      BY <1>5, <3>2 DEF Generate, Await, Moved
  <2>2. QED
    BY <1>2, <2>1
<1>6. ASSUME NEW r, Await(s, [call[s] EXCEPT !.pc = pc, !.row = r]) PROVE SessionInv'
  <2> DEFINE c == [call[s] EXCEPT !.pc = pc, !.row = r]
  <2>1. Moved(s, c) /\ c.op = call[s].op /\ c.pw = call[s].pw
    <3>1. call[s] \in CallType
      BY StateTyped
    <3>2. c.op = call[s].op /\ c.pw = call[s].pw
      BY <3>1 DEF CallType
    <3>3. QED
      BY <1>6, <3>2 DEF Await, Moved
  <2>2. QED
    BY <1>2, <2>1
<1>7. QED
  BY <1>3, <1>4, <1>5, <1>6

LEMMA SessionStep ==
  ASSUME TypeOK, NoAccount, SessionInv, [Next]_vars
  PROVE  SessionInv'
<1>1. ASSUME NEW s \in Slots, Requests(s) PROVE SessionInv'
  <2>1. PICK c : /\ Moved(s, c) /\ c.key = 0
                 /\ c.pc = "find" \/ (c.pc = "revoke" /\ c.op = "logout")
    BY <1>1, Begun DEF Moved
  <2>2. ~Resetting(call[s]) /\ ~Entering(c)
    BY <1>1, <2>1, Begun DEF Resetting, Entering
  <2>3. QED
    BY <1>1, <2>1, <2>2, Begun, SessionQuiet DEF SameRaces
<1>2. ASSUME NEW s \in Slots, Refuse(s) \/ FindUser(s) \/ FindForCode(s) PROVE SessionInv'
  BY <1>2, SessionFind
<1>3. ASSUME NEW s \in Slots, CreateUser(s) PROVE SessionInv'
  <2>1. CASE user.role = "none"
    <3>0. \A t \in Slots : ~Entering(call[t])
      BY <2>1, OpAt DEF NoAccount, Entering, At
    <3>1. sessions' = {} /\ \A t \in Slots \ {s} : ~Entering(call'[t])
      BY <1>3, <2>1, <3>0, CallTyped DEF CreateUser, NoAccount, Then, Await
    <3>2. ~Entering(call'[s])
      BY <1>3, <2>1, OpAt, CallTyped DEF CreateUser, Then, Await, Entering, CallType
    <3>3. QED
      BY <3>1, <3>2 DEF SessionInv
  <2>2. CASE user.role # "none"
    BY <1>3, <2>2, SessionOnward DEF CreateUser, At, SameRaces
  <2>3. QED
    BY <2>1, <2>2
<1>4. ASSUME NEW s \in Slots, InvalidatePreviousOtps(s) \/ CreateOtp(s) \/ QueueOtpEmail(s)
      PROVE  SessionInv'
  BY <1>4, SessionOnward DEF InvalidatePreviousOtps, CreateOtp, QueueOtpEmail, At, SameRaces
<1>5. ASSUME NEW s \in Slots, FindOtp(s) PROVE SessionInv'
  <2>1. SameRaces("session")
    BY <1>5 DEF FindOtp, SameRaces, TypeOK, HistType
  <2>2. QED
    BY <1>5, <2>1, SessionOnward DEF FindOtp, At
<1>6. ASSUME NEW s \in Slots, ConsumeOtp(s) PROVE SessionInv'
  <2>1. SameRaces("session")
    <3>1. CASE UNCHANGED hist
      BY <3>1 DEF SameRaces
    <3>2. CASE Generate(s)
      BY <3>2 DEF Generate, Claim, SameRaces, TypeOK, HistType
    <3>3. QED
      BY <1>6, <3>1, <3>2 DEF ConsumeOtp
  <2>2. QED
    BY <1>6, <2>1, SessionOnward DEF ConsumeOtp, At
<1>7. ASSUME NEW s \in Slots, StoreKey(s) PROVE SessionInv'
  <2>1. user'.pw = user.pw
    BY <1>7 DEF StoreKey, TypeOK, UserType
  <2>2. QED
    BY <1>7, <2>1, SessionOnward DEF StoreKey, At, SameRaces
<1>8. ASSUME NEW s \in Slots, CreateSession(s) PROVE SessionInv'
  <2>1. Entering(call[s]) /\ ~Resetting(call[s])
    BY <1>8, OpAt DEF CreateSession, At, Entering, Resetting
  <2>2. PICK c : Moved(s, c) /\ ~Entering(c)
    <3>1. ~Entering([call[s] EXCEPT !.pc = "answer"]) /\ ~Entering(NoCall)
      BY CallTyped DEF Entering, CallType, NoCall
    <3>2. QED
      BY <1>8, <3>1 DEF CreateSession, Then, Return, Await, Moved
  <2>3. QED
    BY <1>8, <2>1, <2>2, CallTyped DEF CreateSession, SessionInv, Moved, Clear
<1>9. ASSUME NEW s \in Slots, Answer(s) PROVE SessionInv'
  <2>1. ~Resetting(call[s])
    BY <1>9 DEF Answer, At, Resetting
  <2>2. QED
    BY <1>9, <2>1, SessionQuiet DEF Answer, Return, Await, Moved, NoCall, Entering, SameRaces
<1>10. ASSUME NEW s \in Slots, StorePassword(s) PROVE SessionInv'
  <2>1. Resetting(call'[s])
    BY <1>10, OpAt, CallTyped DEF StorePassword, Then, Await, Resetting, CallType
  <2>2. QED
    BY <2>1 DEF SessionInv
<1>11. ASSUME NEW s \in Slots, RevokeAllUserSessions(s) PROVE SessionInv'
  <2>1. Moved(s, NoCall) /\ ~Entering(NoCall) /\ ~Resetting(NoCall)
    BY <1>11 DEF RevokeAllUserSessions, Return, Await, Moved, NoCall, Entering, Resetting
  <2>2. CASE call[s].op = "reset"
    <3>1. CASE \A d \in Others(s) : ~Entering(d)
      <4>1. \A t \in Slots : ~Entering(call'[t])
        BY <2>1, <3>1, CallTyped DEF Others, Moved
      <4>2. QED
        BY <1>11, <4>1 DEF RevokeAllUserSessions, SessionInv
    <3>2. CASE ~\A d \in Others(s) : ~Entering(d)
      <4>1. "session" \in hist'.raced
        BY <1>11, <2>2, <3>2, Claimed DEF RevokeAllUserSessions
      <4>2. QED
        BY <4>1 DEF SessionInv, Clear
    <3>3. QED
      BY <3>1, <3>2
  <2>3. CASE call[s].op # "reset"
    <3>1. ~Resetting(call[s])
      BY <2>3 DEF Resetting
    <3>2. QED
      BY <1>11, <2>1, <2>3, <3>1, CallTyped DEF RevokeAllUserSessions, SessionInv, Moved, Clear
  <2>4. QED
    BY <2>2, <2>3
<1>12. ASSUME NEW s \in Slots, Fail(s) PROVE SessionInv'
  <2>1. Moved(s, NoCall) /\ ~Entering(NoCall) /\ ~Resetting(NoCall)
    BY <1>12 DEF Fail, Return, Await, Moved, NoCall, Entering, Resetting
  <2>2. hist'.raced = hist.raced \cup Unfinished(call[s])
    BY <1>12 DEF Fail, TypeOK, HistType
  <2>3. CASE Resetting(call[s])
    BY <2>2, <2>3 DEF Unfinished, SessionInv, Clear
  <2>4. CASE ~Resetting(call[s])
    BY <1>12, <2>1, <2>2, <2>4, CallTyped DEF Fail, SessionInv, Moved, Clear
  <2>5. QED
    BY <2>3, <2>4
<1>13. ASSUME Crash PROVE SessionInv'
  <2>1. hist'.raced = hist.raced \cup UNION {Unfinished(call[s]) : s \in Slots}
    BY <1>13 DEF Crash, TypeOK, HistType
  <2>2. CASE \E s \in Slots : Resetting(call[s])
    BY <2>1, <2>2 DEF Unfinished, SessionInv, Clear
  <2>3. CASE \A s \in Slots : ~Resetting(call[s])
    BY <1>13, <2>1, <2>3 DEF Crash, SessionInv, Clear, NoCall, Entering
  <2>4. QED
    BY <2>2, <2>3
<1>14. ASSUME NEW r \in Rows, Expire(r) PROVE SessionInv'
  BY <1>14 DEF Expire, SessionInv, Clear
<1>15. ASSUME UNCHANGED vars PROVE SessionInv'
  BY <1>15 DEF vars, SessionInv, Clear
<1>16. QED
  BY <1>1, <1>2, <1>3, <1>4, <1>5, <1>6, <1>7, <1>8, <1>9, <1>10, <1>11, <1>12, <1>13, <1>14,
     <1>15 DEF Next, Queries

-----------------------------------------------------------------------------
(* The secret key *)

\* A request has a key between generating it and telling it.
KeyStage(c) == c.pc \in {"key_update", "answer"} \/ (c.pc = "ses_create" /\ c.op = "verify")

KeyInv ==
  /\ \A s \in Slots : Keyed(call[s]) <=> KeyStage(call[s])
  /\ Clear("key") =>
       /\ \A s, t \in Slots : Keyed(call[s]) /\ Keyed(call[t]) => s = t
       /\ \A s \in Slots : Keyed(call[s]) /\ ~At(s, "key_update") => user.key = call[s].key
       /\ told # 0 /\ (\A s \in Slots : ~Keyed(call[s])) => user.key = told

LEMMA KeyInit ==
  ASSUME Init
  PROVE  KeyInv
BY DEF Init, KeyInv, Keyed, KeyStage, NoCall

LEMMA KeyQuiet ==
  ASSUME TypeOK, KeyInv, NEW s \in Slots, NEW c, Moved(s, c), ~KeyStage(call[s]),
         ~KeyStage(c), ~Keyed(c), SameRaces("key"), UNCHANGED told, user'.key = user.key
  PROVE  KeyInv'
<1>1. ~Keyed(call[s]) /\ call'[s] = c /\ \A t \in Slots \ {s} : call'[t] = call[t]
  BY CallTyped DEF KeyInv, Moved
<1>2. QED
  BY <1>1 DEF KeyInv, Clear, SameRaces, At

\* A request goes on without a key, or fails without one.
LEMMA KeyOnward ==
  ASSUME TypeOK, KeyInv, NEW s \in Slots, ~KeyStage(call[s]),
         NEW pc \in {"create", "inv", "otp_create", "mail", "otp_find", "otp_use", "pw_update", "revoke"},
         \/ Then(s, pc)
         \/ Return(s)
         \/ \E r : Await(s, [call[s] EXCEPT !.pc = pc, !.row = r]),
         SameRaces("key"), UNCHANGED told, user'.key = user.key
  PROVE  KeyInv'
<1>0. call[s] \in CallType /\ ~Keyed(call[s])
  BY StateTyped DEF KeyInv
<1>1. CASE Then(s, pc)
  <2> DEFINE c == [call[s] EXCEPT !.pc = pc]
  <2>1. Moved(s, c)
    BY <1>1 DEF Then, Await, Moved
  <2>2. ~KeyStage(c) /\ ~Keyed(c)
    BY <1>0 DEF KeyStage, Keyed, CallType
  <2>3. QED
    BY <2>1, <2>2, KeyQuiet
<1>2. CASE Return(s)
  <2>1. Moved(s, NoCall)
    BY <1>2 DEF Return, Await, Moved
  <2>2. ~KeyStage(NoCall) /\ ~Keyed(NoCall)
    BY DEF KeyStage, Keyed, NoCall
  <2>3. QED
    BY <2>1, <2>2, KeyQuiet
<1>3. ASSUME NEW r, Await(s, [call[s] EXCEPT !.pc = pc, !.row = r]) PROVE KeyInv'
  <2> DEFINE c == [call[s] EXCEPT !.pc = pc, !.row = r]
  <2>1. Moved(s, c)
    BY <1>3 DEF Await, Moved
  <2>2. ~KeyStage(c) /\ ~Keyed(c)
    BY <1>0 DEF KeyStage, Keyed, CallType
  <2>3. QED
    BY <2>1, <2>2, KeyQuiet
<1>4. QED
  BY <1>1, <1>2, <1>3

LEMMA KeyGenerated ==
  ASSUME TypeOK, KeyInv, NEW s \in Slots, ~KeyStage(call[s]), Generate(s)
  PROVE  KeyInv'
<1> DEFINE c == [call[s] EXCEPT !.pc = "key_update", !.key = keys + 1]
<1>1. Moved(s, c)
  BY DEF Generate, Await, Moved
<1>2. c.pc = "key_update" /\ Keyed(c)
  BY StateTyped DEF CallType, Keyed
<1>3. call'[s] = c /\ \A t \in Slots \ {s} : call'[t] = call[t]
  BY <1>1, CallTyped DEF Moved
<1> HIDE DEF c
<1>4. CASE \A d \in Others(s) : ~Keyed(d)
  <2>1. \A t \in Slots \ {s} : ~Keyed(call[t])
    BY <1>4 DEF Others
  <2>2. QED
    BY <1>2, <1>3, <2>1 DEF KeyInv, KeyStage, At
<1>5. CASE ~\A d \in Others(s) : ~Keyed(d)
  <2>1. ~Clear("key")'
    BY <1>5 DEF Generate, Claim, Clear, TypeOK, HistType
  <2>2. QED
    BY <1>2, <1>3, <2>1 DEF KeyInv, KeyStage
<1>6. QED
  BY <1>4, <1>5

LEMMA KeyStep ==
  ASSUME TypeOK, NoAccount, KeyInv, [Next]_vars
  PROVE  KeyInv'
<1>1. ASSUME NEW s \in Slots, Requests(s) PROVE KeyInv'
  <2>1. PICK c : /\ Moved(s, c) /\ c.key = 0
                 /\ c.pc = "find" \/ (c.pc = "revoke" /\ c.op = "logout")
    BY <1>1, Begun DEF Moved
  <2>2. ~KeyStage(call[s]) /\ ~KeyStage(c) /\ ~Keyed(c)
    BY <1>1, <2>1, Begun DEF KeyStage, Keyed
  <2>3. QED
    BY <1>1, <2>1, <2>2, Begun, KeyQuiet DEF SameRaces
<1>2. ASSUME NEW s \in Slots, Refuse(s) PROVE KeyInv'
  BY <1>2, KeyOnward DEF Refuse, At, KeyStage, SameRaces
<1>3. ASSUME NEW s \in Slots, FindUser(s) PROVE KeyInv'
  <2>1. ~KeyStage(call[s]) /\ call[s] \in CallType
    BY <1>3, StateTyped DEF FindUser, At, KeyStage
  <2>2. ~Keyed(call[s])
    BY <2>1 DEF KeyInv
  <2>3. CASE call[s].op \in {"register", "reset"}
    BY <1>3, <2>1, <2>3, KeyOnward DEF FindUser, SameRaces
  <2>4. CASE call[s].op = "login"
    <3> DEFINE c == [call[s] EXCEPT !.pc = "ses_create"]
    <3>1. Moved(s, c) /\ UNCHANGED hist
      BY <1>3, <2>4 DEF FindUser, Then, Await, Moved
    <3>2. ~KeyStage(c) /\ ~Keyed(c)
      BY <2>1, <2>2, <2>4 DEF KeyStage, Keyed, CallType
    <3>3. QED
      BY <1>3, <2>1, <3>1, <3>2, KeyQuiet DEF FindUser, SameRaces
  <2>5. CASE call[s].op = "verify"
    <3> DEFINE c == [call[s] EXCEPT !.pc = "otp_find", !.pw = user.pw]
    <3>1. Moved(s, c) /\ UNCHANGED hist
      BY <1>3, <2>5 DEF FindUser, Await, Moved
    <3>2. ~KeyStage(c) /\ ~Keyed(c)
      BY <2>1, <2>2, <2>5 DEF KeyStage, Keyed, CallType
    <3>3. QED
      BY <1>3, <2>1, <3>1, <3>2, KeyQuiet DEF FindUser, SameRaces
  <2>6. CASE call[s].op = "regenerate"
    BY <1>3, <2>1, <2>6, KeyGenerated DEF FindUser
  <2>7. QED
    BY <1>3, <2>3, <2>4, <2>5, <2>6 DEF FindUser
<1>4. ASSUME NEW s \in Slots, FindForCode(s) PROVE KeyInv'
  <2>1. SameRaces("key")
    <3>1. CASE UNCHANGED hist
      BY <3>1 DEF SameRaces
    <3>2. CASE \E alone : Claim("code", alone)
      BY <3>2, Claimed
    <3>3. QED
      BY <1>4, <3>1, <3>2 DEF FindForCode
  <2>2. QED
    BY <1>4, <2>1, KeyOnward DEF FindForCode, At, KeyStage
<1>5. ASSUME NEW s \in Slots, CreateUser(s) PROVE KeyInv'
  <2>1. ~KeyStage(call[s]) /\ call[s] \in CallType
    BY <1>5, StateTyped DEF CreateUser, At, KeyStage
  <2>2. CASE user.role = "none"
    <3> DEFINE c == [call[s] EXCEPT !.pc = "otp_create"]
    <3>1. told' = 0 /\ \A t \in Slots : ~KeyStage(call[t])
      BY <1>5, <2>2, OpAt DEF CreateUser, NoAccount, KeyStage, At
    <3>2. Moved(s, c) /\ ~KeyStage(c)
      BY <1>5, <2>1, <2>2 DEF CreateUser, Then, Await, Moved, KeyStage, CallType
    <3>3. c.key = call[s].key
      BY <2>1 DEF CallType
    <3> HIDE DEF c
    <3>4. \A t \in Slots : ~KeyStage(call'[t]) /\ ~Keyed(call'[t])
      BY <3>1, <3>2, <3>3, CallTyped DEF Moved, KeyInv, Keyed
    <3>5. QED
      BY <3>1, <3>4 DEF KeyInv
  <2>3. CASE user.role # "none"
    BY <1>5, <2>1, <2>3, KeyOnward DEF CreateUser, SameRaces
  <2>4. QED
    BY <2>2, <2>3
<1>6. ASSUME NEW s \in Slots, InvalidatePreviousOtps(s) \/ CreateOtp(s) \/ QueueOtpEmail(s)
      PROVE  KeyInv'
  <2>1. ~KeyStage(call[s])
    BY <1>6 DEF InvalidatePreviousOtps, CreateOtp, QueueOtpEmail, At, KeyStage
  <2>2. QED
    BY <1>6, <2>1, KeyOnward DEF InvalidatePreviousOtps, CreateOtp, QueueOtpEmail, SameRaces
<1>7. ASSUME NEW s \in Slots, FindOtp(s) PROVE KeyInv'
  <2>1. SameRaces("key") /\ ~KeyStage(call[s])
    BY <1>7 DEF FindOtp, SameRaces, TypeOK, HistType, At, KeyStage
  <2>2. QED
    BY <1>7, <2>1, KeyOnward DEF FindOtp
<1>8. ASSUME NEW s \in Slots, ConsumeOtp(s) PROVE KeyInv'
  <2>1. ~KeyStage(call[s])
    BY <1>8 DEF ConsumeOtp, At, KeyStage
  <2>2. CASE Generate(s)
    BY <2>1, <2>2, KeyGenerated
  <2>3. CASE ~Generate(s)
    BY <1>8, <2>1, <2>3, KeyOnward DEF ConsumeOtp, SameRaces
  <2>4. QED
    BY <2>2, <2>3
<1>9. ASSUME NEW s \in Slots, StoreKey(s) PROVE KeyInv'
  <2>1. PICK pc \in {"ses_create", "answer"} :
             Moved(s, [call[s] EXCEPT !.pc = pc]) /\ (pc = "ses_create" => call[s].op = "verify")
    BY <1>9 DEF StoreKey, Then, Await, Moved
  <2> DEFINE c == [call[s] EXCEPT !.pc = pc]
  <2>2. c.key = call[s].key /\ c.pc = pc /\ c.op = call[s].op
    BY StateTyped DEF CallType
  <2>3. call'[s] = c /\ \A t \in Slots \ {s} : call'[t] = call[t]
    BY <2>1, CallTyped DEF Moved
  <2> HIDE DEF c
  <2>4. Keyed(call[s]) /\ Keyed(c) /\ KeyStage(c)
    BY <1>9, <2>1, <2>2 DEF StoreKey, At, KeyStage, KeyInv, Keyed
  <2>5. user'.key = c.key /\ UNCHANGED <<told, hist>>
    BY <1>9, <2>2 DEF StoreKey, TypeOK, UserType
  <2>6. QED
    BY <2>3, <2>4, <2>5 DEF KeyInv, Clear
<1>10. ASSUME NEW s \in Slots, CreateSession(s) PROVE KeyInv'
  <2>1. CASE call[s].op = "verify"
    <3> DEFINE c == [call[s] EXCEPT !.pc = "answer"]
    <3>1. c.key = call[s].key /\ c.pc = "answer"
      BY StateTyped DEF CallType
    <3>2. call'[s] = c /\ \A t \in Slots \ {s} : call'[t] = call[t]
      BY <1>10, <2>1, CallTyped DEF CreateSession, Then, Await
    <3> HIDE DEF c
    <3>3. Keyed(call[s]) /\ Keyed(c) /\ KeyStage(c)
      BY <1>10, <2>1, <3>1 DEF CreateSession, At, KeyStage, KeyInv, Keyed
    <3>4. QED
      BY <1>10, <3>1, <3>2, <3>3 DEF CreateSession, At, KeyInv, Clear
  <2>2. CASE call[s].op # "verify"
    <3>1. ~KeyStage(call[s])
      BY <1>10, <2>2 DEF CreateSession, At, KeyStage
    <3>2. QED
      BY <1>10, <2>2, <3>1, KeyOnward DEF CreateSession, SameRaces
  <2>3. QED
    BY <2>1, <2>2
<1>11. ASSUME NEW s \in Slots, Answer(s) PROVE KeyInv'
  <2>1. Keyed(call[s]) /\ ~At(s, "key_update")
    BY <1>11 DEF Answer, At, KeyStage, KeyInv
  <2>2. call'[s] = NoCall /\ \A t \in Slots \ {s} : call'[t] = call[t]
    BY <1>11, CallTyped DEF Answer, Return, Await
  <2>3. ~Keyed(NoCall) /\ ~KeyStage(NoCall)
    BY DEF Keyed, KeyStage, NoCall
  <2>4. QED
    BY <1>11, <2>1, <2>2, <2>3 DEF Answer, KeyInv, Clear, At
<1>12. ASSUME NEW s \in Slots, StorePassword(s) PROVE KeyInv'
  <2>1. user'.key = user.key /\ ~KeyStage(call[s])
    BY <1>12 DEF StorePassword, TypeOK, UserType, At, KeyStage
  <2>2. QED
    BY <1>12, <2>1, KeyOnward DEF StorePassword, SameRaces
<1>13. ASSUME NEW s \in Slots, RevokeAllUserSessions(s) PROVE KeyInv'
  <2>1. SameRaces("key") /\ ~KeyStage(call[s])
    BY <1>13 DEF RevokeAllUserSessions, Claim, SameRaces, TypeOK, HistType, At, KeyStage
  <2>2. QED
    BY <1>13, <2>1, KeyOnward DEF RevokeAllUserSessions
<1>14. ASSUME NEW s \in Slots, Fail(s) PROVE KeyInv'
  <2>1. call'[s] = NoCall /\ \A t \in Slots \ {s} : call'[t] = call[t]
    BY <1>14, CallTyped DEF Fail, Return, Await
  <2>2. hist'.raced = hist.raced \cup Unfinished(call[s])
    BY <1>14 DEF Fail, TypeOK, HistType
  <2>3. ~Keyed(NoCall) /\ ~KeyStage(NoCall)
    BY DEF Keyed, KeyStage, NoCall
  <2>4. CASE Keyed(call[s])
    <3>1. ~Clear("key")'
      BY <2>2, <2>4 DEF Unfinished, Clear
    <3>2. QED
      BY <2>1, <2>3, <3>1 DEF KeyInv
  <2>5. CASE ~Keyed(call[s])
    BY <1>14, <2>1, <2>2, <2>3, <2>5 DEF Fail, KeyInv, Clear, At
  <2>6. QED
    BY <2>4, <2>5
<1>15. ASSUME Crash PROVE KeyInv'
  <2>1. hist'.raced = hist.raced \cup UNION {Unfinished(call[s]) : s \in Slots}
    BY <1>15 DEF Crash, TypeOK, HistType
  <2>2. \A s \in Slots : ~Keyed(call'[s]) /\ ~KeyStage(call'[s])
    BY <1>15 DEF Crash, Keyed, KeyStage, NoCall
  <2>3. CASE \E s \in Slots : Keyed(call[s])
    <3>1. ~Clear("key")'
      BY <2>1, <2>3 DEF Unfinished, Clear
    <3>2. QED
      BY <2>2, <3>1 DEF KeyInv
  <2>4. CASE \A s \in Slots : ~Keyed(call[s])
    BY <1>15, <2>1, <2>2, <2>4 DEF Crash, KeyInv, Clear
  <2>5. QED
    BY <2>3, <2>4
<1>16. ASSUME NEW r \in Rows, Expire(r) PROVE KeyInv'
  BY <1>16 DEF Expire, KeyInv, Clear, At
<1>17. ASSUME UNCHANGED vars PROVE KeyInv'
  BY <1>17 DEF vars, KeyInv, Clear, At
<1>18. QED
  BY <1>1, <1>2, <1>3, <1>4, <1>5, <1>6, <1>7, <1>8, <1>9, <1>10, <1>11, <1>12, <1>13, <1>14,
     <1>15, <1>16, <1>17 DEF Next, Queries

-----------------------------------------------------------------------------
(* Accepting a code *)

\* A row that a request is about to consume.
Read(s, r) == At(s, "otp_use") /\ call[s].row = r

OnceInv ==
  \A r \in Rows \ hist.shared :
    /\ otps[r].times <= 1 /\ (~otps[r].used => otps[r].times = 0)
    /\ \A s \in Slots : Read(s, r) => otps[r].times = 0
    /\ \A s, t \in Slots : Read(s, r) /\ Read(t, r) => s = t

LEMMA OnceInit ==
  ASSUME Init
  PROVE  OnceInv
BY EmptySeq DEF Init, OnceInv, Rows

\* A step that lets no further request read a row: the rows there are keep
\* how often they were accepted, and stay used.
LEMMA OnceQuiet ==
  ASSUME TypeOK, OnceInv,
         \A r \in Rows' : \/ /\ r \in Rows /\ otps'[r].times = otps[r].times
                             /\ otps[r].used => otps'[r].used
                          \/ /\ otps'[r].times = 0
                             /\ \A s \in Slots : ~Read(s, r),
         \A s \in Slots : At(s, "otp_use")' => At(s, "otp_use") /\ call'[s].row = call[s].row,
         hist'.shared = hist.shared
  PROVE  OnceInv'
<1> SUFFICES ASSUME NEW r \in Rows' \ hist'.shared
             PROVE  /\ otps'[r].times <= 1 /\ (~otps'[r].used => otps'[r].times = 0)
                    /\ \A s \in Slots : Read(s, r)' => otps'[r].times = 0
                    /\ \A s, t \in Slots : Read(s, r)' /\ Read(t, r)' => s = t
  BY DEF OnceInv
<1>1. \A s \in Slots : Read(s, r)' => Read(s, r)
  BY DEF Read
<1>2. QED
  BY <1>1 DEF OnceInv

\* No slot gets to consuming a row by a move to another query.
LEMMA NotReading ==
  ASSUME TypeOK, NEW s \in Slots, NEW c, Moved(s, c), c.pc # "otp_use"
  PROVE  \A t \in Slots : At(t, "otp_use")' => At(t, "otp_use") /\ call'[t].row = call[t].row
BY CallTyped DEF Moved, At

LEMMA SameShared ==
  ASSUME TypeOK, NEW concern, NEW alone, Claim(concern, alone)
  PROVE  hist'.shared = hist.shared
BY DEF Claim, TypeOK, HistType

\* No other request gets to consuming a row.
NoneReads == \A t \in Slots : At(t, "otp_use")' => At(t, "otp_use") /\ call'[t].row = call[t].row

LEMMA GoesElsewhere ==
  ASSUME TypeOK, NEW s \in Slots
  PROVE  /\ \A pc : Then(s, pc) /\ pc # "otp_use" => NoneReads
         /\ Return(s) => NoneReads
         /\ Generate(s) => NoneReads
<1>0. call[s] \in CallType
  BY StateTyped
<1>1. ASSUME NEW pc, Then(s, pc), pc # "otp_use" PROVE NoneReads
  <2>1. [call[s] EXCEPT !.pc = pc].pc # "otp_use"
    BY <1>0, <1>1 DEF CallType
  <2>2. QED
    BY <1>1, <2>1, NotReading DEF Then, Await, Moved, NoneReads
<1>2. ASSUME Return(s) PROVE NoneReads
  <2>1. NoCall.pc # "otp_use"
    BY DEF NoCall
  <2>2. QED
    BY <1>2, <2>1, NotReading DEF Return, Await, Moved, NoneReads
<1>3. ASSUME Generate(s) PROVE NoneReads
  <2>1. [call[s] EXCEPT !.pc = "key_update", !.key = keys + 1].pc # "otp_use"
    BY <1>0 DEF CallType
  <2>2. QED
    BY <1>3, <2>1, NotReading DEF Generate, Await, Moved, NoneReads
<1>4. QED
  BY <1>1, <1>2, <1>3

\* The queries at which no row is read or consumed.
LEMMA OthersRead ==
  ASSUME TypeOK, NEW s \in Slots,
         \/ Requests(s) \/ Refuse(s) \/ FindUser(s) \/ FindForCode(s) \/ CreateUser(s)
         \/ InvalidatePreviousOtps(s) \/ CreateOtp(s) \/ QueueOtpEmail(s) \/ StoreKey(s)
         \/ CreateSession(s) \/ Answer(s) \/ StorePassword(s) \/ RevokeAllUserSessions(s) \/ Fail(s)
  PROVE  NoneReads /\ hist'.shared = hist.shared
<1>0. call[s] \in CallType
  BY StateTyped
<1>1. CASE Requests(s)
  BY <1>1, Begun, NotReading DEF Moved, NoneReads
<1>2. CASE Refuse(s) \/ QueueOtpEmail(s) \/ Answer(s) \/ RevokeAllUserSessions(s) \/ Fail(s)
  <2>1. Return(s)
    BY <1>2 DEF Refuse, QueueOtpEmail, Answer, RevokeAllUserSessions, Fail
  <2>2. CASE RevokeAllUserSessions(s)
    BY <2>1, <2>2, GoesElsewhere, SameShared DEF RevokeAllUserSessions
  <2>3. CASE Fail(s)
    BY <2>1, <2>3, GoesElsewhere DEF Fail, TypeOK, HistType
  <2>4. QED
    BY <1>2, <2>1, <2>2, <2>3, GoesElsewhere DEF Refuse, QueueOtpEmail, Answer
<1>3. CASE FindUser(s)
  <2>1. CASE call[s].op = "verify"
    <3>1. [call[s] EXCEPT !.pc = "otp_find", !.pw = user.pw].pc # "otp_use"
      BY <1>0 DEF CallType
    <3>2. QED
      BY <1>3, <2>1, <3>1, NotReading DEF FindUser, Await, Moved, NoneReads
  <2>2. CASE call[s].op = "regenerate"
    BY <1>3, <2>2, GoesElsewhere, SameShared DEF FindUser, Generate
  <2>3. CASE call[s].op \notin {"verify", "regenerate"}
    BY <1>3, <2>3, GoesElsewhere DEF FindUser
  <2>4. QED
    BY <2>1, <2>2, <2>3
<1>4. CASE FindForCode(s)
  <2>1. NoneReads
    BY <1>4, GoesElsewhere DEF FindForCode
  <2>2. UNCHANGED hist \/ \E alone : Claim("code", alone)
    BY <1>4 DEF FindForCode
  <2>3. QED
    BY <2>1, <2>2, SameShared
<1>5. CASE CreateUser(s)
  <2>1. NoneReads
    BY <1>5, GoesElsewhere DEF CreateUser
  <2>2. UNCHANGED hist \/ Claim("code", FALSE)
    BY <1>5 DEF CreateUser
  <2>3. QED
    BY <2>1, <2>2, SameShared
<1>6. CASE CreateOtp(s)
  <2>1. [call[s] EXCEPT !.pc = "mail", !.row = Len(otps) + 1].pc # "otp_use"
    BY <1>0 DEF CallType
  <2>2. QED
    BY <1>6, <2>1, NotReading DEF CreateOtp, Await, Moved, NoneReads
<1>7. CASE InvalidatePreviousOtps(s) \/ StoreKey(s) \/ CreateSession(s) \/ StorePassword(s)
  BY <1>7, GoesElsewhere DEF InvalidatePreviousOtps, StoreKey, CreateSession, StorePassword
<1>8. QED
  BY <1>1, <1>2, <1>3, <1>4, <1>5, <1>6, <1>7

LEMMA OnceStep ==
  ASSUME TypeOK, OnceInv, [Next]_vars
  PROVE  OnceInv'
<1>0. otps \in [Rows -> OtpType] /\ Len(otps) \in Nat
  BY StateTyped
<1>1. ASSUME NEW s \in Slots,
             \/ Requests(s) \/ Refuse(s) \/ FindUser(s) \/ FindForCode(s) \/ CreateUser(s)
             \/ QueueOtpEmail(s) \/ StoreKey(s) \/ CreateSession(s) \/ Answer(s)
             \/ StorePassword(s) \/ RevokeAllUserSessions(s) \/ Fail(s)
      PROVE  OnceInv'
  <2>1. UNCHANGED otps
    BY <1>1, Begun DEF Refuse, FindUser, FindForCode, CreateUser, QueueOtpEmail, StoreKey,
                CreateSession, Answer, StorePassword, RevokeAllUserSessions, Fail
  <2>2. NoneReads /\ hist'.shared = hist.shared
    BY <1>1, OthersRead
  <2>3. QED
    BY <2>1, <2>2, OnceQuiet DEF NoneReads, Rows
<1>2. ASSUME NEW s \in Slots, InvalidatePreviousOtps(s) PROVE OnceInv'
  <2>1. NoneReads /\ hist'.shared = hist.shared
    BY <1>2, OthersRead
  <2>2. otps' = [r \in Rows |-> [otps[r] EXCEPT !.used = TRUE]]
    BY <1>2 DEF InvalidatePreviousOtps
  <2>3. otps' \in [Rows -> OtpType]
    BY <1>0, <2>2 DEF OtpType
  <2>4. Rows' = Rows
    BY <2>3, RowsTyped DEF Rows
  <2>5. \A r \in Rows : otps'[r].times = otps[r].times /\ otps'[r].used
    BY <1>0, <2>2 DEF OtpType
  <2>6. QED
    BY <2>1, <2>4, <2>5, OnceQuiet DEF NoneReads
<1>3. ASSUME NEW s \in Slots, CreateOtp(s) PROVE OnceInv'
  <2>1. NoneReads /\ hist'.shared = hist.shared
    BY <1>3, OthersRead
  <2>2. otps' = Append(otps, NewOtp) /\ Rows' = Rows \cup {Len(otps) + 1}
    BY <1>0, <1>3, RowsTyped DEF CreateOtp, Rows
  <2>3. otps'[Len(otps) + 1].times = 0 /\ \A r \in Rows : otps'[r] = otps[r]
    BY <1>0, <2>2 DEF TypeOK, NewOtp, Rows
  <2>4. \A t \in Slots : ~Read(t, Len(otps) + 1)
    BY <1>0, StateTyped DEF Read, At, CallOK, Rows
  <2>5. QED
    BY <2>1, <2>2, <2>3, <2>4, OnceQuiet DEF NoneReads
<1>4. ASSUME NEW s \in Slots, FindOtp(s) PROVE OnceInv'
  <2>1. CASE ~Newest(call[s].code)
    BY <1>4, <2>1, GoesElsewhere, OnceQuiet DEF FindOtp, NoneReads, Rows
  <2>2. CASE Newest(call[s].code)
    <3> DEFINE c == [call[s] EXCEPT !.pc = "otp_use", !.row = call[s].code]
               q == call[s].code
    <3>1. c.row = q
      BY StateTyped DEF CallType
    <3>2. call'[s] = c /\ \A t \in Slots \ {s} : call'[t] = call[t]
      BY <1>4, <2>2, CallTyped DEF FindOtp, Await
    <3>3. ~Read(s, q) /\ UNCHANGED otps /\ ~otps[q].used
      BY <1>4, <2>2 DEF FindOtp, At, Read, Newest, Valid
    <3> HIDE DEF c
    <3>4. \A t \in Slots \ {s} : \A r : Read(t, r)' <=> Read(t, r)
      BY <3>2 DEF Read, At
    <3>5. \A r : Read(s, r)' => r = q
      BY <3>1, <3>2 DEF Read
    <3>6. hist.shared \subseteq hist'.shared
      BY <1>4, <2>2 DEF FindOtp, TypeOK, HistType
    <3>7. (\E t \in Slots \ {s} : Read(t, q)) => q \in hist'.shared
      BY <1>4, <2>2 DEF FindOtp, TypeOK, HistType, Others, Read, At
    <3> HIDE DEF q
    <3>8. QED
      BY <3>3, <3>4, <3>5, <3>6, <3>7 DEF OnceInv, Rows
  <2>3. QED
    BY <2>1, <2>2
<1>5. ASSUME NEW s \in Slots, ConsumeOtp(s) PROVE OnceInv'
  <2> DEFINE q == call[s].row
  <2>1. q \in Rows /\ Read(s, q)
    BY <1>5, StateTyped DEF ConsumeOtp, At, CallOK, Read
  <2>2. hist'.shared = hist.shared /\ NoneReads
    BY <1>5, GoesElsewhere, SameShared DEF ConsumeOtp, Generate
  <2>3. ~At(s, "otp_use")'
    <3>1. /\ [call[s] EXCEPT !.pc = "pw_update"].pc = "pw_update"
          /\ [call[s] EXCEPT !.pc = "key_update", !.key = keys + 1].pc = "key_update"
      BY StateTyped DEF CallType
    <3>2. QED
      BY <1>5, <3>1, CallTyped DEF ConsumeOtp, Generate, Then, Await, At
  <2>4. \A t \in Slots, r \in Rows : Read(t, r)' => Read(t, r) /\ t # s
    BY <2>2, <2>3 DEF NoneReads, Read
  <2>5. otps' = [otps EXCEPT ![q].used = TRUE, ![q].times = @ + 1]
    BY <1>5 DEF ConsumeOtp
  <2>6. otps' \in [Rows -> OtpType]
    BY SMTT(30), <1>5, <2>1, StateTyped DEF ConsumeOtp, OtpType
  <2>7. Rows' = Rows
    BY <2>6, RowsTyped DEF Rows
  <2>8. otps'[q].used /\ otps'[q].times = otps[q].times + 1
    BY <1>0, <2>1, <2>5 DEF OtpType
  <2>9. \A r \in Rows \ {q} : otps'[r] = otps[r]
    BY <1>0, <2>1, <2>5
  <2> HIDE DEF q
  <2>10. QED
    BY <2>1, <2>2, <2>4, <2>7, <2>8, <2>9 DEF OnceInv
<1>6. ASSUME Crash PROVE OnceInv'
  <2>1. NoneReads
    BY <1>6 DEF Crash, NoCall, NoneReads, At
  <2>2. hist'.shared = hist.shared /\ UNCHANGED otps
    BY <1>6 DEF Crash, TypeOK, HistType
  <2>3. QED
    BY <2>1, <2>2, OnceQuiet DEF NoneReads, Rows
<1>7. ASSUME NEW q \in Rows, Expire(q) PROVE OnceInv'
  <2>1. otps' \in [Rows -> OtpType]
    BY <1>0, <1>7 DEF Expire, OtpType
  <2>2. Rows' = Rows
    BY <2>1, RowsTyped DEF Rows
  <2>3. \A r \in Rows : otps'[r].times = otps[r].times /\ otps'[r].used = otps[r].used
    BY <1>0, <1>7 DEF Expire, OtpType
  <2>4. NoneReads /\ hist'.shared = hist.shared
    BY <1>7 DEF Expire, NoneReads, At
  <2>5. QED
    BY <2>2, <2>3, <2>4, OnceQuiet DEF NoneReads
<1>8. ASSUME UNCHANGED vars PROVE OnceInv'
  BY <1>8 DEF vars, OnceInv, Read, At, Rows
<1>9. QED
  BY <1>1, <1>2, <1>3, <1>4, <1>5, <1>6, <1>7, <1>8 DEF Next, Queries

-----------------------------------------------------------------------------
(* The code mailed last *)

\* A request that is going to mail a code to an account that exists.
Sending(c) == c.pc \in {"inv", "otp_create", "mail"}

\* Nothing but acceptance has used the row up.
Whole(r) == otps[r].used => otps[r].times > 0

\* The account is a user's, whose earlier codes are invalidated.
OnlyNewest ==
  /\ \A s \in Slots : At(s, "otp_create") => Valid = {}
  /\ \A s \in Slots : At(s, "mail") => Valid \subseteq {call[s].row}
  /\ (\A s \in Slots : ~Sending(call[s])) => Valid \subseteq {mailed}

CodeInv ==
  Clear("code") =>
    /\ \A s, t \in Slots : Sending(call[s]) /\ Sending(call[t]) => s = t
    /\ \A s \in Slots : At(s, "mail") => call[s].row = Len(otps) /\ Whole(Len(otps))
    /\ mailed # 0 /\ (\A s \in Slots : ~Sending(call[s])) => mailed = Len(otps) /\ Whole(mailed)
    /\ user.role = "USER" => OnlyNewest

LEMMA CodeInit ==
  ASSUME Init
  PROVE  CodeInv
BY EmptySeq DEF Init, CodeInv, Sending, NoCall, At, OnlyNewest, Valid, Rows

\* Who is sending a code goes on doing so.
SendersStay ==
  \A t \in Slots : \/ Sending(call[t]) /\ call'[t] = call[t]
                   \/ ~Sending(call[t]) /\ ~Sending(call'[t])

\* The rows that there are get accepted and expire.
RowsAge ==
  /\ Len(otps') = Len(otps) /\ Valid' \subseteq Valid
  /\ \A r \in Rows : Whole(r) => Whole(r)'

LEMMA CodeQuiet ==
  ASSUME TypeOK, CodeInv, SendersStay, RowsAge, SameRaces("code"), UNCHANGED mailed,
         user'.role = user.role
  PROVE  CodeInv'
<1>1. mailed # 0 => mailed \in Rows
  BY StateTyped DEF TypeOK, Rows
<1>2. \A s \in Slots : At(s, "mail") => call[s].row \in Rows
  BY StateTyped DEF CallOK, At
<1>3. \A s \in Slots : /\ At(s, "mail")' => At(s, "mail") /\ call'[s] = call[s]
                       /\ At(s, "otp_create")' => At(s, "otp_create")
  BY DEF SendersStay, Sending, At
<1>4. \A s \in Slots : Sending(call'[s]) <=> Sending(call[s])
  BY DEF SendersStay
<1>5. OnlyNewest => OnlyNewest'
  BY <1>3, <1>4 DEF OnlyNewest, RowsAge
<1>6. QED
  BY <1>1, <1>2, <1>3, <1>4, <1>5 DEF CodeInv, Clear, SameRaces, RowsAge

LEMMA SendersElsewhere ==
  ASSUME TypeOK, NEW s \in Slots, NEW c, Moved(s, c), ~Sending(call[s]), ~Sending(c)
  PROVE  SendersStay
BY CallTyped DEF Moved, SendersStay

\* A request that is not sending a code goes to another query than those that do.
LEMMA StaysSilent ==
  ASSUME TypeOK, NEW s \in Slots, ~Sending(call[s])
  PROVE  /\ \A pc : Then(s, pc) /\ pc \notin {"inv", "otp_create", "mail"} => SendersStay
         /\ Return(s) => SendersStay
         /\ Generate(s) => SendersStay
<1>0. call[s] \in CallType
  BY StateTyped
<1>1. ASSUME NEW pc, Then(s, pc), pc \notin {"inv", "otp_create", "mail"} PROVE SendersStay
  <2>1. ~Sending([call[s] EXCEPT !.pc = pc])
    BY <1>0, <1>1 DEF CallType, Sending
  <2>2. QED
    BY <1>1, <2>1, SendersElsewhere DEF Then, Await, Moved
<1>2. ASSUME Return(s) PROVE SendersStay
  <2>1. ~Sending(NoCall)
    BY DEF NoCall, Sending
  <2>2. QED
    BY <1>2, <2>1, SendersElsewhere DEF Return, Await, Moved
<1>3. ASSUME Generate(s) PROVE SendersStay
  <2>1. ~Sending([call[s] EXCEPT !.pc = "key_update", !.key = keys + 1])
    BY <1>0 DEF CallType, Sending
  <2>2. QED
    BY <1>3, <2>1, SendersElsewhere DEF Generate, Await, Moved
<1>4. QED
  BY <1>1, <1>2, <1>3

\* The queries that neither issue nor touch a code.
LEMMA CodeUntouched ==
  ASSUME TypeOK, CodeInv, NEW s \in Slots,
         \/ Requests(s) \/ Refuse(s) \/ FindUser(s) \/ StoreKey(s) \/ CreateSession(s)
         \/ Answer(s) \/ StorePassword(s) \/ RevokeAllUserSessions(s)
  PROVE  CodeInv'
<1>1. RowsAge /\ UNCHANGED mailed
  BY Begun DEF Refuse, FindUser, StoreKey, CreateSession, Answer, StorePassword,
               RevokeAllUserSessions, Generate, RowsAge, Valid, Rows, Whole
<1>2. user'.role = user.role
  BY Begun DEF Refuse, FindUser, StoreKey, CreateSession, Answer, StorePassword,
               RevokeAllUserSessions, TypeOK, UserType
<1>3. SameRaces("code")
  <2>1. UNCHANGED hist \/ Claim("session", \A c \in Others(s) : ~Entering(c)) \/ Generate(s)
    BY Begun DEF Refuse, FindUser, StoreKey, CreateSession, Answer, StorePassword,
                 RevokeAllUserSessions
  <2>2. QED
    BY <2>1 DEF Generate, Claim, SameRaces, TypeOK, HistType
<1>4. SendersStay
  <2>1. ~Sending(call[s])
    BY Begun DEF Refuse, FindUser, StoreKey, CreateSession, Answer, StorePassword,
                 RevokeAllUserSessions, At, Sending
  <2>2. CASE Requests(s)
    <3>1. PICK c : Moved(s, c) /\ c.pc \in {"find", "revoke"}
      BY <2>2, Begun DEF Moved
    <3>2. QED
      BY <2>1, <3>1, SendersElsewhere DEF Sending
  <2>3. CASE FindUser(s) /\ call[s].op = "verify"
    <3>1. ~Sending([call[s] EXCEPT !.pc = "otp_find", !.pw = user.pw])
      BY StateTyped DEF CallType, Sending
    <3>2. QED
      BY <2>1, <2>3, <3>1, SendersElsewhere DEF FindUser, Await, Moved
  <2>4. CASE FindUser(s) /\ call[s].op # "verify"
    BY <2>1, <2>4, StaysSilent DEF FindUser
  <2>5. CASE ~Requests(s) /\ ~FindUser(s)
    BY <2>1, <2>5, StaysSilent DEF Refuse, StoreKey, CreateSession, Answer, StorePassword,
                                   RevokeAllUserSessions
  <2>6. QED
    BY <2>2, <2>3, <2>4, <2>5
<1>5. QED
  BY <1>1, <1>2, <1>3, <1>4, CodeQuiet

\* A request takes up the concern: alone, it is the only one sending.
LEMMA CodeClaimed ==
  ASSUME TypeOK, CodeInv, NEW s \in Slots, FindForCode(s)
  PROVE  CodeInv'
<1> DEFINE alone == \A d \in Others(s) : ~Issuing(d)
<1>1. PICK pc \in {"inv", "otp_create"} :
           /\ Moved(s, [call[s] EXCEPT !.pc = pc])
           /\ pc = "otp_create" => user.role # "USER"
  BY DEF FindForCode, Admitted, Then, Await, Moved
<1>2. [call[s] EXCEPT !.pc = pc].pc = pc
  BY StateTyped DEF CallType
<1>3. /\ call'[s].pc = pc /\ \A t \in Slots \ {s} : call'[t] = call[t]
      /\ UNCHANGED <<user, otps, mailed>>
  BY <1>1, <1>2, CallTyped DEF Moved, FindForCode
<1>4. CASE ~alone
  <2>1. ~Clear("code")'
    <3>1. Claim("code", alone) \/ Claim("code", FALSE)
      BY <1>4 DEF FindForCode
    <3>2. QED
      BY <1>4, <3>1 DEF Claim, Clear, TypeOK, HistType
  <2>2. QED
    BY <2>1 DEF CodeInv
<1>5. CASE alone
  <2>1. \A t \in Slots \ {s} : ~Sending(call'[t])
    BY <1>3, <1>5 DEF Others, Issuing, Sending
  <2>2. Sending(call'[s]) /\ ~At(s, "mail")' /\ (At(s, "otp_create")' => user.role # "USER")
    BY <1>1, <1>3 DEF Sending, At
  <2>3. \A t \in Slots \ {s} : ~At(t, "mail")' /\ ~At(t, "otp_create")'
    BY <2>1 DEF Sending, At
  <2>4. QED
    BY <1>3, <2>1, <2>2, <2>3 DEF CodeInv, OnlyNewest
<1>6. QED
  BY <1>4, <1>5

\* A sender at its next query: if the concern is clear it is the only one.
LEMMA SenderMoves ==
  ASSUME TypeOK, CodeInv, NEW s \in Slots, NEW c, Moved(s, c), Sending(call[s]),
         Clear("code")
  PROVE  /\ call'[s] = c
         /\ \A t \in Slots \ {s} : /\ call'[t] = call[t] /\ ~Sending(call'[t])
                                   /\ ~At(t, "mail")' /\ ~At(t, "otp_create")'
BY CallTyped DEF CodeInv, Moved, Sending, At

LEMMA CodeSent ==
  ASSUME TypeOK, CodeInv, NEW s \in Slots,
         InvalidatePreviousOtps(s) \/ CreateOtp(s) \/ QueueOtpEmail(s)
  PROVE  CodeInv'
<1>0. UNCHANGED hist /\ UNCHANGED user /\ Sending(call[s]) /\ call[s] \in CallType
  BY StateTyped DEF InvalidatePreviousOtps, CreateOtp, QueueOtpEmail, Sending, At
<1> SUFFICES ASSUME Clear("code") PROVE CodeInv'
  BY <1>0 DEF CodeInv, Clear
<1>1. otps \in [Rows -> OtpType] /\ Len(otps) \in Nat
  BY StateTyped
<1>2. CASE InvalidatePreviousOtps(s)
  <2> DEFINE c == [call[s] EXCEPT !.pc = "otp_create"]
  <2>1. c.pc = "otp_create"
    BY <1>0 DEF CallType
  <2>2. Moved(s, c)
    BY <1>2 DEF InvalidatePreviousOtps, Then, Await, Moved
  <2>3. /\ call'[s] = c
        /\ \A t \in Slots \ {s} : ~Sending(call'[t]) /\ ~At(t, "mail")' /\ ~At(t, "otp_create")'
    BY <1>0, <2>2, SenderMoves
  <2> HIDE DEF c
  <2>4. Sending(call'[s]) /\ ~At(s, "mail")'
    BY <2>1, <2>3 DEF Sending, At
  <2>5. Valid' = {}
    <3>1. otps' = [r \in Rows |-> [otps[r] EXCEPT !.used = TRUE]]
      BY <1>2 DEF InvalidatePreviousOtps
    <3>2. otps' \in [Rows -> OtpType]
      BY <1>1, <3>1 DEF OtpType
    <3>3. Rows' = Rows
      BY <3>2, RowsTyped DEF Rows
    <3>4. \A r \in Rows : otps'[r].used
      BY <1>1, <3>1 DEF OtpType
    <3>5. QED
      BY <3>3, <3>4 DEF Valid
  <2>6. QED
    BY <2>3, <2>4, <2>5 DEF CodeInv, OnlyNewest
<1>3. CASE CreateOtp(s)
  <2> DEFINE c == [call[s] EXCEPT !.pc = "mail", !.row = Len(otps) + 1]
  <2>1. c.pc = "mail" /\ c.row = Len(otps) + 1
    BY <1>0, <1>1 DEF CallType
  <2>2. Moved(s, c)
    BY <1>3 DEF CreateOtp, Await, Moved
  <2>3. /\ call'[s] = c
        /\ \A t \in Slots \ {s} : ~Sending(call'[t]) /\ ~At(t, "mail")' /\ ~At(t, "otp_create")'
    BY <1>0, <2>2, SenderMoves
  <2> HIDE DEF c
  <2>4. Sending(call'[s]) /\ ~At(s, "otp_create")'
    BY <2>1, <2>3 DEF Sending, At
  <2>5. Len(otps') = Len(otps) + 1 /\ Rows' = Rows \cup {Len(otps) + 1}
    BY <1>1, <1>3, RowsTyped DEF CreateOtp, Rows
  <2>6. ~otps'[Len(otps) + 1].used /\ \A r \in Rows : otps'[r] = otps[r]
    BY <1>1, <1>3 DEF CreateOtp, TypeOK, NewOtp, Rows
  <2>7. user.role = "USER" => Valid' \subseteq {Len(otps) + 1}
    <3>1. user.role = "USER" => Valid = {}
      BY <1>3 DEF CreateOtp, CodeInv, OnlyNewest
    <3>2. Valid' \subseteq Valid \cup {Len(otps) + 1}
      BY <2>5, <2>6 DEF Valid
    <3>3. QED
      BY <3>1, <3>2
  <2>8. QED
    BY <1>0, <2>1, <2>3, <2>4, <2>5, <2>6, <2>7 DEF CodeInv, OnlyNewest, Whole
<1>4. CASE QueueOtpEmail(s)
  <2>1. Moved(s, NoCall) /\ ~Sending(NoCall)
    BY <1>4 DEF QueueOtpEmail, Return, Await, Moved, NoCall, Sending
  <2>2. \A t \in Slots : ~Sending(call'[t]) /\ ~At(t, "mail")' /\ ~At(t, "otp_create")'
    <3>1. ~Sending(call'[s])
      BY <1>0, <2>1, SenderMoves
    <3>2. QED
      BY <1>0, <2>1, <3>1, SenderMoves DEF Sending, At
  <2>3. /\ mailed' = Len(otps) /\ UNCHANGED otps /\ Whole(Len(otps))
        /\ user.role = "USER" => Valid \subseteq {mailed'}
    BY <1>4 DEF QueueOtpEmail, CodeInv, OnlyNewest
  <2>4. QED
    BY <1>0, <2>2, <2>3 DEF CodeInv, OnlyNewest, Whole, Valid, Rows
<1>5. QED
  BY <1>2, <1>3, <1>4

LEMMA CodeStep ==
  ASSUME TypeOK, NoAccount, CodeInv, [Next]_vars
  PROVE  CodeInv'
<1>0. otps \in [Rows -> OtpType] /\ Len(otps) \in Nat
  BY StateTyped
<1>1. ASSUME NEW s \in Slots,
             \/ Requests(s) \/ Refuse(s) \/ FindUser(s) \/ StoreKey(s) \/ CreateSession(s)
             \/ Answer(s) \/ StorePassword(s) \/ RevokeAllUserSessions(s)
      PROVE  CodeInv'
  BY <1>1, CodeUntouched
<1>2. ASSUME NEW s \in Slots, FindForCode(s) PROVE CodeInv'
  BY <1>2, CodeClaimed
<1>3. ASSUME NEW s \in Slots, CreateUser(s) PROVE CodeInv'
  <2>1. CASE user.role = "none"
    <3> DEFINE c == [call[s] EXCEPT !.pc = "otp_create"]
    <3>1. c.pc = "otp_create"
      BY StateTyped DEF CallType
    <3>2. call'[s] = c /\ \A t \in Slots \ {s} : call'[t] = call[t]
      BY <1>3, <2>1, CallTyped DEF CreateUser, Then, Await
    <3> HIDE DEF c
    <3>3. \A t \in Slots \ {s} : ~Sending(call'[t]) /\ ~At(t, "mail")' /\ ~At(t, "otp_create")'
      BY <2>1, <3>2 DEF NoAccount, Sending, At
    <3>4. Sending(call'[s]) /\ ~At(s, "mail")'
      BY <3>1, <3>2 DEF Sending, At
    <3>5. Valid' = {}
      BY <1>3, <2>1, EmptySeq DEF CreateUser, NoAccount, Valid, Rows
    <3>6. QED
      BY <3>3, <3>4, <3>5 DEF CodeInv, OnlyNewest
  <2>2. CASE user.role # "none"
    <3>1. SendersStay
      BY <1>3, <2>2, StaysSilent DEF CreateUser, At, Sending
    <3>2. RowsAge
      BY <1>3 DEF CreateUser, RowsAge, Valid, Rows, Whole
    <3>3. QED
      BY <1>3, <2>2, <3>1, <3>2, CodeQuiet DEF CreateUser, SameRaces
  <2>3. QED
    BY <2>1, <2>2
<1>4. ASSUME NEW s \in Slots, InvalidatePreviousOtps(s) \/ CreateOtp(s) \/ QueueOtpEmail(s)
      PROVE  CodeInv'
  BY <1>4, CodeSent
<1>5. ASSUME NEW s \in Slots, FindOtp(s) PROVE CodeInv'
  <2>1. SendersStay
    <3>1. ~Sending(call[s]) /\ ~Sending([call[s] EXCEPT !.pc = "otp_use", !.row = call[s].code])
      BY <1>5, StateTyped DEF FindOtp, At, Sending, CallType
    <3>2. CASE Newest(call[s].code)
      BY <1>5, <3>1, <3>2, SendersElsewhere DEF FindOtp, Await, Moved
    <3>3. CASE ~Newest(call[s].code)
      BY <1>5, <3>1, <3>3, StaysSilent DEF FindOtp
    <3>4. QED
      BY <3>2, <3>3
  <2>2. SameRaces("code")
    BY <1>5 DEF FindOtp, SameRaces, TypeOK, HistType
  <2>3. RowsAge
    BY <1>5 DEF FindOtp, RowsAge, Valid, Rows, Whole
  <2>4. QED
    BY <1>5, <2>1, <2>2, <2>3, CodeQuiet DEF FindOtp
<1>6. ASSUME NEW s \in Slots, ConsumeOtp(s) PROVE CodeInv'
  <2> DEFINE q == call[s].row
  <2>1. SendersStay
    BY <1>6, StaysSilent DEF ConsumeOtp, At, Sending
  <2>2. SameRaces("code")
    BY <1>6 DEF ConsumeOtp, Generate, Claim, SameRaces, TypeOK, HistType
  <2>3. q \in Rows
    BY <1>6, StateTyped DEF ConsumeOtp, At, CallOK
  <2>4. otps' = [otps EXCEPT ![q].used = TRUE, ![q].times = @ + 1]
    BY <1>6 DEF ConsumeOtp
  <2>5. otps' \in [Rows -> OtpType]
    BY SMTT(30), <1>6, <2>3, StateTyped DEF ConsumeOtp, OtpType
  <2>6. Len(otps') = Len(otps) /\ Rows' = Rows
    BY <2>5, RowsTyped DEF Rows
  <2>7. otps'[q].used /\ otps'[q].times > 0 /\ \A r \in Rows \ {q} : otps'[r] = otps[r]
    BY <1>0, <2>3, <2>4 DEF OtpType
  <2>8. RowsAge
    BY <2>6, <2>7 DEF RowsAge, Valid, Whole
  <2>9. QED
    BY <1>6, <2>1, <2>2, <2>8, CodeQuiet DEF ConsumeOtp
<1>7. ASSUME NEW s \in Slots, Fail(s) PROVE CodeInv'
  <2>1. hist'.raced = hist.raced \cup Unfinished(call[s])
    BY <1>7 DEF Fail, TypeOK, HistType
  <2>2. CASE Issuing(call[s])
    BY <2>1, <2>2 DEF Unfinished, CodeInv, Clear
  <2>3. CASE ~Issuing(call[s])
    <3>1. SendersStay
      BY <1>7, <2>3, StaysSilent DEF Fail, Issuing, Sending
    <3>2. SameRaces("code")
      BY <2>1, <2>3 DEF Unfinished, SameRaces
    <3>3. RowsAge
      BY <1>7 DEF Fail, RowsAge, Valid, Rows, Whole
    <3>4. QED
      BY <1>7, <3>1, <3>2, <3>3, CodeQuiet DEF Fail
  <2>4. QED
    BY <2>2, <2>3
<1>8. ASSUME Crash PROVE CodeInv'
  <2>1. hist'.raced = hist.raced \cup UNION {Unfinished(call[s]) : s \in Slots}
    BY <1>8 DEF Crash, TypeOK, HistType
  <2>2. CASE \E s \in Slots : Issuing(call[s])
    BY <2>1, <2>2 DEF Unfinished, CodeInv, Clear
  <2>3. CASE \A s \in Slots : ~Issuing(call[s])
    <3>1. SendersStay
      BY <1>8, <2>3 DEF Crash, SendersStay, Sending, Issuing, NoCall
    <3>2. SameRaces("code")
      BY <2>1, <2>3 DEF Unfinished, SameRaces
    <3>3. RowsAge
      BY <1>8 DEF Crash, RowsAge, Valid, Rows, Whole
    <3>4. QED
      BY <1>8, <3>1, <3>2, <3>3, CodeQuiet DEF Crash
  <2>4. QED
    BY <2>2, <2>3
<1>9. ASSUME NEW q \in Rows, Expire(q) PROVE CodeInv'
  <2>1. otps' \in [Rows -> OtpType]
    BY <1>0, <1>9 DEF Expire, OtpType
  <2>2. Len(otps') = Len(otps) /\ Rows' = Rows
    BY <2>1, RowsTyped DEF Rows
  <2>3. \A r \in Rows : /\ otps'[r].times = otps[r].times /\ otps'[r].used = otps[r].used
                        /\ otps[r].expired => otps'[r].expired
    BY <1>0, <1>9 DEF Expire, OtpType
  <2>4. RowsAge
    BY <2>2, <2>3 DEF RowsAge, Valid, Whole
  <2>5. QED
    BY <1>9, <2>4, CodeQuiet DEF Expire, SendersStay, SameRaces
<1>10. ASSUME UNCHANGED vars PROVE CodeInv'
  BY <1>10 DEF vars, CodeInv, Clear, At, OnlyNewest, Whole, Valid, Rows
<1>11. QED
  BY <1>1, <1>2, <1>3, <1>4, <1>5, <1>6, <1>7, <1>8, <1>9, <1>10 DEF Next, Queries

-----------------------------------------------------------------------------
(* Theorems *)

LEMMA NoAccountHolds == Spec => []NoAccount
BY TypeCorrect, NoAccountInit, NoAccountStep, PTL DEF Spec

\* Once a reset is done, no session opened under the old password is active,
\* unless a login or verification was under way when it revoked them.
THEOREM SessionsRevoked == Spec => []SessionsCurrent
<1>1. SessionInv => SessionsCurrent
  BY DEF SessionInv, SessionsCurrent
<1>2. Spec => []SessionInv
  BY TypeCorrect, NoAccountHolds, SessionInit, SessionStep, PTL DEF Spec
<1>3. QED
  BY <1>1, <1>2, PTL

\* The secret key returned last is the one stored, unless requests for keys
\* overlapped or failed.
THEOREM KeyToldIsStored == Spec => []KeyAgreement
<1>1. KeyInv => KeyAgreement
  BY DEF KeyInv, KeyAgreement
<1>2. Spec => []KeyInv
  BY TypeCorrect, NoAccountHolds, KeyInit, KeyStep, PTL DEF Spec
<1>3. QED
  BY <1>1, <1>2, PTL

\* A code that no two requests check at the same time is accepted once.
THEOREM CodeAcceptedOnce == Spec => []AcceptedOnce
<1>1. OnceInv => AcceptedOnce
  BY DEF OnceInv, AcceptedOnce
<1>2. Spec => []OnceInv
  BY TypeCorrect, OnceInit, OnceStep, PTL DEF Spec
<1>3. QED
  BY <1>1, <1>2, PTL

LEMMA CodeInvHolds == Spec => []CodeInv
BY TypeCorrect, NoAccountHolds, CodeInit, CodeStep, PTL DEF Spec

\* The code mailed last is the newest row, used up by nothing but acceptance.
THEOREM MailedCodeIsNewest == Spec => []MailedCodeWorks
<1>1. CodeInv => MailedCodeWorks
  BY DEF CodeInv, MailedCodeWorks, Issuing, Sending, Whole
<1>2. QED
  BY <1>1, CodeInvHolds, PTL

\* No other code of a user works.
THEOREM OtherCodesFail == Spec => []OnlyMailedWorks
<1>1. CodeInv => OnlyMailedWorks
  BY DEF CodeInv, OnlyMailedWorks, OnlyNewest, Issuing, Sending
<1>2. QED
  BY <1>1, CodeInvHolds, PTL
=============================================================================
