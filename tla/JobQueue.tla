------------------------------- MODULE JobQueue -------------------------------
(***************************************************************************)
(* The two BullMQ queues with their processors: pushes (src/fcm) and mails *)
(* (src/mail).  The jobs are in Redis and survive the process; the worker  *)
(* of a queue does not.                                                    *)
(***************************************************************************)
EXTENDS Naturals

CONSTANTS
  Jobs,        \* jobs that are ever added
  Queue,       \* Jobs -> the queue it is added to
  Addresses,   \* device tokens and mail addresses
  None,
  Attempts,    \* JOB_OPTIONS.attempts
  StallLimit,  \* how often a job may lose its worker, 1 in BullMQ
  MaxRefusals, \* bound: sends that throw
  MaxCrashes   \* bound: process restarts

ASSUME QueueAssumption == Queue \in [Jobs -> {"push", "mail"}]
ASSUME AddressAssumption == None \notin Addresses
ASSUME LimitAssumption == Attempts \in Nat \ {0} /\ StallLimit \in Nat
ASSUME BoundAssumption == MaxRefusals \in Nat /\ MaxCrashes \in Nat

VARIABLES
  job,  \* Jobs -> its place in the queue and what happened to it
  used  \* how much of each bound is spent

vars == <<job, used>>

-----------------------------------------------------------------------------
(* State *)

\* A job waits, also between two attempts and while a broadcast delays it; is
\* held by the worker, before and after Firebase or SMTP took it; was held when
\* the process died; or is over.
States == {"none", "wait", "active", "sent", "stalled", "done", "failed"}

\* `got` is history: how often the receiver got it.
JobType ==
  [state : States, to : Addresses \cup {None}, got : Nat, refused : Nat, stalled : Nat]
NewJob(to) == [state |-> "wait", to |-> to, got |-> 0, refused |-> 0, stalled |-> 0]
NoJob == [NewJob(None) EXCEPT !.state = "none"]

Init ==
  /\ job = [j \in Jobs |-> NoJob]
  /\ used = [refusals |-> 0, crashes |-> 0]

Is(j, state) == job[j].state = state
Set(j, r) == job' = [job EXCEPT ![j] = r]
Held(j) == job[j].state \in {"active", "sent"}
Unused == {j \in Jobs : Is(j, "none")}

-----------------------------------------------------------------------------
(* Adding jobs: `to` maps new jobs to their receivers *)

Add(S, to) == job' = [j \in Jobs |-> IF j \in S THEN NewJob(to[j]) ELSE job[j]]

\* Mutant: a push without a device token is queued.
QueuePushToAll(to) ==
  /\ DOMAIN to \subseteq Unused
  /\ Add(DOMAIN to, to)
  /\ UNCHANGED used

\* addBulk adds all or none.
QueuePushToMany(to) ==
  /\ DOMAIN to \subseteq Unused
  /\ Add({j \in DOMAIN to : to[j] # None}, to)
  /\ UNCHANGED used

\* Several adds at once, of which some may throw.
QueueEmails(to) ==
  /\ DOMAIN to \subseteq Unused
  /\ Add(DOMAIN to, to)
  /\ UNCHANGED used

-----------------------------------------------------------------------------
(* The workers, one job at a time *)

Take(j) ==
  /\ Is(j, "wait")
  /\ \A i \in Jobs : Held(i) => Queue[i] # Queue[j]
  /\ Set(j, [job[j] EXCEPT !.state = "active"])
  /\ UNCHANGED used

\* Mutant: the handler does not await the call.
SendOrNot(j) ==
  /\ Is(j, "active")
  /\ \E arrives \in {0, 1} :
       Set(j, [job[j] EXCEPT !.state = "sent", !.got = @ + arrives])
  /\ UNCHANGED used

\* process: the handler of a push returns when there is no token.
Send(j) ==
  /\ Is(j, "active")
  /\ Set(j, [job[j] EXCEPT !.state = "sent", !.got = IF job[j].to = None THEN @ ELSE @ + 1])
  /\ UNCHANGED used

\* Mutant: the handler of a mail never returns.
CompletePushes(j) ==
  /\ Is(j, "sent") /\ Queue[j] = "push"
  /\ Set(j, [job[j] EXCEPT !.state = "done"])
  /\ UNCHANGED used

Complete(j) ==
  /\ Is(j, "sent")
  /\ Set(j, [job[j] EXCEPT !.state = "done"])
  /\ UNCHANGED used

\* The send throws, perhaps after it took effect (a lost answer).
Refuse(j) ==
  /\ Is(j, "active") /\ job[j].to # None
  /\ used.refusals < MaxRefusals
  /\ used' = [used EXCEPT !.refusals = @ + 1]
  /\ \E arrives \in {0, 1} :
       Set(j, [job[j] EXCEPT !.refused = @ + 1, !.got = @ + arrives,
                             !.state = IF job[j].refused + 1 < Attempts THEN "wait" ELSE "failed"])

\* The process dies with its workers, and is started again.
Crash ==
  /\ used.crashes < MaxCrashes
  /\ used' = [used EXCEPT !.crashes = @ + 1]
  /\ job' = [j \in Jobs |-> IF Held(j) THEN [job[j] EXCEPT !.state = "stalled"] ELSE job[j]]

\* A worker finds that the lock of the job has expired.
Recover(j) ==
  /\ Is(j, "stalled")
  /\ Set(j, [job[j] EXCEPT !.stalled = @ + 1,
                           !.state = IF job[j].stalled < StallLimit THEN "wait" ELSE "failed"])
  /\ UNCHANGED used

-----------------------------------------------------------------------------
(* Specification *)

Worker(j) ==
  \/ Take(j)
  \/ Send(j)
  \/ Complete(j)
  \/ Refuse(j)
  \/ Recover(j)

Adding ==
  \/ \E S \in SUBSET {j \in Unused : Queue[j] = "push"} :
       \E to \in [S -> Addresses \cup {None}] : QueuePushToMany(to)
  \/ \E S \in SUBSET {j \in Unused : Queue[j] = "mail"} :
       \E to \in [S -> Addresses] : QueueEmails(to)

Next ==
  \/ Adding
  \/ \E j \in Jobs : Worker(j)
  \/ Crash

\* The workers go on with the job they hold, take one when one waits, and look
\* for stalled ones, every 30 seconds.
Fairness ==
  \A j \in Jobs :
    /\ SF_vars(Take(j))
    /\ WF_vars(Send(j) \/ Complete(j) \/ Refuse(j))
    /\ WF_vars(Recover(j))

Spec == Init /\ [][Next]_vars
FairSpec == Spec /\ Fairness

-----------------------------------------------------------------------------
(* Properties *)

\* Every variable has its type, and a job that was sent has arrived and has a
\* receiver.
TypeOK ==
  /\ job \in [Jobs -> JobType]
  /\ used \in [refusals : Nat, crashes : Nat]
  /\ \A j \in Jobs :
       /\ Is(j, "sent") => job[j].got > 0
       /\ Is(j, "wait") => job[j].refused < Attempts /\ job[j].stalled <= StallLimit
       /\ job[j].refused <= Attempts /\ job[j].stalled <= StallLimit + 1

Phase(state) ==
  CASE state = "none" -> "none"
    [] state = "done" -> "kept"
    [] state = "failed" -> "lost"
    [] OTHER -> "pending"

Parcels ==
  [j \in Jobs |-> [phase |-> Phase(job[j].state), got |-> job[j].got,
                   mishaps |-> job[j].refused + job[j].stalled]]

D == INSTANCE Delivery WITH
       Patience <- IF Attempts <= StallLimit THEN Attempts ELSE StallLimit + 1,
       parcel <- Parcels

\* A queued job that has a receiver reaches it or is given up after three
\* refusals or two lost workers, and twice only after one of those
\* (JOB_OPTIONS, FcmProcessor.process, MailProcessor.process).
Delivers == D!Spec

\* And it is not forgotten, whatever else is in the queue.
EveryJobEnds ==
  \A j \in Jobs : Is(j, "wait") ~> job[j].state \in {"done", "failed"}

=============================================================================
