---------------------------- MODULE JobQueue_proofs ----------------------------
(***************************************************************************)
(* The queues keep their types and implement Delivery, for any jobs,       *)
(* limits, refusals and restarts.                                          *)
(***************************************************************************)
EXTENDS JobQueue, TLAPS

USE QueueAssumption, AddressAssumption, LimitAssumption, BoundAssumption

\* What a job has been through fits its state.
JobOK(r) ==
  /\ r \in JobType
  /\ r.state # "none" => r.to \in Addresses
  /\ r.state \in {"sent", "done"} => r.got > 0
  /\ r.state \in {"wait", "active", "sent", "stalled"} =>
       r.refused < Attempts /\ r.stalled <= StallLimit
  /\ r.refused <= Attempts /\ r.stalled <= StallLimit + 1
  /\ r.got <= r.refused + r.stalled + (IF r.state \in {"none", "wait", "active"} THEN 0 ELSE 1)
  /\ r.state = "none" => r = NoJob

IInv ==
  /\ job \in [Jobs -> JobType]
  /\ used \in [refusals : Nat, crashes : Nat]
  /\ \A j \in Jobs : JobOK(job[j])

LEMMA InitInv == Init => IInv
  BY DEF Init, IInv, JobOK, JobType, States, NoJob, NewJob

\* Changed records keep their type.
LEMMA SentType ==
  ASSUME NEW x \in JobType, NEW got \in Nat
  PROVE  [x EXCEPT !.state = "sent", !.got = got] \in JobType
  BY DEF JobType, States

LEMMA RefusedType ==
  ASSUME NEW x \in JobType, NEW refused \in Nat, NEW got \in Nat, NEW state \in States
  PROVE  [x EXCEPT !.refused = refused, !.got = got, !.state = state] \in JobType
  BY DEF JobType

LEMMA StalledType ==
  ASSUME NEW x \in JobType, NEW stalled \in Nat, NEW state \in States
  PROVE  [x EXCEPT !.stalled = stalled, !.state = state] \in JobType
  BY DEF JobType

\* A step of one job keeps the invariant if it keeps that job's part.
LEMMA SetInv ==
  ASSUME IInv, NEW j \in Jobs, NEW r, JobOK(r), Set(j, r),
         used' \in [refusals : Nat, crashes : Nat]
  PROVE  IInv'
<1>1. job' = [job EXCEPT ![j] = r] /\ r \in JobType BY DEF Set, JobOK
<1>2. job' \in [Jobs -> JobType] BY <1>1 DEF IInv
<1>3. \A i \in Jobs : job'[i] = IF i = j THEN r ELSE job[i] BY <1>1 DEF IInv
<1>4. \A i \in Jobs : JobOK(job'[i]) BY <1>3 DEF IInv
<1> QED BY <1>2, <1>4 DEF IInv, JobOK

\* Adding jobs for known receivers.
LEMMA AddInv ==
  ASSUME IInv, NEW S \in SUBSET Unused, NEW to, \A j \in S : to[j] \in Addresses,
         Add(S, to), UNCHANGED used
  PROVE  IInv'
<1>1. job' = [j \in Jobs |-> IF j \in S THEN NewJob(to[j]) ELSE job[j]] BY DEF Add
<1>2. \A j \in S : JobOK(NewJob(to[j])) BY DEF JobOK, NewJob, JobType, States
<1>3. \A j \in Jobs : JobOK(job'[j]) BY <1>1, <1>2 DEF IInv
<1>4. \A j \in Jobs : job'[j] \in JobType BY <1>3 DEF JobOK
<1>5. job' \in [Jobs -> JobType] BY <1>1, <1>4
<1> QED BY <1>3, <1>5 DEF IInv

LEMMA AddingInv == ASSUME IInv, Adding PROVE IInv'
<1>1. ASSUME NEW S \in SUBSET {j \in Unused : Queue[j] = "push"},
             NEW to \in [S -> Addresses \cup {None}], QueuePushToMany(to)
      PROVE  IInv'
  <2>1. {j \in DOMAIN to : to[j] # None} \in SUBSET Unused BY <1>1
  <2>2. \A j \in {i \in DOMAIN to : to[i] # None} : to[j] \in Addresses BY <1>1
  <2> QED BY <1>1, <2>1, <2>2, AddInv DEF QueuePushToMany
<1>2. ASSUME NEW S \in SUBSET {j \in Unused : Queue[j] = "mail"},
             NEW to \in [S -> Addresses], QueueEmails(to)
      PROVE  IInv'
  <2>1. DOMAIN to \in SUBSET Unused /\ \A j \in DOMAIN to : to[j] \in Addresses BY <1>2
  <2> QED BY <1>2, <2>1, AddInv DEF QueueEmails
<1> QED BY <1>1, <1>2 DEF Adding

LEMMA TakeInv == ASSUME IInv, NEW j \in Jobs, Take(j) PROVE IInv'
<1>1. JobOK([job[j] EXCEPT !.state = "active"])
  BY DEF IInv, Take, Is, JobOK, JobType, States
<1> QED BY <1>1, SetInv DEF Take, IInv

LEMMA SendInv == ASSUME IInv, NEW j \in Jobs, Send(j) PROVE IInv'
<1>1. /\ job[j] \in JobType /\ JobOK(job[j]) /\ job[j].state = "active"
      /\ job[j].to \in Addresses /\ job[j].to # None
  BY DEF IInv, Send, Is, JobOK
<1>2. Set(j, [job[j] EXCEPT !.state = "sent", !.got = @ + 1]) /\ UNCHANGED used
  BY <1>1 DEF Send
<1> DEFINE r == [job[j] EXCEPT !.state = "sent", !.got = @ + 1]
<1>3. JobOK(r)
  <2>1. job[j].got + 1 \in Nat BY <1>1 DEF JobType
  <2>2. r \in JobType BY <1>1, <2>1, SentType
  <2>3. /\ r.state = "sent" /\ r.to = job[j].to /\ r.got = job[j].got + 1
        /\ r.refused = job[j].refused /\ r.stalled = job[j].stalled
    BY <1>1 DEF JobType
  <2> HIDE DEF r
  <2> QED BY <1>1, <2>2, <2>3 DEF JobOK, JobType
<1> QED BY <1>2, <1>3, SetInv DEF IInv

LEMMA CompleteInv == ASSUME IInv, NEW j \in Jobs, Complete(j) PROVE IInv'
<1>1. JobOK([job[j] EXCEPT !.state = "done"])
  BY DEF IInv, Complete, Is, JobOK, JobType, States
<1> QED BY <1>1, SetInv DEF Complete, IInv

LEMMA RefuseInv == ASSUME IInv, NEW j \in Jobs, Refuse(j) PROVE IInv'
<1>1. job[j] \in JobType /\ JobOK(job[j]) /\ job[j].state = "active" BY DEF IInv, Refuse, Is
<1>2. PICK arrives \in {0, 1} :
        Set(j, [job[j] EXCEPT !.refused = @ + 1, !.got = @ + arrives,
                  !.state = IF job[j].refused + 1 < Attempts THEN "wait" ELSE "failed"])
  BY DEF Refuse
<1> DEFINE r == [job[j] EXCEPT !.refused = @ + 1, !.got = @ + arrives,
                  !.state = IF job[j].refused + 1 < Attempts THEN "wait" ELSE "failed"]
<1>3. JobOK(r)
  <2> DEFINE state == IF job[j].refused + 1 < Attempts THEN "wait" ELSE "failed"
  <2>1. job[j].refused + 1 \in Nat /\ job[j].got + arrives \in Nat /\ state \in States
    BY <1>1 DEF JobType, States
  <2>2. r \in JobType BY <1>1, <2>1, RefusedType
  <2>3. /\ r.state = state /\ r.to = job[j].to /\ r.got = job[j].got + arrives
        /\ r.refused = job[j].refused + 1 /\ r.stalled = job[j].stalled
    BY <1>1 DEF JobType
  <2> HIDE DEF r
  <2> QED BY <1>1, <2>2, <2>3 DEF JobOK, JobType
<1>4. used' \in [refusals : Nat, crashes : Nat] BY DEF Refuse, IInv
<1> QED BY <1>2, <1>3, <1>4, SetInv

LEMMA RecoverInv == ASSUME IInv, NEW j \in Jobs, Recover(j) PROVE IInv'
<1>1. job[j] \in JobType /\ JobOK(job[j]) /\ job[j].state = "stalled" BY DEF IInv, Recover, Is
<1> DEFINE r == [job[j] EXCEPT !.stalled = @ + 1,
                  !.state = IF job[j].stalled < StallLimit THEN "wait" ELSE "failed"]
<1>2. JobOK(r)
  <2> DEFINE state == IF job[j].stalled < StallLimit THEN "wait" ELSE "failed"
  <2>1. job[j].stalled + 1 \in Nat /\ state \in States BY <1>1 DEF JobType, States
  <2>2. r \in JobType BY <1>1, <2>1, StalledType
  <2>3. /\ r.state = state /\ r.to = job[j].to /\ r.got = job[j].got
        /\ r.refused = job[j].refused /\ r.stalled = job[j].stalled + 1
    BY <1>1 DEF JobType
  <2> HIDE DEF r
  <2> QED BY <1>1, <2>2, <2>3 DEF JobOK, JobType
<1> QED BY <1>2, SetInv DEF Recover, IInv

LEMMA CrashInv == ASSUME IInv, Crash PROVE IInv'
<1>1. job' = [j \in Jobs |-> IF Held(j) THEN [job[j] EXCEPT !.state = "stalled"] ELSE job[j]]
  BY DEF Crash
<1>2. ASSUME NEW j \in Jobs, Held(j) PROVE JobOK([job[j] EXCEPT !.state = "stalled"])
  BY <1>2 DEF IInv, Held, JobOK, JobType, States
<1>3. \A j \in Jobs : JobOK(job'[j]) BY <1>1, <1>2 DEF IInv
<1>4. \A j \in Jobs : job'[j] \in JobType BY <1>3 DEF JobOK
<1>5. job' \in [Jobs -> JobType] BY <1>1, <1>4
<1>6. used' \in [refusals : Nat, crashes : Nat] BY DEF Crash, IInv
<1> QED BY <1>3, <1>5, <1>6 DEF IInv

LEMMA StepInv == IInv /\ [Next]_vars => IInv'
<1> SUFFICES ASSUME IInv, [Next]_vars PROVE IInv' OBVIOUS
<1>1. CASE Adding BY <1>1, AddingInv
<1>2. ASSUME NEW j \in Jobs, Worker(j) PROVE IInv'
  BY <1>2, TakeInv, SendInv, CompleteInv, RefuseInv, RecoverInv DEF Worker
<1>3. CASE Crash BY <1>3, CrashInv
<1>4. CASE UNCHANGED vars BY <1>4 DEF vars, IInv
<1> QED BY <1>1, <1>2, <1>3, <1>4 DEF Next

LEMMA Inv == Spec => []IInv
BY InitInv, StepInv, PTL DEF Spec

\* Every variable keeps its type; a job counts no more than its attempts and
\* stalls (JOB_OPTIONS).
THEOREM TypeCorrect == Spec => []TypeOK
<1>1. IInv => TypeOK BY DEF IInv, TypeOK, JobOK, Is
<1> QED BY <1>1, Inv, PTL

-----------------------------------------------------------------------------
(* Refinement *)

Fate(r) == [phase |-> Phase(r.state), got |-> r.got, mishaps |-> r.refused + r.stalled]
Limit == IF Attempts <= StallLimit THEN Attempts ELSE StallLimit + 1

LEMMA InitDelivers == Init => D!Init
  BY DEF Init, D!Init, Parcels, D!Parcel, NoJob, NewJob, Phase

\* A step of one job is a step of its parcel.
LEMMA SetParcel ==
  ASSUME IInv, NEW j \in Jobs, NEW r, Set(j, r)
  PROVE  Parcels' = [Parcels EXCEPT ![j] = Fate(r)] /\ Parcels[j] = Fate(job[j])
<1>1. job' = [job EXCEPT ![j] = r] /\ \A i \in Jobs : job'[i] = IF i = j THEN r ELSE job[i]
  BY DEF Set, IInv
<1>2. Parcels' = [i \in Jobs |-> IF i = j THEN Fate(r) ELSE Fate(job[i])]
  BY <1>1 DEF Parcels, Fate
<1> QED BY <1>2 DEF Parcels, Fate

LEMMA AddPromises ==
  ASSUME IInv, NEW S \in SUBSET Unused, NEW to, Add(S, to)
  PROVE  D!Promise
<1>1. job' = [j \in Jobs |-> IF j \in S THEN NewJob(to[j]) ELSE job[j]] BY DEF Add
<1>2. S \in SUBSET Jobs /\ \A j \in S : job[j].state = "none" BY DEF Unused, Is
<1>3. \A j \in S : Parcels[j].phase = "none" BY <1>2 DEF Parcels, Phase
<1>4. Parcels' = [j \in Jobs |-> IF j \in S THEN D!Parcel("pending") ELSE Parcels[j]]
  BY <1>1, <1>2 DEF Parcels, Phase, NewJob, D!Parcel
<1> QED BY <1>2, <1>3, <1>4 DEF D!Promise

LEMMA AddingDelivers == ASSUME IInv, Adding PROVE D!Promise
<1>1. ASSUME NEW S \in SUBSET {j \in Unused : Queue[j] = "push"},
             NEW to \in [S -> Addresses \cup {None}], QueuePushToMany(to)
      PROVE  D!Promise
  <2>1. {j \in DOMAIN to : to[j] # None} \in SUBSET Unused BY <1>1
  <2> QED BY <1>1, <2>1, AddPromises DEF QueuePushToMany
<1>2. ASSUME NEW S \in SUBSET {j \in Unused : Queue[j] = "mail"},
             NEW to \in [S -> Addresses], QueueEmails(to)
      PROVE  D!Promise
  <2>1. DOMAIN to \in SUBSET Unused BY <1>2
  <2> QED BY <1>2, <2>1, AddPromises DEF QueueEmails
<1> QED BY <1>1, <1>2 DEF Adding

LEMMA TakeDelivers == ASSUME IInv, NEW j \in Jobs, Take(j) PROVE UNCHANGED Parcels
<1> DEFINE r == [job[j] EXCEPT !.state = "active"]
<1>1. job[j] \in JobType /\ job[j].state = "wait" BY DEF IInv, Take, Is
<1>2. Fate(r) = Fate(job[j]) BY <1>1 DEF Fate, Phase, JobType
<1>3. Parcels' = [Parcels EXCEPT ![j] = Fate(r)] /\ Parcels[j] = Fate(job[j])
  BY SetParcel DEF Take
<1> QED BY <1>2, <1>3 DEF Parcels

LEMMA SendDelivers == ASSUME IInv, NEW j \in Jobs, Send(j) PROVE D!Deliver(j)
<1> DEFINE r == [job[j] EXCEPT !.state = "sent", !.got = @ + 1]
<1>1. job[j] \in JobType /\ JobOK(job[j]) /\ job[j].state = "active" /\ job[j].to # None
  BY DEF IInv, Send, Is, JobOK
<1>2. Set(j, r) BY <1>1 DEF Send
<1>3. Parcels' = [Parcels EXCEPT ![j] = Fate(r)] /\ Parcels[j] = Fate(job[j])
  BY <1>2, SetParcel
<1>4. Fate(job[j]).phase = "pending" /\ Fate(job[j]).got <= Fate(job[j]).mishaps
  BY <1>1 DEF Fate, Phase, JobOK, JobType
<1>5. Fate(r) = [Fate(job[j]) EXCEPT !.got = @ + 1] BY <1>1 DEF Fate, Phase, JobType
<1> QED BY <1>3, <1>4, <1>5 DEF D!Deliver, D!Put

LEMMA CompleteDelivers == ASSUME IInv, NEW j \in Jobs, Complete(j) PROVE D!Keep(j)
<1> DEFINE r == [job[j] EXCEPT !.state = "done"]
<1>1. job[j] \in JobType /\ JobOK(job[j]) /\ job[j].state = "sent" BY DEF IInv, Complete, Is
<1>2. Parcels' = [Parcels EXCEPT ![j] = Fate(r)] /\ Parcels[j] = Fate(job[j])
  BY SetParcel DEF Complete
<1>3. Fate(job[j]).phase = "pending" /\ Fate(job[j]).got > 0 BY <1>1 DEF Fate, Phase, JobOK
<1>4. Fate(r) = [Fate(job[j]) EXCEPT !.phase = "kept"] BY <1>1 DEF Fate, Phase, JobType
<1> QED BY <1>2, <1>3, <1>4 DEF D!Keep, D!Put

\* A mishap, from what it makes of the job.
LEMMA MishapDelivers ==
  ASSUME IInv, NEW j \in Jobs, NEW r, Set(j, r),
         NEW extra \in {0, 1}, NEW phase \in {"pending", "lost"},
         Fate(job[j]).phase = "pending",
         extra = 1 => Fate(job[j]).got <= Fate(job[j]).mishaps,
         phase = "lost" => Fate(job[j]).mishaps + 1 >= Limit,
         Fate(r) = [phase |-> phase, got |-> Fate(job[j]).got + extra,
                    mishaps |-> Fate(job[j]).mishaps + 1]
  PROVE  D!Mishap(j)
<1>1. Parcels' = [Parcels EXCEPT ![j] = Fate(r)] /\ Parcels[j] = Fate(job[j]) BY SetParcel
<1> QED BY <1>1 DEF D!Mishap, D!Put, Limit

LEMMA RefuseDelivers == ASSUME IInv, NEW j \in Jobs, Refuse(j) PROVE D!Mishap(j)
<1>1. job[j] \in JobType /\ JobOK(job[j]) /\ job[j].state = "active" BY DEF IInv, Refuse, Is
<1>2. PICK arrives \in {0, 1} :
        Set(j, [job[j] EXCEPT !.refused = @ + 1, !.got = @ + arrives,
                  !.state = IF job[j].refused + 1 < Attempts THEN "wait" ELSE "failed"])
  BY DEF Refuse
<1> DEFINE r == [job[j] EXCEPT !.refused = @ + 1, !.got = @ + arrives,
                  !.state = IF job[j].refused + 1 < Attempts THEN "wait" ELSE "failed"]
           phase == IF job[j].refused + 1 < Attempts THEN "pending" ELSE "lost"
<1>3. Fate(job[j]).phase = "pending" /\ Fate(job[j]).got <= Fate(job[j]).mishaps
  BY <1>1 DEF Fate, Phase, JobOK, JobType
<1>4. phase = "lost" => Fate(job[j]).mishaps + 1 >= Limit
  BY <1>1 DEF Fate, JobType, Limit
<1>5. Fate(r) = [phase |-> phase, got |-> Fate(job[j]).got + arrives,
                 mishaps |-> Fate(job[j]).mishaps + 1]
  BY <1>1 DEF Fate, Phase, JobType
<1>6. phase \in {"pending", "lost"} OBVIOUS
<1> HIDE DEF r, phase
<1> QED BY <1>2, <1>3, <1>4, <1>5, <1>6, MishapDelivers DEF r

LEMMA RecoverDelivers == ASSUME IInv, NEW j \in Jobs, Recover(j) PROVE D!Mishap(j)
<1> DEFINE r == [job[j] EXCEPT !.stalled = @ + 1,
                  !.state = IF job[j].stalled < StallLimit THEN "wait" ELSE "failed"]
           phase == IF job[j].stalled < StallLimit THEN "pending" ELSE "lost"
<1>1. job[j] \in JobType /\ JobOK(job[j]) /\ job[j].state = "stalled" BY DEF IInv, Recover, Is
<1>2. Set(j, r) BY DEF Recover
<1>3. Fate(job[j]).phase = "pending" BY <1>1 DEF Fate, Phase
<1>4. phase = "lost" => Fate(job[j]).mishaps + 1 >= Limit
  BY <1>1 DEF Fate, JobType, Limit
<1>5. Fate(r) = [phase |-> phase, got |-> Fate(job[j]).got + 0,
                 mishaps |-> Fate(job[j]).mishaps + 1]
  BY <1>1 DEF Fate, Phase, JobType
<1>6. phase \in {"pending", "lost"} OBVIOUS
<1> HIDE DEF r, phase
<1> QED BY <1>2, <1>3, <1>4, <1>5, <1>6, MishapDelivers

LEMMA CrashDelivers == ASSUME IInv, Crash PROVE UNCHANGED Parcels
<1>1. job' = [j \in Jobs |-> IF Held(j) THEN [job[j] EXCEPT !.state = "stalled"] ELSE job[j]]
  BY DEF Crash
<1>2. ASSUME NEW j \in Jobs PROVE Fate(job'[j]) = Fate(job[j])
  BY <1>1 DEF IInv, JobType, Held, Fate, Phase
<1> QED BY <1>2 DEF Parcels, Fate

\* Whatever the queues do is something Delivery allows: a job with a receiver
\* reaches it or was refused or lost its worker often enough, and reaches it
\* again only after one of those.
THEOREM QueuesDeliver == Spec => Delivers
<1>1. ASSUME IInv, [Next]_vars PROVE [D!Next]_Parcels
  <2>1. CASE Adding BY <1>1, <2>1, AddingDelivers DEF D!Next
  <2>2. ASSUME NEW j \in Jobs, Worker(j) PROVE [D!Next]_Parcels
    BY <1>1, <2>2, TakeDelivers, SendDelivers, CompleteDelivers, RefuseDelivers, RecoverDelivers
       DEF Worker, D!Next
  <2>3. CASE Crash BY <1>1, <2>3, CrashDelivers
  <2>4. CASE UNCHANGED vars BY <2>4 DEF vars, Parcels
  <2> QED BY <1>1, <2>1, <2>2, <2>3, <2>4 DEF Next
<1> QED BY <1>1, Inv, InitDelivers, PTL DEF Spec, Delivers, D!Spec

=============================================================================
