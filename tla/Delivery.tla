------------------------------- MODULE Delivery -------------------------------
(***************************************************************************)
(* What a queue of outgoing mails or pushes promises: what is handed to it *)
(* reaches its receiver or is given up after enough mishaps, and reaches   *)
(* it more than once only because of mishaps.                              *)
(***************************************************************************)
EXTENDS Naturals

CONSTANTS
  Jobs,
  Patience  \* mishaps before a job may be given up, at least one

VARIABLE parcel \* Jobs -> how far it is, arrivals and mishaps

ParcelType == [phase : {"none", "pending", "kept", "lost"}, got : Nat, mishaps : Nat]
Parcel(phase) == [phase |-> phase, got |-> 0, mishaps |-> 0]

Init == parcel = [j \in Jobs |-> Parcel("none")]

Put(j, p) == parcel' = [parcel EXCEPT ![j] = p]

\* Any number of new jobs is handed over at once.
Promise ==
  \E S \in SUBSET Jobs :
    /\ \A j \in S : parcel[j].phase = "none"
    /\ parcel' = [j \in Jobs |-> IF j \in S THEN Parcel("pending") ELSE parcel[j]]

\* It arrives: a second time only after a mishap.
Deliver(j) ==
  /\ parcel[j].phase = "pending" /\ parcel[j].got <= parcel[j].mishaps
  /\ Put(j, [parcel[j] EXCEPT !.got = @ + 1])

\* A mishap, which may hide that it arrived, or be one too many.
Mishap(j) ==
  /\ parcel[j].phase = "pending"
  /\ \E extra \in {0, 1}, phase \in {"pending", "lost"} :
       /\ extra = 1 => parcel[j].got <= parcel[j].mishaps
       /\ phase = "lost" => parcel[j].mishaps + 1 >= Patience
       /\ Put(j, [phase |-> phase, got |-> parcel[j].got + extra,
                  mishaps |-> parcel[j].mishaps + 1])

Keep(j) ==
  /\ parcel[j].phase = "pending" /\ parcel[j].got > 0
  /\ Put(j, [parcel[j] EXCEPT !.phase = "kept"])

Next ==
  \/ Promise
  \/ \E j \in Jobs : Deliver(j)
  \/ \E j \in Jobs : Mishap(j)
  \/ \E j \in Jobs : Keep(j)

Spec == Init /\ [][Next]_parcel

=============================================================================
