------------------------------ MODULE LossyList ------------------------------
(***************************************************************************)
(* lib/tracker/frame-list.go: the last frames of an aircraft, kept for the *)
(* report of a frame too far.  Push holds the mutex while it inserts and   *)
(* compares the length with the capacity after it has released it; Unshift *)
(* takes the mutex anew.  addFrame holds the plane's lock for reading      *)
(* only, so pushes of several workers overlap; addLatLong holds it for     *)
(* writing when it ranges over the list, so no push is under way then.     *)
(* Frames are numbered in the order in which they are inserted.            *)
(***************************************************************************)
EXTENDS Integers, Sequences, FiniteSets

CONSTANTS Pushers,      \* workers that hand frames of this aircraft on
          Capacity,     \* 20
          MaxPushes     \* bound on the frames pushed

ASSUME LossyAssumption ==
    /\ Capacity \in Nat /\ MaxPushes \in Nat
    /\ IsFiniteSet(Pushers) /\ Pushers # {}

VARIABLES list,         \* the items from head to tail
          pushed,       \* how many were inserted
          pusher,       \* per pusher: idle, inserted or over
          ranged        \* what the last Range went over

lossyVars == <<list, pushed, pusher, ranged>>

LossyInit ==
    /\ list = <<>> /\ pushed = 0 /\ ranged = <<>>
    /\ pusher = [p \in Pushers |-> "idle"]

(* Push, under the mutex                                                   *)
Insert(p) ==
    /\ pusher[p] = "idle" /\ pushed < MaxPushes
    /\ pushed' = pushed + 1
    /\ list' = <<pushed + 1>> \o list
    /\ pusher' = [pusher EXCEPT ![p] = "inserted"]
    /\ UNCHANGED ranged

(* The deferred comparison, without the mutex                              *)
Compare(p) ==
    /\ pusher[p] = "inserted"
    /\ pusher' = [pusher EXCEPT ![p] = IF Len(list) > Capacity THEN "over" ELSE "idle"]
    /\ UNCHANGED <<list, pushed, ranged>>

(* Mutant: the queue is shortened at its head.                             *)
UnshiftHead(p) ==
    /\ pusher[p] = "over"
    /\ list' = IF list = <<>> THEN list ELSE Tail(list)
    /\ pusher' = [pusher EXCEPT ![p] = "idle"]
    /\ UNCHANGED <<pushed, ranged>>

Unshift(p) ==
    /\ pusher[p] = "over"
    /\ list' = IF list = <<>> THEN list ELSE SubSeq(list, 1, Len(list) - 1)
    /\ pusher' = [pusher EXCEPT ![p] = "idle"]
    /\ UNCHANGED <<pushed, ranged>>

Quiet == \A p \in Pushers : pusher[p] = "idle"

(* Range stops before the item that has no next.                           *)
RangeOver ==
    /\ Quiet
    /\ ranged' = IF list = <<>> THEN <<>> ELSE SubSeq(list, 1, Len(list) - 1)
    /\ UNCHANGED <<list, pushed, pusher>>

LossyNext == RangeOver \/ \E p \in Pushers : Insert(p) \/ Compare(p) \/ Unshift(p)

(* ------------------------------------------------------------ properties *)

(* Whoever reads the list finds the newest frames, without a gap, at most  *)
(* as many as it was made for; pushes that saw the same overflow may have  *)
(* dropped a frame each, but never more than there were other pushers.     *)
NewestKept ==
    Quiet =>
        /\ \A i \in DOMAIN list : list[i] = pushed + 1 - i
        /\ Len(list) <= Capacity
        /\ Len(list) + Cardinality(Pushers) > (IF pushed < Capacity THEN pushed ELSE Capacity)
=============================================================================
