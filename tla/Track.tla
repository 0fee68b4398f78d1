-------------------------------- MODULE Track --------------------------------
(***************************************************************************)
(* What the location history of an aircraft promises its readers: it grows *)
(* by one place at a time, forgets only its oldest places, and two places  *)
(* that follow each other in time are no further apart than an aircraft    *)
(* can have flown in between.  Places lie on a line.                       *)
(***************************************************************************)
EXTENDS Integers, Sequences

CONSTANTS MaxHistory,   \* MaxLocationHistory, 0 for no limit
          Reach         \* the 686 metres of a second

VARIABLE track          \* sequence of [place, ts]

Gap(p, q) == IF p < q THEN q - p ELSE p - q

(* One place may follow another: it is not later, or it is within reach.   *)
(* Place 0 is what latitude 0 or longitude 0 stands for: not compared.     *)
MayFollow(prev, next) ==
    \/ prev.place = 0
    \/ next.ts <= prev.ts
    \/ Gap(prev.place, next.place) <= (1 + next.ts - prev.ts) * Reach

Kept(s) == IF MaxHistory > 0 /\ Len(s) >= MaxHistory THEN Tail(s) ELSE s

Grows(next) ==
    /\ Len(track) > 0 => MayFollow(track[Len(track)], next)
    /\ track' = Append(Kept(track), next)

TInit == track = <<>>

(* The new place is the last of the new track, whatever it is.             *)
TNext == track' # <<>> /\ Grows(track'[Len(track')])

TSpec == TInit /\ [][TNext]_track
=============================================================================
