----------------------------- MODULE BTreeFilter -----------------------------
(***************************************************************************)
(* lib/dedupe/btree.go: the deduplicating filter on a B-tree, with a       *)
(* sweeper that removes old records and a Stop that waits for it.  Handle  *)
(* looks under the read lock, takes the time with no lock, and inserts     *)
(* under the write lock; sweep holds the write lock from its first to its  *)
(* last line, so it is one step.                                           *)
(*                                                                         *)
(* Instead of the time of a record the model keeps its age, up to one more *)
(* than matters.  A frame that is nil or of an unknown type is dropped and *)
(* changes nothing.                                                        *)
(***************************************************************************)
EXTENDS Integers

CONSTANTS TreeWorkers, TreeKeys,
          MaxAge          \* sweeperMaxAge, made positive

ASSUME TreeAssumption == MaxAge \in Nat

Ages == 0 .. MaxAge + 1   \* the last one stands for every older age
NoRecord == -1

VARIABLES tree,           \* per key: the age of its record, or NoRecord
          handle,         \* per worker: [at, key, age] of its Handle
          sweeper,        \* "select" or "ended"
          treeStop,       \* Stop: "not called", "sending", "done"
          passing,        \* per key: the age of the last frame passed on
          early           \* keys passed on again by a Handle that began too early

treeVars == <<tree, handle, sweeper, treeStop, passing, early>>

TreeInit ==
    /\ tree = [k \in TreeKeys |-> NoRecord]
    /\ handle = [w \in TreeWorkers |-> [at |-> "idle", key |-> CHOOSE k \in TreeKeys : TRUE, age |-> 0]]
    /\ sweeper = "select" /\ treeStop = "not called"
    /\ passing = [k \in TreeKeys |-> MaxAge + 1] /\ early = {}

(* Mutant: the look at the tree is left out.                               *)
HasNever(k) == FALSE

Has(k) == tree[k] # NoRecord

(* btree.Has; a Handle that finds nothing although the key was passed on   *)
(* no longer ago than MaxAge and every other Handle of it is over is noted.*)
Look(w, k) ==
    /\ handle[w].at = "idle"
    /\ IF Has(k) THEN UNCHANGED <<handle, early>>
       ELSE /\ handle' = [handle EXCEPT ![w] = [at |-> "stamp", key |-> k, age |-> 0]]
            /\ early' = IF passing[k] <= MaxAge
                           /\ \A v \in TreeWorkers : handle[v].at = "idle" \/ handle[v].key # k
                        THEN early \cup {k} ELSE early
    /\ UNCHANGED <<tree, sweeper, treeStop, passing>>

(* item.time = time.Now()                                                  *)
Stamp(w) ==
    /\ handle[w].at = "stamp"
    /\ handle' = [handle EXCEPT ![w].at = "insert"]
    /\ UNCHANGED <<tree, sweeper, treeStop, passing, early>>

(* ReplaceOrInsert, and the frame is passed on.  A worker that was slow    *)
(* replaces the record of a faster one by an older one.                    *)
ReplaceOrInsert(w) ==
    /\ handle[w].at = "insert"
    /\ tree' = [tree EXCEPT ![handle[w].key] = handle[w].age]
    /\ passing' = [passing EXCEPT ![handle[w].key] = handle[w].age]
    /\ handle' = [handle EXCEPT ![w].at = "idle"]
    /\ UNCHANGED <<sweeper, treeStop, early>>

(* item.time.Before(olderThan)                                             *)
Old(k) == tree[k] > MaxAge

(* Mutant: the records found are not deleted.                              *)
SweepKeeps == sweeper = "select" /\ UNCHANGED treeVars

Sweep ==
    /\ sweeper = "select"
    /\ tree' = [k \in TreeKeys |-> IF Old(k) THEN NoRecord ELSE tree[k]]
    /\ UNCHANGED <<handle, sweeper, treeStop, passing, early>>

(* Stop and the sweeper meet at the channel.                               *)
CallStop ==
    /\ treeStop = "not called" /\ treeStop' = "sending"
    /\ UNCHANGED <<tree, handle, sweeper, passing, early>>

StopSweeper ==
    /\ treeStop = "sending" /\ sweeper = "select"
    /\ treeStop' = "done" /\ sweeper' = "ended"
    /\ UNCHANGED <<tree, handle, passing, early>>

(* Time passes for the records, and for the stamp a worker holds.          *)
Older(age) == IF age = MaxAge + 1 THEN age ELSE age + 1

TreeTick ==
    /\ tree' = [k \in TreeKeys |-> IF tree[k] = NoRecord THEN NoRecord ELSE Older(tree[k])]
    /\ passing' = [k \in TreeKeys |-> Older(passing[k])]
    /\ handle' = [w \in TreeWorkers |->
                     IF handle[w].at = "insert" THEN [handle[w] EXCEPT !.age = Older(@)] ELSE handle[w]]
    /\ UNCHANGED <<sweeper, treeStop, early>>

HandleStep(w) == Stamp(w) \/ ReplaceOrInsert(w)

TreeNext ==
    \/ \E w \in TreeWorkers, k \in TreeKeys : Look(w, k)
    \/ \E w \in TreeWorkers : HandleStep(w)
    \/ Sweep \/ CallStop \/ StopSweeper \/ TreeTick

(* ------------------------------------------------------------ properties *)

(* A frame that was passed on is not passed on again within MaxAge by a    *)
(* Handle that began when no other Handle of it was under way: the only    *)
(* duplicates are those of workers between their look and their insert.    *)
OnceWithinAge == early = {}

(* A record does not stay for ever: while the sweeper runs it is swept.    *)
Forgotten == \A k \in TreeKeys : tree[k] # NoRecord ~> tree[k] = NoRecord \/ sweeper = "ended"
=============================================================================
