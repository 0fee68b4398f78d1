--------------------------- MODULE WsBrokerProofs ---------------------------
(***************************************************************************)
(* TLAPS proofs about WsBroker, for any number of clients, NATS workers,   *)
(* aircraft and tiles and any requests: first what adding to a batch does, *)
(* then the inductive invariant in five groups: the locations on their way *)
(* to the clients, what a handler is subscribed to, its batch, the gauge   *)
(* of the subscriptions, and that no subscribed aircraft is lost.          *)
(*                                                                         *)
(* The last part is about ForgetfulMap, which WsBroker's globalList is one *)
(* of: whom a marble belongs to.                                           *)
(***************************************************************************)
EXTENDS WsBroker, ForgetfulMap, FiniteSetTheorems, SequenceTheorems, TLAPS

-----------------------------------------------------------------------------
(* The invariant.                                                          *)

(* The locations, the list of clients and their channels.  Only a worker   *)
(* that sends has a client it sends to, and none is left when it is idle.  *)
NInv ==
    /\ undelivered \subseteq Updates /\ cut \subseteq Updates
    /\ globalList \in [Icaos -> Updates \union {None}]
    /\ \A i \in Icaos : globalList[i] # None => globalList[i].icao = i
    /\ stale \subseteq Icaos /\ forgetsLeft \in Nat
    /\ clients \subseteq Clients /\ closed \subseteq Clients
    /\ outChan \in [Clients -> Seq(Updates)]
    /\ wpc \in [Workers -> {"idle", "range", "next", "send"}]
    /\ msg \in [Workers -> Updates \union {None}]
    /\ left \in [Workers -> SUBSET Clients]
    /\ to \in [Workers -> Clients \union {None}]
    /\ \A w \in Workers :
          /\ wpc[w] = "send" <=> to[w] # None
          /\ wpc[w] = "idle" <=> msg[w] = None
          /\ wpc[w] \in {"idle", "range"} => left[w] = {}

(* What a handler is subscribed to.  synced is part of it, and a handler   *)
(* that has not begun or has returned is subscribed to nothing.            *)
HInv ==
    /\ batching \in BOOLEAN
    /\ handler \in [Clients -> {"new", "loop", "broken", "remove", "delete", "gone"}]
    /\ subs \in [Clients -> SUBSET Grid]
    /\ synced \in [Clients -> SUBSET Grid]
    /\ wanted \in [Clients -> SUBSET ((GridNames \union {"all"}) \X HighLow)]
    /\ \A c \in Clients :
          /\ synced[c] \subseteq subs[c] /\ subs[c] \subseteq wanted[c]
          /\ handler[c] \notin {"loop", "broken"} => subs[c] = {}
          /\ handler[c] = "loop" => c \in clients

(* The requests on their way to the handler.                               *)
RInv ==
    /\ reader \in [Clients -> {"read", "ending"}]
    /\ cmds \in [Clients -> Seq(Request)]
    /\ spawned \in [Clients -> Nat] /\ requestsLeft \in [Clients -> Nat]

(* The index of a batch holds the place of every aircraft that waits, and  *)
(* of no other.                                                            *)
Indexed(b) ==
    /\ \A k \in DOMAIN b.list : b.list[k] # None => b.at[b.list[k].icao] = k
    /\ \A i \in Icaos :
          b.at[i] # 0 => /\ b.at[i] \in DOMAIN b.list
                         /\ b.list[b.at[i]] # None
                         /\ b.list[b.at[i]].icao = i

(* The locations of a batch are all ones that s covers.                    *)
Covered(list, s) ==
    \A k \in DOMAIN list : list[k] # None => locationMatchesSubs(s, list[k])

BInv ==
    /\ locationMessages \in [Clients -> Seq(Location \union {None})]
    /\ icaoIdLookup \in [Clients -> [Icaos -> Nat]]
    /\ known \in [Clients -> SUBSET Icaos]
    /\ \A c \in Clients :
          /\ Indexed(PendingBatch(c))
          /\ Covered(locationMessages[c], wanted[c])

(* The gauge of a tile counts at least those that are subscribed to it.    *)
Holders(k) == {c \in Clients : k \in subs[c]}

GInv ==
    /\ subscriptions \in [Grid -> Int]
    /\ \A k \in Grid : Cardinality(Holders(k)) <= subscriptions[k]

(* The location u itself is on its way to client c.                        *)
OnItsWay(c, u) ==
    \/ \E k \in DOMAIN outChan[c] : outChan[c][k] = u
    \/ \E w \in Workers :
          /\ msg[w] = u
          /\ wpc[w] = "range" \/ c \in left[w] \/ to[w] = c

(* Client c set its tiles and i is on one of them.                         *)
Due(c, i) ==
    /\ globalList[i] # None
    /\ i \notin stale
    /\ tileMatchesSubs(synced[c], globalList[i].tile, globalList[i].feed)

FollowInv ==
    \A c \in Listening : \A i \in Icaos :
        Due(c, i) => \/ i \in known[c]
                     \/ i \in IcaosOf(locationMessages[c])
                     \/ OnItsWay(c, globalList[i])
                     \/ globalList[i] \in cut

IInv == NInv /\ HInv /\ RInv /\ BInv /\ GInv /\ FollowInv

-----------------------------------------------------------------------------
(* Sequences, and a set written as one.                                    *)

LEMMA SeqFacts ==
    ASSUME NEW S, NEW s \in Seq(S)
    PROVE  /\ Len(s) \in Nat /\ DOMAIN s = 1 .. Len(s)
           /\ \A k \in DOMAIN s : s[k] \in S
  BY LenProperties, ElementOfSeq

LEMMA SetToSeqFacts ==
    ASSUME NEW S, IsFiniteSet(S)
    PROVE  /\ SetToSeq(S) \in Seq(S)
           /\ \A x \in S : \E k \in DOMAIN SetToSeq(S) : SetToSeq(S)[k] = x
           /\ \A j, k \in DOMAIN SetToSeq(S) :
                 SetToSeq(S)[j] = SetToSeq(S)[k] => j = k
<1> DEFINE n == Cardinality(S)
<1>1. n \in Nat /\ ExistsBijection(1 .. n, S)
  BY FS_CardinalityType
<1>2. \E f \in [1 .. n -> S] : IsInjective(f)
  BY <1>1 DEF ExistsBijection, Bijection, Injection
<1>3. SetToSeq(S) \in [1 .. n -> S] /\ IsInjective(SetToSeq(S))
  BY <1>2 DEF SetToSeq
<1>4. SetToSeq(S) \in Injection(1 .. n, S)
  BY <1>3 DEF Injection
<1>5. Cardinality(1 .. n) = n
  BY <1>1, FS_Interval
<1>6. SetToSeq(S) \in Surjection(1 .. n, S)
  BY <1>4, <1>5, FS_Injection
<1>7. SetToSeq(S) \in Seq(S) /\ DOMAIN SetToSeq(S) = 1 .. n
  BY <1>1, <1>3
<1>8. \A x \in S : \E k \in 1 .. n : SetToSeq(S)[k] = x
  BY <1>6 DEF Surjection
<1>9. \A j, k \in 1 .. n : SetToSeq(S)[j] = SetToSeq(S)[k] => j = k
  BY <1>3 DEF IsInjective
<1> QED
  BY <1>7, <1>8, <1>9

-----------------------------------------------------------------------------
(* Adding to a batch.                                                      *)

LEMMA NoneApart == /\ \A loc \in Location : loc # None /\ loc.icao \in Icaos
                   /\ Updates \subseteq Location
  BY WsBrokerAssumption DEF Location

(* A location joins: all that waited still waits or was replaced by it.    *)
LEMMA AddOne ==
    ASSUME NEW b \in Batch, Indexed(b), NEW loc \in Location,
           NEW r, r = AddToBatch(b, loc)
    PROVE  /\ r \in Batch /\ Indexed(r)
           /\ IcaosOf(b.list) \union {loc.icao} \subseteq IcaosOf(r.list)
           /\ \A k \in DOMAIN r.list :
                 \/ r.list[k] \in {None, loc}
                 \/ \E j \in DOMAIN b.list : r.list[k] = b.list[j]
<1> DEFINE i == loc.icao
<1>1. /\ b = [list |-> b.list, at |-> b.at]
      /\ b.list \in Seq(Location \union {None}) /\ b.at \in [Icaos -> Nat]
  BY DEF Batch
<1>2. /\ i \in Icaos /\ loc # None /\ loc \in Location \union {None}
      /\ \A l \in Location : l # None
  BY NoneApart
<1>3. /\ Len(b.list) \in Nat /\ DOMAIN b.list = 1 .. Len(b.list)
      /\ \A k \in DOMAIN b.list : b.list[k] \in Location \union {None}
  BY <1>1, SeqFacts
<1>4. CASE b.at[i] # 0
  <2>1. r.list = [b.list EXCEPT ![b.at[i]] = loc] /\ r.at = b.at
        /\ r = [list |-> r.list, at |-> r.at]
    BY <1>1, <1>4 DEF AddToBatch, Batch
  <2>2. b.at[i] \in 1 .. Len(b.list) /\ b.list[b.at[i]].icao = i
        /\ b.list[b.at[i]] # None
    BY <1>2, <1>3, <1>4 DEF Indexed
  <2>3. /\ r.list \in Seq(Location \union {None}) /\ Len(r.list) = Len(b.list)
        /\ \A j \in 1 .. Len(b.list) :
              r.list[j] = IF j = b.at[i] THEN loc ELSE b.list[j]
    BY <1>1, <1>2, <2>1, <2>2, ExceptSeq
  <2>4. r \in Batch
    BY <1>1, <2>1, <2>3 DEF Batch
  <2>5. DOMAIN r.list = 1 .. Len(b.list)
    BY <2>3, SeqFacts
  <2>6. Indexed(r)
    <3>1. ASSUME NEW k \in DOMAIN r.list, r.list[k] # None
          PROVE  r.at[r.list[k].icao] = k
      <4>1. CASE k = b.at[i]
        BY <2>1, <2>3, <2>5, <3>1, <4>1
      <4>2. CASE k # b.at[i]
        BY <1>3, <2>1, <2>3, <2>5, <3>1, <4>2 DEF Indexed
      <4> QED
        BY <4>1, <4>2
    <3>2. ASSUME NEW j \in Icaos, r.at[j] # 0
          PROVE  /\ r.at[j] \in DOMAIN r.list /\ r.list[r.at[j]] # None
                 /\ r.list[r.at[j]].icao = j
      <4>1. /\ b.at[j] \in 1 .. Len(b.list) /\ b.list[b.at[j]] # None
            /\ b.list[b.at[j]].icao = j /\ r.at[j] = b.at[j]
        BY <1>3, <2>1, <3>2 DEF Indexed
      <4>2. CASE b.at[j] = b.at[i]
        BY <1>2, <2>2, <2>3, <2>5, <4>1, <4>2
      <4>3. CASE b.at[j] # b.at[i]
        BY <2>3, <2>5, <4>1, <4>3
      <4> QED
        BY <4>2, <4>3
    <3> QED
      BY <3>1, <3>2 DEF Indexed
  <2>7. IcaosOf(b.list) \union {i} \subseteq IcaosOf(r.list)
    BY <1>2, <1>3, <2>2, <2>3, <2>5 DEF IcaosOf
  <2>8. \A k \in DOMAIN r.list :
           r.list[k] = loc \/ \E j \in DOMAIN b.list : r.list[k] = b.list[j]
    BY <1>3, <2>3, <2>5
  <2> QED
    BY <2>4, <2>6, <2>7, <2>8
<1>5. CASE b.at[i] = 0
  <2>1. r.list = Append(b.list, loc)
        /\ r.at = [b.at EXCEPT ![i] = Len(b.list) + 1]
        /\ r = [list |-> r.list, at |-> r.at]
    BY <1>5 DEF AddToBatch
  <2>2. /\ r.list \in Seq(Location \union {None})
        /\ Len(r.list) = Len(b.list) + 1
        /\ \A j \in 1 .. Len(b.list) : r.list[j] = b.list[j]
        /\ r.list[Len(b.list) + 1] = loc
    BY <1>1, <1>2, <2>1, AppendProperties
  <2>3. r.at \in [Icaos -> Nat] /\ r.at[i] = Len(b.list) + 1
        /\ \A j \in Icaos \ {i} : r.at[j] = b.at[j]
    BY <1>1, <1>2, <1>3, <2>1
  <2>4. r \in Batch
    BY <2>1, <2>2, <2>3 DEF Batch
  <2>5. DOMAIN r.list = 1 .. Len(b.list) + 1
    BY <2>2, SeqFacts
  <2>6. \A k \in DOMAIN b.list : b.list[k] # None => b.list[k].icao # i
    BY <1>3, <1>5 DEF Indexed
  <2>7. \A k \in DOMAIN b.list : b.list[k] # None => b.list[k].icao \in Icaos
    BY <1>3, NoneApart
  <2>8. Indexed(r)
    <3>1. \A k \in 1 .. Len(b.list) + 1 :
             r.list[k] # None => r.at[r.list[k].icao] = k
      <4> TAKE k \in 1 .. Len(b.list) + 1
      <4>1. CASE k = Len(b.list) + 1
        BY <2>2, <2>3, <4>1
      <4>2. CASE k \in 1 .. Len(b.list)
        <5>1. r.list[k] = b.list[k] /\ (b.list[k] # None => b.at[b.list[k].icao] = k)
          BY <1>3, <2>2, <4>2 DEF Indexed
        <5>2. b.list[k] # None => b.list[k].icao \in Icaos \ {i}
          BY <1>3, <2>6, <2>7, <4>2
        <5> QED
          BY <2>3, <5>1, <5>2
      <4> QED
        BY <1>3, <4>1, <4>2
    <3>2. \A j \in Icaos :
             r.at[j] # 0 => /\ r.at[j] \in 1 .. Len(b.list) + 1
                            /\ r.list[r.at[j]] # None /\ r.list[r.at[j]].icao = j
      <4> TAKE j \in Icaos
      <4>1. CASE j = i
        BY <1>2, <1>3, <2>2, <2>3, <4>1
      <4>2. CASE j # i
        <5>1. r.at[j] = b.at[j]
          BY <2>3, <4>2
        <5>2. b.at[j] # 0 => /\ b.at[j] \in 1 .. Len(b.list)
                             /\ b.list[b.at[j]] # None /\ b.list[b.at[j]].icao = j
          BY <1>3 DEF Indexed
        <5> QED
          BY <1>3, <2>2, <5>1, <5>2
      <4> QED
        BY <4>1, <4>2
    <3> QED
      BY <2>5, <3>1, <3>2 DEF Indexed
  <2>9. IcaosOf(b.list) \union {i} \subseteq IcaosOf(r.list)
    BY <1>2, <1>3, <2>2, <2>5 DEF IcaosOf
  <2>10. \A k \in DOMAIN r.list :
            r.list[k] = loc \/ \E j \in DOMAIN b.list : r.list[k] = b.list[j]
    BY <1>3, <2>2, <2>5
  <2> QED
    BY <2>4, <2>8, <2>9, <2>10
<1> QED
  BY <1>4, <1>5

(* So do several, each the location of another aircraft.                   *)
LEMMA AddAll ==
    ASSUME NEW b \in Batch, Indexed(b),
           NEW locs \in SUBSET Location, IsFiniteSet(locs),
           \A l, m \in locs : l.icao = m.icao => l = m,
           NEW r, r = AddAllToBatch(b, locs)
    PROVE  /\ r \in Batch /\ Indexed(r)
           /\ IcaosOf(b.list) \union {loc.icao : loc \in locs} \subseteq IcaosOf(r.list)
           /\ \A k \in DOMAIN r.list :
                 \/ r.list[k] = None \/ r.list[k] \in locs
                 \/ \E j \in DOMAIN b.list : r.list[k] = b.list[j]
<1> DEFINE n == Len(b.list)
           fresh == {loc \in locs : b.at[loc.icao] = 0}
           old == {loc \in locs : b.at[loc.icao] # 0}
           new == SetToSeq(fresh)
           kept == [k \in DOMAIN b.list |->
                      IF \E loc \in old : b.at[loc.icao] = k
                      THEN CHOOSE loc \in old : b.at[loc.icao] = k
                      ELSE b.list[k]]
           place(i) == CHOOSE k \in DOMAIN new : new[k].icao = i
<1>1. /\ r = [list |-> r.list, at |-> r.at]
      /\ r.list = kept \o new
      /\ r.at = [i \in Icaos |-> IF \E k \in DOMAIN new : new[k].icao = i
                                 THEN n + place(i) ELSE b.at[i]]
  BY DEF AddAllToBatch
<1>2. /\ b.list \in Seq(Location \union {None}) /\ b.at \in [Icaos -> Nat]
  BY DEF Batch
<1>3. /\ n \in Nat /\ DOMAIN b.list = 1 .. n
      /\ \A k \in 1 .. n : b.list[k] \in Location \union {None}
  BY <1>2, SeqFacts
<1>4. \A l \in Location : l # None /\ l.icao \in Icaos
  BY NoneApart
<1>5. /\ new \in Seq(fresh)
      /\ \A x \in fresh : \E k \in DOMAIN new : new[k] = x
      /\ \A j, k \in DOMAIN new : new[j] = new[k] => j = k
  <2>1. IsFiniteSet(fresh)
    BY FS_Subset
  <2> HIDE DEF fresh
  <2> QED
    BY <2>1, SetToSeqFacts
<1>6. /\ Len(new) \in Nat /\ DOMAIN new = 1 .. Len(new)
      /\ \A k \in 1 .. Len(new) : new[k] \in fresh
  <2> HIDE DEF new, fresh
  <2> QED
    BY <1>5, SeqFacts
<1>7. \A k \in 1 .. n :
         \/ kept[k] \in old /\ b.at[kept[k].icao] = k
         \/ kept[k] = b.list[k] /\ \A loc \in old : b.at[loc.icao] # k
  <2> TAKE k \in 1 .. n
  <2>1. CASE \E loc \in old : b.at[loc.icao] = k
    <3>1. kept[k] = CHOOSE loc \in old : b.at[loc.icao] = k
      BY <1>3, <2>1
    <3> HIDE DEF kept, old
    <3> QED
      BY <2>1, <3>1
  <2>2. CASE ~ \E loc \in old : b.at[loc.icao] = k
    BY <1>3, <2>2
  <2> QED
    BY <2>1, <2>2
<1>8. \A i \in Icaos :
         \/ place(i) \in 1 .. Len(new) /\ new[place(i)].icao = i /\ r.at[i] = n + place(i)
         \/ r.at[i] = b.at[i] /\ \A k \in 1 .. Len(new) : new[k].icao # i
  <2> HIDE DEF new
  <2> QED
    BY <1>1, <1>6
<1>9. kept \in Seq(Location \union {None}) /\ Len(kept) = n
  <2>1. kept \in [1 .. n -> Location \union {None}]
    <3>1. \A k \in 1 .. n : kept[k] \in Location \union {None}
      BY <1>3, <1>7
    <3>2. kept = [k \in 1 .. n |-> kept[k]]
      BY <1>3
    <3> HIDE DEF kept
    <3> QED
      BY <3>1, <3>2
  <2> HIDE DEF kept
  <2> QED
    BY <1>3, <2>1
<1>10. new \in Seq(Location \union {None})
  <2>1. fresh \subseteq Location \union {None}
    OBVIOUS
  <2> HIDE DEF fresh, new
  <2> QED
    BY <1>5, <2>1, SeqMonotonic
<1>11. /\ r.list \in Seq(Location \union {None})
       /\ Len(r.list) = n + Len(new)
       /\ \A k \in 1 .. n + Len(new) :
             r.list[k] = IF k <= n THEN kept[k] ELSE new[k - n]
  <2> HIDE DEF kept, new, n
  <2>1. /\ kept \o new \in Seq(Location \union {None})
        /\ Len(kept \o new) = Len(kept) + Len(new)
        /\ \A k \in 1 .. Len(kept) + Len(new) :
              (kept \o new)[k] = IF k <= Len(kept) THEN kept[k] ELSE new[k - Len(kept)]
    BY <1>9, <1>10, ConcatProperties
  <2> QED
    BY <1>1, <1>9, <2>1
<1>12. DOMAIN r.list = 1 .. n + Len(new)
  BY <1>11, SeqFacts
<1>13. \A l \in fresh : l \in locs /\ b.at[l.icao] = 0
  OBVIOUS
<1>14. \A l \in old : l \in locs /\ b.at[l.icao] # 0
  OBVIOUS
<1>15. \A l \in locs : l \in fresh \/ l \in old
  OBVIOUS
<1> HIDE DEF n, fresh, old, new, kept, place
<1>16. r.at \in [Icaos -> Nat]
  <2>1. \A i \in Icaos : r.at[i] \in Nat
    BY <1>2, <1>3, <1>6, <1>8
  <2> QED
    BY <1>1, <2>1
<1>17. r \in Batch
  BY <1>1, <1>11, <1>16 DEF Batch
<1>18. \A k \in 1 .. n : r.list[k] = kept[k]
  BY <1>3, <1>6, <1>11
<1>19. \A k \in 1 .. Len(new) : r.list[n + k] = new[k]
  BY <1>3, <1>6, <1>11, SMTT(30)
<1>20. \A k \in 1 .. n : kept[k] # None => b.at[kept[k].icao] = k
  BY <1>3, <1>7 DEF Indexed
<1>21. \A k \in 1 .. n : kept[k] # None => kept[k] \in Location
  BY <1>7, <1>3, <1>14
<1>22. ASSUME NEW k \in DOMAIN r.list, r.list[k] # None
       PROVE  r.at[r.list[k].icao] = k
  <2>1. CASE k <= n
    <3>1. k \in 1 .. n /\ r.list[k] = kept[k] /\ kept[k] # None
      BY <1>3, <1>6, <1>12, <1>18, <1>22, <2>1
    <3>2. kept[k].icao \in Icaos /\ b.at[kept[k].icao] = k /\ k # 0
      BY <1>4, <1>20, <1>21, <3>1
    <3>3. \A j \in 1 .. Len(new) : new[j].icao # kept[k].icao
      BY <1>6, <1>13, <3>2
    <3> QED
      BY <1>8, <3>1, <3>2, <3>3
  <2>2. CASE k > n
    <3>1. PICK j \in 1 .. Len(new) : k = n + j
      <4>1. k - n \in 1 .. Len(new) /\ k = n + (k - n)
        BY <1>3, <1>6, <1>12, <2>2
      <4> QED
        BY <4>1
    <3>2. r.list[k] = new[j] /\ new[j] \in locs /\ new[j].icao \in Icaos
      BY <1>4, <1>6, <1>13, <1>19, <3>1
    <3>3. place(new[j].icao) \in 1 .. Len(new)
          /\ new[place(new[j].icao)].icao = new[j].icao
          /\ r.at[new[j].icao] = n + place(new[j].icao)
      BY <1>8, <3>2
    <3>4. new[place(new[j].icao)] \in locs
      BY <1>6, <1>13, <3>3
    <3>5. new[place(new[j].icao)] = new[j]
      BY <3>2, <3>3, <3>4
    <3>6. place(new[j].icao) = j
      BY <1>5, <1>6, <3>3, <3>5
    <3> QED
      BY <3>1, <3>2, <3>3, <3>6
  <2> QED
    BY <1>3, <1>6, <1>12, <2>1, <2>2
<1>23. ASSUME NEW i \in Icaos, r.at[i] # 0
       PROVE  r.at[i] \in DOMAIN r.list /\ r.list[r.at[i]] # None /\ r.list[r.at[i]].icao = i
  <2>1. CASE place(i) \in 1 .. Len(new) /\ new[place(i)].icao = i /\ r.at[i] = n + place(i)
    <3>1. r.list[r.at[i]] = new[place(i)] /\ new[place(i)] # None
      BY <1>4, <1>6, <1>13, <1>19, <2>1
    <3> QED
      BY <1>3, <1>6, <1>12, <2>1, <3>1
  <2>2. CASE r.at[i] = b.at[i]
    <3>1. /\ b.at[i] \in 1 .. n /\ b.list[b.at[i]] # None
          /\ b.list[b.at[i]].icao = i
      BY <1>3, <1>23, <2>2 DEF Indexed
    <3>2. r.list[b.at[i]] = kept[b.at[i]]
      BY <1>18, <3>1
    <3>3. CASE kept[b.at[i]] \in old /\ b.at[kept[b.at[i]].icao] = b.at[i]
      <4>1. kept[b.at[i]].icao \in Icaos /\ kept[b.at[i]] # None
        BY <1>4, <1>14, <3>3
      <4>2. b.list[b.at[kept[b.at[i]].icao]].icao = kept[b.at[i]].icao
        BY <3>1, <3>3, <4>1, <1>3 DEF Indexed
      <4>3. kept[b.at[i]].icao = i
        BY <3>1, <3>3, <4>2
      <4> QED
        BY <1>3, <1>6, <1>12, <2>2, <3>1, <3>2, <4>1, <4>3
    <3>4. CASE kept[b.at[i]] = b.list[b.at[i]]
      BY <1>3, <1>6, <1>12, <2>2, <3>1, <3>2, <3>4
    <3> QED
      BY <1>7, <3>1, <3>3, <3>4
  <2> QED
    BY <1>8, <2>1, <2>2
<1>24. Indexed(r)
  BY <1>22, <1>23 DEF Indexed
<1>25. \A i \in Icaos : b.at[i] # 0 => r.at[i] # 0
  BY <1>2, <1>3, <1>6, <1>8
<1>26. \A l \in locs : r.at[l.icao] # 0
  <2> TAKE l \in locs
  <2>1. CASE l \in fresh
    <3>1. PICK k \in 1 .. Len(new) : new[k] = l
      BY <1>5, <1>6, <2>1
    <3> QED
      BY <1>3, <1>4, <1>6, <1>8, <3>1
  <2>2. CASE l \in old
    BY <1>4, <1>14, <1>25, <2>2
  <2> QED
    BY <1>15, <2>1, <2>2
<1>27. \A i \in Icaos : r.at[i] # 0 => i \in IcaosOf(r.list)
  BY <1>23 DEF IcaosOf
<1>28. IcaosOf(b.list) \subseteq IcaosOf(r.list)
  <2>1. SUFFICES ASSUME NEW k \in 1 .. n, b.list[k] # None
                 PROVE  b.list[k].icao \in IcaosOf(r.list)
    BY <1>3 DEF IcaosOf
  <2>2. b.list[k].icao \in Icaos /\ b.at[b.list[k].icao] = k /\ k # 0
    BY <1>3, <1>4, <2>1 DEF Indexed
  <2> QED
    BY <1>25, <1>27, <2>2
<1>29. \A l \in locs : l.icao \in IcaosOf(r.list)
  BY <1>4, <1>26, <1>27
<1>30. ASSUME NEW k \in DOMAIN r.list
       PROVE  \/ r.list[k] = None \/ r.list[k] \in locs
              \/ \E j \in DOMAIN b.list : r.list[k] = b.list[j]
  <2>1. CASE k <= n
    BY <1>3, <1>6, <1>7, <1>12, <1>14, <1>18, <2>1
  <2>2. CASE k > n
    <3>1. k - n \in 1 .. Len(new) /\ r.list[k] = new[k - n]
      BY <1>3, <1>6, <1>11, <1>12, <2>2
    <3> QED
      BY <1>6, <1>13, <3>1
  <2> QED
    BY <1>3, <1>6, <1>12, <2>1, <2>2
<1> QED
  BY <1>17, <1>24, <1>28, <1>29, <1>30

-----------------------------------------------------------------------------
(* The locations and the channels.                                         *)
wireVars == <<natsVars, listVars, chanVars>>

LEMMA InitNInv == Init => NInv
<1> SUFFICES ASSUME Init PROVE NInv
  OBVIOUS
<1>1. /\ undelivered = Updates /\ cut = {} /\ stale = {} /\ clients = {}
      /\ closed = {} /\ forgetsLeft = MaxForgets
      /\ globalList = [i \in Icaos |-> None]
      /\ outChan = [c \in Clients |-> << >>]
      /\ wpc = [w \in Workers |-> "idle"] /\ msg = [w \in Workers |-> None]
      /\ left = [w \in Workers |-> {}] /\ to = [w \in Workers |-> None]
  BY DEF Init
<1>2. outChan \in [Clients -> Seq(Updates)]
  BY <1>1
<1> QED
  BY <1>1, <1>2, WsBrokerAssumption DEF NInv

LEMMA SameNInv == ASSUME NInv, UNCHANGED wireVars PROVE NInv'
  BY DEF NInv, wireVars, natsVars, listVars, chanVars

(* What the handlers and readers do with their own state.                  *)
LEMMA OwnState ==
    ASSUME NEW c \in Clients,
           \/ ForgetSubs(c) \/ ReadError(c) \/ Command(c) \/ ReplyAsync(c) \/ SendTick(c)
           \/ \E r \in Requests[c] : ReadRequest(c, r)
    PROVE  UNCHANGED wireVars
  BY DEF ForgetSubs, ReadError, Command, ReplyAsync, SendTick, ReadRequest, Takes,
         Exit, Subscribe, Unsubscribe, SetSubscribedTiles, GridPlanes, Reply, wireVars

LEMMA StepNInv == ASSUME NInv, [Next]_vars PROVE NInv'
<1> USE DEF natsVars, listVars, chanVars
<1>0. /\ None \notin Updates /\ None \notin Clients
      /\ \A u \in Updates : u.icao \in Icaos
  BY NoneApart, WsBrokerAssumption
<1>1. ASSUME NEW w \in Workers, globalListUpdate(w) PROVE NInv'
  <2>1. PICK u \in undelivered :
           /\ undelivered' = undelivered \ {u} /\ msg' = [msg EXCEPT ![w] = u]
           /\ globalList' = [globalList EXCEPT ![u.icao] = u]
           /\ stale' = stale \ {u.icao}
    BY <1>1 DEF globalListUpdate
  <2>2. u \in Updates /\ u # None /\ u.icao \in Icaos
    BY <1>0 DEF NInv
  <2>3. /\ globalList' \in [Icaos -> Updates \union {None}]
        /\ \A i \in Icaos : globalList'[i] # None => globalList'[i].icao = i
    BY <2>1, <2>2 DEF NInv
  <2>4. /\ wpc[w] = "idle" /\ wpc' = [wpc EXCEPT ![w] = "range"]
        /\ UNCHANGED <<left, to, cut, forgetsLeft, clients, outChan, closed>>
    BY <1>1 DEF globalListUpdate
  <2> QED
    BY <2>1, <2>2, <2>3, <2>4 DEF NInv
<1>2. ASSUME NEW w \in Workers, StartRange(w) PROVE NInv'
  BY <1>2 DEF StartRange, NInv
<1>3. ASSUME NEW w \in Workers, NEW c \in Clients, VisitClient(w, c) PROVE NInv'
  <2>1. /\ UNCHANGED <<undelivered, cut, globalList, stale, forgetsLeft, clients, closed,
                       outChan, msg>>
        /\ left' = [left EXCEPT ![w] = left[w] \ {c}]
        /\ wpc[w] = "next"
    BY <1>3 DEF VisitClient
  <2>2. \/ wpc' = [wpc EXCEPT ![w] = "send"] /\ to' = [to EXCEPT ![w] = c]
        \/ wpc' = wpc /\ to' = to
    BY <1>3 DEF VisitClient
  <2>3. left' \in [Workers -> SUBSET Clients]
    BY <2>1 DEF NInv
  <2>4. CASE wpc' = [wpc EXCEPT ![w] = "send"] /\ to' = [to EXCEPT ![w] = c]
    BY <1>0, <2>1, <2>3, <2>4 DEF NInv
  <2>5. CASE wpc' = wpc /\ to' = to
    BY <2>1, <2>3, <2>5 DEF NInv
  <2> QED
    BY <2>2, <2>4, <2>5
<1>4. ASSUME NEW w \in Workers, SendToClient(w) PROVE NInv'
  <2>1. /\ to[w] \in Clients /\ msg[w] \in Updates
        /\ wpc[w] = "send"
    BY <1>4 DEF SendToClient, NInv
  <2>2. Append(outChan[to[w]], msg[w]) \in Seq(Updates)
    BY <2>1, AppendProperties DEF NInv
  <2>3. outChan' \in [Clients -> Seq(Updates)]
    BY <1>4, <2>1, <2>2 DEF SendToClient, NInv
  <2>4. /\ wpc' = [wpc EXCEPT ![w] = "next"] /\ to' = [to EXCEPT ![w] = None]
        /\ UNCHANGED <<undelivered, msg, left, cut, globalList, stale, forgetsLeft,
                       clients, closed>>
    BY <1>4 DEF SendToClient, Sent
  <2> QED
    BY <2>1, <2>3, <2>4 DEF NInv
<1>5. ASSUME NEW w \in Workers, SendPanics(w) PROVE NInv'
  BY <1>5 DEF SendPanics, Sent, NInv
<1>6. ASSUME NEW w \in Workers, EndRange(w) PROVE NInv'
  BY <1>6 DEF EndRange, NInv
<1>7. ASSUME NEW i \in Icaos, GrowStale(i) PROVE NInv'
  <2>1. /\ UNCHANGED <<undelivered, cut, clients, closed, outChan, wpc, msg, left, to>>
        /\ forgetsLeft' \in Nat
    BY <1>7 DEF GrowStale, NInv
  <2>2. /\ stale' \subseteq Icaos
        /\ globalList' \in [Icaos -> Updates \union {None}]
        /\ \A j \in Icaos : globalList'[j] # None => globalList'[j].icao = j
    BY <1>7 DEF GrowStale, NInv
  <2> QED
    BY <2>1, <2>2 DEF NInv
<1>8. ASSUME NEW c \in Clients, addClient(c) \/ CloseOutChan(c) \/ DeleteClient(c)
      PROVE  NInv'
  BY <1>8 DEF addClient, CloseOutChan, DeleteClient, NInv
<1>9. ASSUME NEW c \in Clients, TakeLocation(c) PROVE NInv'
  <2>1. /\ UNCHANGED <<undelivered, cut, globalList, stale, forgetsLeft, clients, closed,
                       wpc, msg, left, to>>
        /\ outChan[c] # << >> /\ outChan' = [outChan EXCEPT ![c] = Tail(outChan[c])]
    BY <1>9 DEF TakeLocation
  <2>2. Tail(outChan[c]) \in Seq(Updates)
    BY <2>1, HeadTailProperties DEF NInv
  <2>3. outChan' \in [Clients -> Seq(Updates)]
    BY <2>1, <2>2 DEF NInv
  <2> QED
    BY <2>1, <2>3 DEF NInv
<1>10. CASE UNCHANGED vars
  BY <1>10, SameNInv DEF vars, wireVars
<1> QED
  BY <1>1, <1>2, <1>3, <1>4, <1>5, <1>6, <1>7, <1>8, <1>9, <1>10, OwnState, SameNInv
     DEF Next, Fanout, servePlanes, Handle, removeClient

-----------------------------------------------------------------------------
(* The requests.                                                           *)

LEMMA CommandsType == ASSUME NEW r \in Request PROVE CommandsFor(r) \in Seq(Request)
<1>1. [type |-> "grid", tile |-> IF r.key \in Tiles THEN r.key ELSE None] \in Request
  <2>1. \A t \in GridNames \union {None} :
           [type |-> "grid", tile |-> t] \in [type : {"grid"}, tile : GridNames \union {None}]
    OBVIOUS
  <2>2. (IF r.key \in Tiles THEN r.key ELSE None) \in GridNames \union {None}
    BY DEF GridNames
  <2> QED
    BY <2>1, <2>2 DEF Request
<1> HIDE DEF Request
<1> QED
  BY <1>1 DEF CommandsFor

LEMMA InitRInv == Init => RInv
<1> SUFFICES ASSUME Init PROVE RInv
  OBVIOUS
<1>1. cmds \in [Clients -> Seq(Request)]
  BY DEF Init
<1> QED
  BY <1>1, WsBrokerAssumption DEF Init, RInv

LEMMA StepRInv == ASSUME RInv, [Next]_vars PROVE RInv'
<1>1. ASSUME NEW c \in Clients, NEW r \in Requests[c], ReadRequest(c, r) PROVE RInv'
  <2>1. r \in Request
    BY WsBrokerAssumption
  <2>2. CommandsFor(r) \in Seq(Request)
    BY <2>1, CommandsType
  <2>3. cmds' = cmds \/ cmds' = [cmds EXCEPT ![c] = CommandsFor(r)]
    BY <1>1 DEF ReadRequest
  <2>4. cmds' \in [Clients -> Seq(Request)]
    BY <2>2, <2>3 DEF RInv
  <2>5. /\ spawned' \in [Clients -> Nat] /\ requestsLeft' \in [Clients -> Nat]
        /\ reader' = reader
    <3>1. /\ requestsLeft[c] > 0 /\ requestsLeft' = [requestsLeft EXCEPT ![c] = @ - 1]
          /\ spawned' = [spawned EXCEPT ![c] = @ + 1] \/ spawned' = spawned
          /\ reader' = reader
      BY <1>1 DEF ReadRequest
    <3>2. requestsLeft' \in [Clients -> Nat]
      BY <3>1 DEF RInv
    <3>3. spawned' \in [Clients -> Nat]
      BY <3>1 DEF RInv
    <3> QED
      BY <3>1, <3>2, <3>3
  <2> QED
    BY <2>4, <2>5 DEF RInv
<1>2. ASSUME NEW c \in Clients, ReadError(c) PROVE RInv'
  <2>1. <<[type |-> "exit"]>> \in Seq(Request)
    BY DEF Request
  <2>2. /\ cmds' = [cmds EXCEPT ![c] = <<[type |-> "exit"]>>]
        /\ reader' = [reader EXCEPT ![c] = "ending"]
        /\ UNCHANGED <<spawned, requestsLeft>>
    BY <1>2 DEF ReadError
  <2>3. cmds' \in [Clients -> Seq(Request)]
    BY <2>1, <2>2 DEF RInv
  <2> QED
    BY <2>2, <2>3 DEF RInv
<1>3. ASSUME NEW c \in Clients, Command(c) PROVE RInv'
  <2>1. /\ cmds[c] # << >> /\ cmds' = [cmds EXCEPT ![c] = Tail(cmds[c])]
        /\ UNCHANGED <<reader, spawned, requestsLeft>>
    BY <1>3 DEF Command, Takes, Exit, Subscribe, Unsubscribe, SetSubscribedTiles,
                GridPlanes, Reply
  <2>2. Tail(cmds[c]) \in Seq(Request)
    BY <2>1, HeadTailProperties DEF RInv
  <2>3. cmds' \in [Clients -> Seq(Request)]
    BY <2>1, <2>2 DEF RInv
  <2> QED
    BY <2>1, <2>3 DEF RInv
<1>4. ASSUME NEW c \in Clients, ReplyAsync(c) PROVE RInv'
  BY <1>4 DEF ReplyAsync, RInv
<1>5. ASSUME UNCHANGED readerVars PROVE RInv'
  BY <1>5 DEF readerVars, RInv
<1>6. ASSUME NEW c \in Clients, \/ TakeLocation(c) \/ SendTick(c) \/ addClient(c)
                                \/ removeClient(c)
      PROVE  UNCHANGED readerVars
  BY <1>6 DEF TakeLocation, SendTick, addClient, removeClient, ForgetSubs, CloseOutChan,
              DeleteClient
<1>7. ASSUME NEW w \in Workers, globalListUpdate(w) \/ Fanout(w) PROVE UNCHANGED readerVars
  BY <1>7 DEF globalListUpdate, Fanout, StartRange, VisitClient, SendToClient,
              SendPanics, EndRange
<1>8. ASSUME NEW i \in Icaos, GrowStale(i) PROVE UNCHANGED readerVars
  BY <1>8 DEF GrowStale
<1>9. CASE UNCHANGED vars
  BY <1>5, <1>9 DEF vars
<1> QED
  BY <1>1, <1>2, <1>3, <1>4, <1>5, <1>6, <1>7, <1>8, <1>9 DEF Next, servePlanes, Handle

-----------------------------------------------------------------------------
(* The subscriptions and their gauge.                                      *)

(* What a handler does with them, whichever case of its select it takes:   *)
(* it changes its own only, and the gauge goes up for what is new in them  *)
(* and down at most for what is gone.                                      *)
ServedHandler(c) ==
    /\ UNCHANGED <<batching, clients>>
    /\ handler[c] \in {"loop", "broken"}
    /\ handler'[c] \in {"loop", "broken", "remove"}
    /\ handler'[c] = "loop" => handler[c] = "loop"
    /\ handler' = [handler EXCEPT ![c] = handler'[c]]

ServedSubs(c) ==
    /\ subs' = [subs EXCEPT ![c] = subs'[c]]
    /\ synced' = [synced EXCEPT ![c] = synced'[c]]
    /\ wanted' = [wanted EXCEPT ![c] = wanted'[c]]
    /\ subs'[c] \subseteq Grid
    /\ synced'[c] \subseteq subs'[c] /\ subs'[c] \subseteq wanted'[c]
    /\ wanted'[c] \subseteq (GridNames \union {"all"}) \X HighLow
    /\ handler'[c] = "remove" => subs'[c] = {}

ServedGauge(c) ==
    /\ subscriptions' \in [Grid -> Int]
    /\ \A k \in Grid :
          /\ k \in subs'[c] \ subs[c] => subscriptions'[k] >= subscriptions[k] + 1
          /\ k \in subs[c] \ subs'[c] => subscriptions'[k] >= subscriptions[k] - 1
          /\ (k \in subs[c] <=> k \in subs'[c]) => subscriptions'[k] >= subscriptions[k]

Served(c) == ServedHandler(c) /\ ServedSubs(c) /\ ServedGauge(c)

LEMMA GridWanted == Grid \subseteq (GridNames \union {"all"}) \X HighLow
  BY DEF Grid, GridNames

LEMMA WritesHandler ==
    ASSUME HInv, NEW c \in Clients, handler[c] = "loop", Writes(c) \/ UNCHANGED handler
    PROVE  /\ handler'[c] \in {"loop", "broken"}
           /\ handler' = [handler EXCEPT ![c] = handler'[c]]
  BY DEF HInv, Writes

LEMMA RecountFacts ==
    ASSUME GInv, NEW c \in Clients, NEW S, subs'[c] = S, Recount(c, S)
    PROVE  /\ subscriptions' \in [Grid -> Int]
           /\ \A k \in Grid :
                 /\ k \in S \ subs[c] => subscriptions'[k] >= subscriptions[k] + 1
                 /\ k \in subs[c] \ S => subscriptions'[k] >= subscriptions[k] - 1
                 /\ (k \in subs[c] <=> k \in S) => subscriptions'[k] >= subscriptions[k]
<1>1. \A k \in Grid : subscriptions[k] \in Int
  BY DEF GInv
<1>2. /\ subscriptions' \in [Grid -> Int]
      /\ \A k \in Grid : subscriptions'[k] =
            subscriptions[k] + (IF k \in S \ subs[c] THEN 1 ELSE 0)
                             - (IF k \in subs[c] \ S THEN 1 ELSE 0)
  BY <1>1 DEF Recount
<1> QED
  BY <1>1, <1>2

LEMMA Serving ==
    ASSUME HInv, GInv, NEW c \in Clients,
           \/ Command(c) \/ ReplyAsync(c) \/ TakeLocation(c) \/ SendTick(c) \/ ForgetSubs(c)
    PROVE  Served(c)
<1> USE DEF natsVars, listVars, chanVars, batchVars, readerVars
<1>0. /\ subs[c] \subseteq Grid /\ synced[c] \subseteq subs[c] /\ subs[c] \subseteq wanted[c]
      /\ wanted[c] \subseteq (GridNames \union {"all"}) \X HighLow
      /\ subscriptions \in [Grid -> Int]
      /\ \A k \in Grid : subscriptions[k] \in Int
      /\ subs = [subs EXCEPT ![c] = subs[c]] /\ synced = [synced EXCEPT ![c] = synced[c]]
      /\ wanted = [wanted EXCEPT ![c] = wanted[c]]
      /\ Grid \subseteq (GridNames \union {"all"}) \X HighLow
  BY GridWanted DEF HInv, GInv
<1>1. ASSUME Return(c), handler[c] \in {"loop", "broken"}, UNCHANGED <<batching, clients>>,
             UNCHANGED subscriptions \/ Recount(c, {})
      PROVE  Served(c)
  <2>1. /\ handler' = [handler EXCEPT ![c] = "remove"] /\ subs' = [subs EXCEPT ![c] = {}]
        /\ synced' = [synced EXCEPT ![c] = {}] /\ wanted' = [wanted EXCEPT ![c] = {}]
    BY <1>1 DEF Return
  <2>2. handler'[c] = "remove" /\ subs'[c] = {} /\ synced'[c] = {} /\ wanted'[c] = {}
    BY <2>1 DEF HInv
  <2>3. /\ subscriptions' \in [Grid -> Int]
        /\ \A k \in Grid :
              /\ k \in subs[c] => subscriptions'[k] >= subscriptions[k] - 1
              /\ k \notin subs[c] => subscriptions'[k] >= subscriptions[k]
    <3>1. CASE UNCHANGED subscriptions
      BY <1>0, <3>1
    <3>2. CASE Recount(c, {})
      BY <2>2, <3>2, RecountFacts
    <3> QED
      BY <1>1, <3>1, <3>2
  <2>4. ServedHandler(c)
    BY <1>1, <2>1, <2>2 DEF ServedHandler
  <2>5. ServedSubs(c)
    BY <2>1, <2>2 DEF ServedSubs
  <2>6. ServedGauge(c)
    BY <2>2, <2>3 DEF ServedGauge
  <2> QED
    BY <2>4, <2>5, <2>6 DEF Served
<1>2. CASE Exit(c)
  BY <1>1, <1>2 DEF Exit, Takes
<1>3. CASE ForgetSubs(c)
  BY <1>1, <1>3 DEF ForgetSubs
<1>4. ASSUME Command(c) \/ ReplyAsync(c) \/ TakeLocation(c) \/ SendTick(c), ~Exit(c)
      PROVE  ServedHandler(c) /\ handler'[c] # "remove"
  <2>1. /\ UNCHANGED <<batching, clients>> /\ handler[c] = "loop"
        /\ Writes(c) \/ UNCHANGED handler
    BY <1>4 DEF Command, Takes, Subscribe, Unsubscribe, SetSubscribedTiles,
                GridPlanes, Reply, ReplyAsync, TakeLocation, SendTick
  <2> QED
    BY <2>1, WritesHandler DEF ServedHandler
<1>5. CASE Subscribe(c)
  <2> DEFINE k == Head(cmds[c]).key
  <2>1. \/ /\ k \in Grid /\ subs' = [subs EXCEPT ![c] = subs[c] \union {k}]
           /\ wanted' = [wanted EXCEPT ![c] = wanted[c] \union {k}]
           /\ subscriptions' = [subscriptions EXCEPT ![k] = subscriptions[k] + 1]
        \/ UNCHANGED <<subs, wanted, subscriptions>>
    BY <1>5 DEF Subscribe
  <2>2. synced' = synced
    BY <1>5 DEF Subscribe
  <2>3. ~Exit(c)
    BY <1>5 DEF Subscribe, Exit, Takes
  <2> HIDE DEF k
  <2>4. CASE k \in Grid /\ subs' = [subs EXCEPT ![c] = subs[c] \union {k}]
             /\ wanted' = [wanted EXCEPT ![c] = wanted[c] \union {k}]
             /\ subscriptions' = [subscriptions EXCEPT ![k] = subscriptions[k] + 1]
    <3>1. subs'[c] = subs[c] \union {k} /\ wanted'[c] = wanted[c] \union {k}
      BY <2>4 DEF HInv
    <3>2. subscriptions' \in [Grid -> Int]
          /\ \A j \in Grid : subscriptions'[j] =
                IF j = k THEN subscriptions[j] + 1 ELSE subscriptions[j]
      BY <1>0, <2>4
    <3> QED
      <4>1. ServedHandler(c) /\ handler'[c] # "remove"
        BY <1>0, <1>4, <1>5, <2>2, <2>3, <2>4, <3>1, <3>2 DEF Command
      <4>2. ServedSubs(c)
        BY <1>0, <1>5, <2>2, <2>3, <2>4, <3>1, <3>2, <4>1, ZenonT(60) DEF ServedSubs
      <4>3. ServedGauge(c)
        BY <1>0, <1>5, <2>2, <2>3, <2>4, <3>1, <3>2 DEF ServedGauge
      <4> QED
        BY <4>1, <4>2, <4>3 DEF Served
  <2>5. CASE UNCHANGED <<subs, wanted, subscriptions>>
    <3>1. ServedHandler(c) /\ handler'[c] # "remove"
      BY <1>0, <1>4, <1>5, <2>2, <2>3, <2>5 DEF Command
    <3>2. ServedSubs(c)
      BY <1>0, <1>5, <2>2, <2>3, <2>5, <3>1 DEF ServedSubs
    <3>3. ServedGauge(c)
      BY <1>0, <1>5, <2>2, <2>3, <2>5 DEF ServedGauge
    <3> QED
      BY <3>1, <3>2, <3>3 DEF Served
  <2> QED
    BY <2>1, <2>4, <2>5
<1>6. CASE Unsubscribe(c)
  <2> DEFINE k == Head(cmds[c]).key
  <2>1. /\ subs' = [subs EXCEPT ![c] = subs[c] \ {k}]
        /\ synced' = [synced EXCEPT ![c] = synced[c] \ {k}]
        /\ wanted' = wanted
        /\ IF k \in subs[c]
           THEN subscriptions' = [subscriptions EXCEPT ![k] = subscriptions[k] - 1]
           ELSE subscriptions' = subscriptions
    BY <1>6 DEF Unsubscribe
  <2>2. ~Exit(c)
    BY <1>6 DEF Unsubscribe, Exit, Takes
  <2> HIDE DEF k
  <2>3. subs'[c] = subs[c] \ {k} /\ synced'[c] = synced[c] \ {k}
    BY <2>1 DEF HInv
  <2>4. subscriptions' \in [Grid -> Int]
        /\ \A j \in Grid : subscriptions'[j] =
              IF j = k /\ k \in subs[c] THEN subscriptions[j] - 1 ELSE subscriptions[j]
    BY <1>0, <2>1
  <2> QED
    <3>1. ServedHandler(c) /\ handler'[c] # "remove"
      BY <1>0, <1>4, <1>6, <2>1, <2>2, <2>3, <2>4 DEF Command
    <3>2. ServedSubs(c)
      BY <1>0, <1>6, <2>1, <2>2, <2>3, <2>4, <3>1 DEF ServedSubs
    <3>3. ServedGauge(c)
      BY <1>0, <1>6, <2>1, <2>2, <2>3, <2>4 DEF ServedGauge
    <3> QED
      BY <3>1, <3>2, <3>3 DEF Served
<1>7. CASE SetSubscribedTiles(c)
  <2> DEFINE new == Head(cmds[c]).keys
  <2>1. ~Exit(c)
    BY <1>7 DEF SetSubscribedTiles, Exit, Takes
  <2>2. CASE new \subseteq Grid
    <3>1. /\ Recount(c, new) /\ subs' = [subs EXCEPT ![c] = new]
          /\ synced' = [synced EXCEPT ![c] = new] /\ wanted' = [wanted EXCEPT ![c] = new]
      BY <1>7, <2>2 DEF SetSubscribedTiles
    <3> HIDE DEF new
    <3>2. subs'[c] = new /\ synced'[c] = new /\ wanted'[c] = new
      BY <3>1 DEF HInv
    <3> QED
      <4>1. ServedHandler(c) /\ handler'[c] # "remove"
        BY <1>0, <1>4, <1>7, <2>1, <2>2, <3>1, <3>2 DEF Command
      <4>2. ServedSubs(c)
        BY <1>0, <1>7, <2>1, <2>2, <3>1, <3>2, <4>1 DEF ServedSubs
      <4>3. ServedGauge(c)
        BY <1>0, <1>7, <2>1, <2>2, <3>1, <3>2, RecountFacts DEF ServedGauge
      <4> QED
        BY <4>1, <4>2, <4>3 DEF Served
  <2>3. CASE ~(new \subseteq Grid)
    <3>1. UNCHANGED <<subs, synced, wanted, subscriptions>>
      BY <1>7, <2>3 DEF SetSubscribedTiles
    <3> QED
      <4>1. ServedHandler(c) /\ handler'[c] # "remove"
        BY <1>0, <1>4, <1>7, <2>1, <3>1 DEF Command
      <4>2. ServedSubs(c)
        BY <1>0, <1>7, <2>1, <3>1, <4>1 DEF ServedSubs
      <4>3. ServedGauge(c)
        BY <1>0, <1>7, <2>1, <3>1 DEF ServedGauge
      <4> QED
        BY <4>1, <4>2, <4>3 DEF Served
  <2> QED
    BY <2>2, <2>3
<1>8. CASE GridPlanes(c)
  <2> DEFINE t == Head(cmds[c]).tile
  <2>1. UNCHANGED <<subs, synced, subscriptions>>
    BY <1>8 DEF GridPlanes
  <2>2. \/ t \in GridNames /\ wanted' = [wanted EXCEPT ![c] = wanted[c] \union ({t} \X HighLow)]
        \/ wanted' = wanted
    BY <1>8 DEF GridPlanes
  <2>3. ~Exit(c)
    BY <1>8 DEF GridPlanes, Exit, Takes
  <2> HIDE DEF t
  <2>4. /\ wanted' = [wanted EXCEPT ![c] = wanted'[c]] /\ wanted[c] \subseteq wanted'[c]
        /\ wanted'[c] \subseteq (GridNames \union {"all"}) \X HighLow
    BY <1>0, <2>2 DEF HInv
  <2> QED
    <3>1. ServedHandler(c) /\ handler'[c] # "remove"
      BY <1>0, <1>4, <1>8, <2>1, <2>3, <2>4 DEF Command
    <3>2. ServedSubs(c)
      BY <1>0, <1>8, <2>1, <2>3, <2>4, <3>1 DEF ServedSubs
    <3>3. ServedGauge(c)
      BY <1>0, <1>8, <2>1, <2>3, <2>4 DEF ServedGauge
    <3> QED
      BY <3>1, <3>2, <3>3 DEF Served
<1>9. CASE Reply(c)
  <2>1. UNCHANGED <<subs, synced, subscriptions, wanted>> /\ ~Exit(c)
    BY <1>9 DEF Reply, Exit, Takes
  <2> QED
    <3>1. ServedHandler(c) /\ handler'[c] # "remove"
      BY <1>0, <1>4, <1>9, <2>1 DEF Command
    <3>2. ServedSubs(c)
      BY <1>0, <1>9, <2>1, <3>1 DEF ServedSubs
    <3>3. ServedGauge(c)
      BY <1>0, <1>9, <2>1 DEF ServedGauge
    <3> QED
      BY <3>1, <3>2, <3>3 DEF Served
<1>10. CASE (ReplyAsync(c) \/ TakeLocation(c)) /\ ~Exit(c)
  <2>1. UNCHANGED <<subs, synced, subscriptions, wanted>>
    BY <1>10 DEF ReplyAsync, TakeLocation
  <2> QED
    <3>1. ServedHandler(c) /\ handler'[c] # "remove"
      BY <1>0, <1>4, <1>10, <2>1
    <3>2. ServedSubs(c)
      BY <1>0, <1>10, <2>1, <3>1 DEF ServedSubs
    <3>3. ServedGauge(c)
      BY <1>0, <1>10, <2>1 DEF ServedGauge
    <3> QED
      BY <3>1, <3>2, <3>3 DEF Served
<1>11. CASE SendTick(c) /\ ~Exit(c)
  <2>1. UNCHANGED <<subs, synced, subscriptions>> /\ wanted' = [wanted EXCEPT ![c] = subs[c]]
    BY <1>11 DEF SendTick
  <2>2. wanted'[c] = subs[c]
    BY <2>1 DEF HInv
  <2> QED
    <3>1. ServedHandler(c) /\ handler'[c] # "remove"
      BY <1>0, <1>4, <1>11, <2>1, <2>2
    <3>2. ServedSubs(c)
      BY <1>0, <1>11, <2>1, <2>2, <3>1 DEF ServedSubs
    <3>3. ServedGauge(c)
      BY <1>0, <1>11, <2>1, <2>2 DEF ServedGauge
    <3> QED
      BY <3>1, <3>2, <3>3 DEF Served
<1> QED
  BY <1>2, <1>3, <1>5, <1>6, <1>7, <1>8, <1>9, <1>10, <1>11 DEF Command

(* The steps that leave the subscriptions and the gauge alone.             *)
LEMMA NotServed ==
    ASSUME [Next]_vars, \A c \in Clients : ~Served(c), HInv, GInv
    PROVE  /\ UNCHANGED <<batching, subs, synced, wanted, subscriptions>>
           /\ \/ UNCHANGED <<handler, clients>>
              \/ \E c \in Clients : addClient(c) \/ CloseOutChan(c) \/ DeleteClient(c)
<1> USE DEF natsVars, listVars, chanVars, batchVars, readerVars
<1>1. ASSUME NEW w \in Workers, globalListUpdate(w) \/ Fanout(w)
      PROVE  UNCHANGED <<batching, subs, synced, wanted, subscriptions, handler, clients>>
  BY <1>1 DEF globalListUpdate, Fanout, StartRange, VisitClient, SendToClient, SendPanics,
              EndRange
<1>2. ASSUME NEW i \in Icaos, GrowStale(i)
      PROVE  UNCHANGED <<batching, subs, synced, wanted, subscriptions, handler, clients>>
  BY <1>2 DEF GrowStale
<1>3. ASSUME NEW c \in Clients, addClient(c) \/ CloseOutChan(c) \/ DeleteClient(c)
      PROVE  UNCHANGED <<batching, subs, synced, wanted, subscriptions>>
  BY <1>3 DEF addClient, CloseOutChan, DeleteClient
<1>4. ASSUME NEW c \in Clients, ReadError(c) \/ \E r \in Requests[c] : ReadRequest(c, r)
      PROVE  UNCHANGED <<batching, subs, synced, wanted, subscriptions, handler, clients>>
  BY <1>4 DEF ReadError, ReadRequest
<1>5. CASE UNCHANGED vars
  BY <1>5 DEF vars
<1> QED
  BY <1>1, <1>2, <1>3, <1>4, <1>5, Serving DEF Next, servePlanes, Handle, removeClient

LEMMA InitHInv == Init => HInv
  BY DEF Init, HInv

LEMMA StepHInv == ASSUME HInv, GInv, [Next]_vars PROVE HInv'
<1>1. ASSUME NEW c \in Clients, Served(c) PROVE HInv'
  <2>1. /\ UNCHANGED <<batching, clients>>
        /\ handler' \in [Clients -> {"new", "loop", "broken", "remove", "delete", "gone"}]
        /\ \A d \in Clients \ {c} : handler'[d] = handler[d]
        /\ handler'[c] = "loop" => handler[c] = "loop"
        /\ handler'[c] \in {"loop", "broken", "remove"}
    BY <1>1 DEF Served, ServedHandler, HInv
  <2>2. /\ subs' = [subs EXCEPT ![c] = subs'[c]]
        /\ synced' = [synced EXCEPT ![c] = synced'[c]]
        /\ wanted' = [wanted EXCEPT ![c] = wanted'[c]]
    BY <1>1 DEF Served, ServedSubs
  <2>3. /\ subs'[c] \subseteq Grid
        /\ synced'[c] \subseteq subs'[c] /\ subs'[c] \subseteq wanted'[c]
        /\ wanted'[c] \subseteq (GridNames \union {"all"}) \X HighLow
        /\ handler'[c] = "remove" => subs'[c] = {}
    BY <1>1 DEF Served, ServedSubs
  <2>4. /\ \A d \in Clients \ {c} : /\ subs'[d] = subs[d] /\ synced'[d] = synced[d]
                                    /\ wanted'[d] = wanted[d]
        /\ subs' \in [Clients -> SUBSET Grid]
        /\ synced' \in [Clients -> SUBSET Grid]
        /\ wanted' \in [Clients -> SUBSET ((GridNames \union {"all"}) \X HighLow)]
    BY <2>2, <2>3 DEF HInv
  <2>5. \A d \in Clients :
           /\ synced'[d] \subseteq subs'[d] /\ subs'[d] \subseteq wanted'[d]
           /\ handler'[d] \notin {"loop", "broken"} => subs'[d] = {}
           /\ handler'[d] = "loop" => d \in clients'
    <3> TAKE d \in Clients
    <3>1. CASE d = c
      BY <2>1, <2>3, <3>1 DEF HInv
    <3>2. CASE d # c
      BY <2>1, <2>4, <3>2 DEF HInv
    <3> QED
      BY <3>1, <3>2
  <2>6. batching' \in BOOLEAN
    BY <2>1 DEF HInv
  <2> QED
    BY <2>1, <2>4, <2>5, <2>6 DEF HInv
<1>2. ASSUME NEW c \in Clients, addClient(c) \/ CloseOutChan(c) \/ DeleteClient(c),
             UNCHANGED <<batching, subs, synced, wanted>>
      PROVE  HInv'
  BY <1>2 DEF addClient, CloseOutChan, DeleteClient, HInv, chanVars
<1>3. ASSUME UNCHANGED <<batching, subs, synced, wanted, handler, clients>> PROVE HInv'
  BY <1>3 DEF HInv
<1> QED
  BY <1>1, <1>2, <1>3, NotServed

LEMMA HoldersFinite == \A k : IsFiniteSet(Holders(k)) /\ Cardinality(Holders(k)) \in Nat
<1> TAKE k
<1>1. Holders(k) \in SUBSET Clients /\ IsFiniteSet(Clients)
  BY WsBrokerAssumption DEF Holders
<1> QED
  BY <1>1, FS_Subset, FS_CardinalityType

LEMMA InitGInv == Init => GInv
<1> SUFFICES ASSUME Init PROVE GInv
  OBVIOUS
<1>1. subscriptions = [k \in Grid |-> 0]
  BY DEF Init
<1>2. \A k \in Grid : Holders(k) = {}
  BY DEF Init, Holders
<1> QED
  BY <1>1, <1>2, FS_EmptySet DEF GInv

LEMMA StepGInv == ASSUME HInv, GInv, [Next]_vars PROVE GInv'
<1>1. ASSUME NEW c \in Clients, Served(c) PROVE GInv'
  <2>1. /\ subscriptions' \in [Grid -> Int]
        /\ \A k \in Grid : subscriptions'[k] \in Int /\ subscriptions[k] \in Int
    BY <1>1 DEF Served, ServedGauge, GInv
  <2>2. \A d \in Clients \ {c} : subs'[d] = subs[d]
    BY <1>1 DEF Served, ServedSubs, HInv
  <2>3. ASSUME NEW k \in Grid PROVE Cardinality(Holders(k)') <= subscriptions'[k]
    <3>1. /\ IsFiniteSet(Holders(k)) /\ Cardinality(Holders(k)) \in Nat
          /\ Cardinality(Holders(k)) <= subscriptions[k]
      BY HoldersFinite DEF GInv
    <3>2. /\ k \in subs'[c] \ subs[c] => subscriptions'[k] >= subscriptions[k] + 1
          /\ k \in subs[c] \ subs'[c] => subscriptions'[k] >= subscriptions[k] - 1
          /\ (k \in subs[c] <=> k \in subs'[c]) => subscriptions'[k] >= subscriptions[k]
      BY <1>1 DEF Served, ServedGauge
    <3>3. CASE k \in subs'[c] \ subs[c]
      <4>1. Holders(k)' = Holders(k) \union {c} /\ c \notin Holders(k)
        BY <2>2, <3>3 DEF Holders
      <4>2. Cardinality(Holders(k)') = Cardinality(Holders(k)) + 1
        BY <3>1, <4>1, FS_AddElement
      <4> QED
        BY <2>1, <3>1, <3>2, <3>3, <4>2
    <3>4. CASE k \in subs[c] \ subs'[c]
      <4>1. Holders(k)' = Holders(k) \ {c} /\ c \in Holders(k)
        BY <2>2, <3>4 DEF Holders
      <4>2. Cardinality(Holders(k)') = Cardinality(Holders(k)) - 1
        BY <3>1, <4>1, FS_RemoveElement
      <4> QED
        BY <2>1, <3>1, <3>2, <3>4, <4>2
    <3>5. CASE k \in subs[c] <=> k \in subs'[c]
      <4>1. Holders(k)' = Holders(k)
        BY <2>2, <3>5 DEF Holders
      <4> QED
        BY <2>1, <3>1, <3>2, <3>5, <4>1
    <3> QED
      BY <3>3, <3>4, <3>5
  <2> QED
    BY <2>1, <2>3 DEF GInv
<1>2. ASSUME UNCHANGED <<subs, subscriptions>> PROVE GInv'
  BY <1>2 DEF GInv, Holders
<1> QED
  BY <1>1, <1>2, NotServed

-----------------------------------------------------------------------------
(* The batch of a handler.                                                 *)

(* The stored locations: finitely many, one of each aircraft.              *)
LEMMA StoredFacts ==
    ASSUME NInv
    PROVE  /\ Stored \subseteq Location /\ IsFiniteSet(Stored)
           /\ \A l, m \in Stored : l.icao = m.icao => l = m
<1>1. Stored \subseteq Location
  BY NoneApart DEF NInv, Stored
<1>2. IsFiniteSet(Stored)
  <2> DEFINE T == {globalList[i] : i \in Icaos}
  <2>1. globalList \in Surjection(Icaos, T)
    BY DEF NInv, Surjection
  <2>2. IsFiniteSet(T)
    BY <2>1, FS_Surjection, WsBrokerAssumption
  <2> QED
    BY <2>2, FS_Difference DEF Stored
<1>3. \A l \in Stored : \E i \in Icaos : l = globalList[i] /\ l.icao = i
  BY DEF NInv, Stored
<1> QED
  BY <1>1, <1>2, <1>3

LEMMA SubsetOfStored ==
    ASSUME NInv, NEW L \in SUBSET Stored
    PROVE  /\ L \in SUBSET Location /\ IsFiniteSet(L)
           /\ \A l, m \in L : l.icao = m.icao => l = m
  BY StoredFacts, FS_Subset

LEMMA BatchTypes ==
    ASSUME BInv, NEW c \in Clients
    PROVE  PendingBatch(c) \in Batch /\ Indexed(PendingBatch(c))
           /\ PendingBatch(c).list = locationMessages[c]
  BY DEF BInv, PendingBatch, Batch

LEMMA NoBatchFacts == NoBatch \in Batch /\ Indexed(NoBatch) /\ NoBatch.list = << >>
<1>1. << >> \in Seq(Location \union {None}) /\ DOMAIN << >> = {}
  OBVIOUS
<1> QED
  BY <1>1 DEF NoBatch, Batch, Indexed

LEMMA ClearedFacts ==
    ASSUME BInv, NEW c \in Clients
    PROVE  /\ ClearedBatch(c) \in Batch /\ Indexed(ClearedBatch(c))
           /\ \A k \in DOMAIN ClearedBatch(c).list : ClearedBatch(c).list[k] = None
<1>1. /\ locationMessages[c] \in Seq(Location \union {None})
  BY DEF BInv
<1>2. Len(locationMessages[c]) \in Nat /\ DOMAIN locationMessages[c] = 1 .. Len(locationMessages[c])
  BY <1>1, SeqFacts
<1>3. [k \in DOMAIN locationMessages[c] |-> None] \in Seq(Location \union {None})
  BY <1>2
<1>4. ClearedBatch(c).list = [k \in DOMAIN locationMessages[c] |-> None]
      /\ ClearedBatch(c).at = [i \in Icaos |-> 0]
      /\ ClearedBatch(c) = [list |-> ClearedBatch(c).list, at |-> ClearedBatch(c).at]
  BY DEF ClearedBatch
<1>5. ClearedBatch(c) \in Batch
  BY <1>3, <1>4 DEF Batch
<1>6. Indexed(ClearedBatch(c))
  BY <1>4 DEF Indexed
<1> QED
  BY <1>4, <1>5, <1>6

(* A handler that sets its batch to a good one keeps the others good.      *)
LEMMA SetBatchKeeps ==
    ASSUME HInv, BInv, NEW c \in Clients, NEW b \in Batch, Indexed(b), SetBatch(c, b),
           known' \in [Clients -> SUBSET Icaos],
           wanted' = [wanted EXCEPT ![c] = wanted'[c]], Covered(b.list, wanted'[c])
    PROVE  BInv' /\ locationMessages'[c] = b.list
<1>1. /\ b.list \in Seq(Location \union {None}) /\ b.at \in [Icaos -> Nat]
      /\ b = [list |-> b.list, at |-> b.at]
  BY DEF Batch
<1>2. /\ locationMessages' = [locationMessages EXCEPT ![c] = b.list]
      /\ icaoIdLookup' = [icaoIdLookup EXCEPT ![c] = b.at]
  BY DEF SetBatch
<1>3. /\ locationMessages'[c] = b.list /\ icaoIdLookup'[c] = b.at
      /\ \A d \in Clients \ {c} : /\ locationMessages'[d] = locationMessages[d]
                                  /\ icaoIdLookup'[d] = icaoIdLookup[d]
                                  /\ wanted'[d] = wanted[d]
  BY <1>1, <1>2 DEF HInv, BInv
<1>4. /\ locationMessages' \in [Clients -> Seq(Location \union {None})]
      /\ icaoIdLookup' \in [Clients -> [Icaos -> Nat]]
  BY <1>1, <1>2 DEF BInv
<1>5. ASSUME NEW d \in Clients
      PROVE  Indexed(PendingBatch(d))' /\ Covered(locationMessages[d], wanted[d])'
  <2>1. CASE d = c
    <3>1. PendingBatch(d)' = b
      BY <1>1, <1>3, <2>1 DEF PendingBatch
    <3> QED
      BY <1>3, <2>1, <3>1 DEF Indexed, Covered
  <2>2. CASE d # c
    <3>1. PendingBatch(d)' = PendingBatch(d)
      BY <1>3, <2>2 DEF PendingBatch
    <3> QED
      BY <1>3, <2>2, <3>1 DEF Indexed, Covered, BInv
  <2> QED
    BY <2>1, <2>2
<1> QED
  BY <1>3, <1>4, <1>5 DEF BInv

LEMMA MatchGrows ==
    ASSUME NEW s, NEW t, s \subseteq t, NEW loc, locationMatchesSubs(s, loc)
    PROVE  locationMatchesSubs(t, loc)
  BY DEF locationMatchesSubs, tileMatchesSubs

LEMMA FeedMatches ==
    ASSUME NEW s, NEW loc \in Location, tileMatchesSubs(s, loc.tile, loc.feed)
    PROVE  locationMatchesSubs(s, loc)
<1>1. loc.feed \in HighLow
  BY DEF Location
<1> QED
  BY <1>1 DEF locationMatchesSubs

LEMMA InitBInv == Init => BInv
<1> SUFFICES ASSUME Init PROVE BInv
  OBVIOUS
<1>1. /\ locationMessages = [c \in Clients |-> << >>]
      /\ icaoIdLookup = [c \in Clients |-> [i \in Icaos |-> 0]]
      /\ known = [c \in Clients |-> {}]
  BY DEF Init, NoBatch
<1>2. \A c \in Clients : PendingBatch(c) = NoBatch
  BY <1>1 DEF PendingBatch, NoBatch
<1>3. locationMessages \in [Clients -> Seq(Location \union {None})]
  BY <1>1
<1>4. icaoIdLookup \in [Clients -> [Icaos -> Nat]]
  BY <1>1
<1>5. \A c \in Clients : Indexed(PendingBatch(c))
  BY <1>2, NoBatchFacts
<1>6. \A c \in Clients : Covered(locationMessages[c], wanted[c])
  BY <1>1 DEF Covered
<1> QED
  BY <1>1, <1>3, <1>4, <1>5, <1>6 DEF BInv

LEMMA SameBInv == ASSUME BInv, UNCHANGED batchVars PROVE BInv'
  BY DEF BInv, batchVars, PendingBatch, Indexed, Covered

LEMMA CountsSeen ==
    ASSUME BInv, NEW c \in Clients
    PROVE  IcaosOf(locationMessages[c]) \subseteq Icaos
<1>1. \A k \in DOMAIN locationMessages[c] : locationMessages[c][k] \in Location \union {None}
  BY SeqFacts DEF BInv
<1> QED
  BY <1>1, NoneApart DEF IcaosOf

LEMMA ReturnKeeps ==
    ASSUME HInv, BInv, NEW c \in Clients, Return(c)
    PROVE  BInv'
<1>1. /\ SetBatch(c, NoBatch) /\ known' = [known EXCEPT ![c] = {}]
      /\ wanted' = [wanted EXCEPT ![c] = {}]
  BY DEF Return
<1>2. wanted'[c] = {} /\ known' \in [Clients -> SUBSET Icaos]
  BY <1>1 DEF HInv, BInv
<1>3. Covered(NoBatch.list, wanted'[c])
  BY NoBatchFacts DEF Covered
<1> QED
  BY <1>1, <1>2, <1>3, NoBatchFacts, SetBatchKeeps

(* The batch after a request for tiles, and after one for a tile's planes. *)
LEMMA SetTilesBatch ==
    ASSUME NInv, HInv, BInv, NEW c \in Clients, SetSubscribedTiles(c),
           Head(cmds[c]).keys \subseteq Grid
    PROVE  BInv'
<1> DEFINE new == Head(cmds[c]).keys
<1>1. /\ wanted' = [wanted EXCEPT ![c] = new]
      /\ SetBatch(c, AddAllToBatch(ClearedBatch(c), Snapshot(new)))
      /\ known' = [known EXCEPT ![c] = {loc.icao : loc \in Snapshot(new)}]
  BY DEF SetSubscribedTiles
<1> HIDE DEF new
<1>2. PICK b : b = AddAllToBatch(ClearedBatch(c), Snapshot(new))
  OBVIOUS
<1>3. /\ Snapshot(new) \in SUBSET Location /\ IsFiniteSet(Snapshot(new))
      /\ \A l, m \in Snapshot(new) : l.icao = m.icao => l = m
  <2>1. Snapshot(new) \in SUBSET Stored
    BY DEF Snapshot
  <2> QED
    BY <2>1, SubsetOfStored
<1>4. /\ b \in Batch /\ Indexed(b)
      /\ \A k \in DOMAIN b.list :
            \/ b.list[k] = None \/ b.list[k] \in Snapshot(new)
            \/ \E j \in DOMAIN ClearedBatch(c).list : b.list[k] = ClearedBatch(c).list[j]
  BY <1>2, <1>3, ClearedFacts, AddAll
<1>5. \A k \in DOMAIN b.list : b.list[k] # None => b.list[k] \in Snapshot(new)
  BY <1>4, ClearedFacts
<1>6. wanted'[c] = new /\ wanted' = [wanted EXCEPT ![c] = wanted'[c]]
  BY <1>1 DEF HInv
<1>7. Covered(b.list, wanted'[c])
  BY <1>5, <1>6 DEF Covered, Snapshot
<1>8. known' \in [Clients -> SUBSET Icaos]
  <2>1. {loc.icao : loc \in Snapshot(new)} \subseteq Icaos
    BY <1>3, NoneApart
  <2> QED
    BY <1>1, <2>1 DEF BInv
<1> QED
  BY <1>1, <1>2, <1>4, <1>6, <1>7, <1>8, SetBatchKeeps

LEMMA GridBatch ==
    ASSUME NInv, HInv, BInv, NEW c \in Clients, GridPlanes(c)
    PROVE  /\ BInv' /\ IcaosOf(locationMessages[c]) \subseteq IcaosOf(locationMessages'[c])
           /\ known' = known
<1> DEFINE t == Head(cmds[c]).tile
           new == {loc \in Stored : loc.tile = t}
<1>1. CASE t \in GridNames
  <2>1. /\ SetBatch(c, AddAllToBatch(PendingBatch(c), new))
        /\ wanted' = [wanted EXCEPT ![c] = wanted[c] \union ({t} \X HighLow)]
        /\ known' = known
    BY <1>1 DEF GridPlanes
  <2>2. new \in SUBSET Stored /\ \A loc \in new : loc.tile = t
    OBVIOUS
  <2> HIDE DEF new, t
  <2>3. /\ new \in SUBSET Location /\ IsFiniteSet(new)
        /\ \A l, m \in new : l.icao = m.icao => l = m
    BY <2>2, SubsetOfStored
  <2>4. PICK b : b = AddAllToBatch(PendingBatch(c), new)
    OBVIOUS
  <2>5. /\ b \in Batch /\ Indexed(b)
        /\ IcaosOf(PendingBatch(c).list) \subseteq IcaosOf(b.list)
        /\ \A k \in DOMAIN b.list :
              \/ b.list[k] = None \/ b.list[k] \in new
              \/ \E j \in DOMAIN PendingBatch(c).list : b.list[k] = PendingBatch(c).list[j]
    BY <2>3, <2>4, BatchTypes, AddAll
  <2>6. wanted'[c] = wanted[c] \union ({t} \X HighLow)
        /\ wanted' = [wanted EXCEPT ![c] = wanted'[c]]
    BY <2>1 DEF HInv
  <2>7. \A l \in new : locationMatchesSubs(wanted'[c], l)
    BY <2>2, <2>6 DEF locationMatchesSubs, tileMatchesSubs, HighLow
  <2>8. \A k \in DOMAIN b.list : b.list[k] # None => locationMatchesSubs(wanted'[c], b.list[k])
    <3> TAKE k \in DOMAIN b.list
    <3> HAVE b.list[k] # None
    <3>1. CASE b.list[k] \in new
      BY <2>7, <3>1
    <3>2. CASE b.list[k] \notin new
      <4>1. PICK j \in DOMAIN locationMessages[c] : b.list[k] = locationMessages[c][j]
        BY <2>5, <3>2, BatchTypes
      <4>2. locationMatchesSubs(wanted[c], b.list[k])
        BY <4>1 DEF BInv, Covered
      <4> QED
        BY <2>6, <4>2, MatchGrows
    <3> QED
      BY <3>1, <3>2
  <2>9. known' \in [Clients -> SUBSET Icaos] /\ Covered(b.list, wanted'[c])
    BY <2>1, <2>8 DEF BInv, Covered
  <2>10. BInv' /\ locationMessages'[c] = b.list
    BY <2>1, <2>4, <2>5, <2>6, <2>9, SetBatchKeeps
  <2> QED
    BY <2>1, <2>5, <2>10, BatchTypes
<1>2. CASE t \notin GridNames
  <2>1. UNCHANGED batchVars
    BY <1>2 DEF GridPlanes
  <2> QED
    BY <2>1, SameBInv DEF batchVars
<1> QED
  BY <1>1, <1>2

(* A location from the channel.                                            *)
LEMMA TakeBatch ==
    ASSUME NInv, HInv, BInv, NEW c \in Clients, TakeLocation(c)
    PROVE  /\ BInv' /\ IcaosOf(locationMessages[c]) \subseteq IcaosOf(locationMessages'[c])
           /\ known[c] \subseteq known'[c]
           /\ tileMatchesSubs(subs[c], Head(outChan[c]).tile, Head(outChan[c]).feed)
                 => \/ Head(outChan[c]).icao \in IcaosOf(locationMessages'[c])
                    \/ Head(outChan[c]).icao \in known'[c]
<1> DEFINE loc == Head(outChan[c])
           matches == tileMatchesSubs(subs[c], loc.tile, loc.feed)
<1>1. outChan[c] # << >> /\ outChan[c] \in Seq(Updates)
  BY DEF TakeLocation, NInv
<1>2. loc \in Location /\ loc.icao \in Icaos
  BY <1>1, HeadTailProperties, NoneApart
<1>3. CASE ~matches
  <2>1. UNCHANGED batchVars
    BY <1>3 DEF TakeLocation
  <2> QED
    BY <1>3, <2>1, SameBInv DEF batchVars
<1>4. CASE matches /\ batching
  <2>1. SetBatch(c, AddToBatch(PendingBatch(c), loc)) /\ UNCHANGED <<known, wanted>>
    BY <1>4 DEF TakeLocation
  <2>2. locationMatchesSubs(wanted[c], loc)
    <3>1. locationMatchesSubs(subs[c], loc)
      BY <1>2, <1>4, FeedMatches
    <3> QED
      BY <3>1, MatchGrows DEF HInv
  <2> HIDE DEF loc
  <2>3. PICK b : b = AddToBatch(PendingBatch(c), loc)
    OBVIOUS
  <2>4. /\ b \in Batch /\ Indexed(b)
        /\ IcaosOf(PendingBatch(c).list) \union {loc.icao} \subseteq IcaosOf(b.list)
        /\ \A k \in DOMAIN b.list :
              \/ b.list[k] \in {None, loc}
              \/ \E j \in DOMAIN PendingBatch(c).list : b.list[k] = PendingBatch(c).list[j]
    BY <1>2, <2>3, BatchTypes, AddOne
  <2>5. wanted'[c] = wanted[c] /\ wanted' = [wanted EXCEPT ![c] = wanted'[c]]
    BY <2>1 DEF HInv
  <2>6. Covered(locationMessages[c], wanted[c])
    BY DEF BInv
  <2>7. Covered(b.list, wanted'[c])
    BY <2>2, <2>4, <2>5, <2>6, BatchTypes DEF Covered
  <2>8. known' \in [Clients -> SUBSET Icaos]
    BY <2>1 DEF BInv
  <2>9. BInv' /\ locationMessages'[c] = b.list
    BY <2>1, <2>3, <2>4, <2>5, <2>7, <2>8, SetBatchKeeps
  <2>10. IcaosOf(locationMessages[c]) \union {loc.icao} \subseteq IcaosOf(locationMessages'[c])
    BY <2>4, <2>9, BatchTypes
  <2> QED
    BY <2>1, <2>9, <2>10 DEF loc
<1>5. CASE matches /\ ~batching
  <2>1. /\ known' = [known EXCEPT ![c] = known[c] \union {loc.icao}]
        /\ UNCHANGED <<locationMessages, icaoIdLookup, wanted>>
    BY <1>5 DEF TakeLocation
  <2>2. known' \in [Clients -> SUBSET Icaos] /\ known'[c] = known[c] \union {loc.icao}
    BY <1>2, <2>1 DEF BInv
  <2>3. BInv'
    BY <2>1, <2>2 DEF BInv, PendingBatch, Indexed, Covered
  <2> QED
    BY <2>1, <2>2, <2>3
<1> QED
  BY <1>3, <1>4, <1>5

(* The handler sends its batch.                                            *)
LEMMA TickBatch ==
    ASSUME HInv, BInv, NEW c \in Clients, SendTick(c)
    PROVE  BInv' /\ known'[c] = known[c] \union IcaosOf(locationMessages[c])
<1>1. /\ known' = [known EXCEPT ![c] = known[c] \union IcaosOf(locationMessages[c])]
      /\ SetBatch(c, NoBatch) /\ wanted' = [wanted EXCEPT ![c] = subs[c]]
  BY DEF SendTick
<1>2. wanted' = [wanted EXCEPT ![c] = wanted'[c]]
  BY <1>1 DEF HInv
<1>3. /\ known' \in [Clients -> SUBSET Icaos]
      /\ known'[c] = known[c] \union IcaosOf(locationMessages[c])
  BY <1>1, CountsSeen DEF BInv
<1>4. Covered(NoBatch.list, wanted'[c])
  BY NoBatchFacts DEF Covered
<1> QED
  BY <1>1, <1>2, <1>3, <1>4, NoBatchFacts, SetBatchKeeps

(* The steps that leave every batch and what is known alone.               *)
LEMMA NotBatched ==
    ASSUME [Next]_vars
    PROVE  \/ UNCHANGED batchVars
           \/ \E c \in Clients : \/ Exit(c) \/ ForgetSubs(c) \/ Subscribe(c)
                                 \/ SetSubscribedTiles(c) /\ Head(cmds[c]).keys \subseteq Grid
                                 \/ GridPlanes(c) \/ TakeLocation(c) \/ SendTick(c)
<1>1. ASSUME NEW w \in Workers, globalListUpdate(w) \/ Fanout(w) PROVE UNCHANGED batchVars
  BY <1>1 DEF globalListUpdate, Fanout, StartRange, VisitClient, SendToClient, SendPanics,
              EndRange
<1>2. ASSUME NEW i \in Icaos, GrowStale(i) PROVE UNCHANGED batchVars
  BY <1>2 DEF GrowStale
<1>3. ASSUME NEW c \in Clients,
             \/ addClient(c) \/ CloseOutChan(c) \/ DeleteClient(c) \/ ReadError(c)
             \/ \E r \in Requests[c] : ReadRequest(c, r)
             \/ Reply(c) \/ ReplyAsync(c) \/ Unsubscribe(c)
             \/ SetSubscribedTiles(c) /\ ~(Head(cmds[c]).keys \subseteq Grid)
      PROVE  UNCHANGED batchVars
  BY <1>3 DEF addClient, CloseOutChan, DeleteClient, ReadError, ReadRequest, Reply,
              ReplyAsync, Unsubscribe, SetSubscribedTiles
<1>4. CASE UNCHANGED vars
  BY <1>4 DEF vars
<1> QED
  BY <1>1, <1>2, <1>3, <1>4 DEF Next, servePlanes, Handle, Command, removeClient

LEMMA StepBInv == ASSUME NInv, HInv, BInv, [Next]_vars PROVE BInv'
<1>1. ASSUME NEW c \in Clients, Exit(c) \/ ForgetSubs(c) PROVE BInv'
  BY <1>1, ReturnKeeps DEF Exit, ForgetSubs
<1>2. ASSUME NEW c \in Clients, Subscribe(c) PROVE BInv'
  <2>1. /\ UNCHANGED <<locationMessages, icaoIdLookup, known>>
        /\ \A d \in Clients : wanted[d] \subseteq wanted'[d]
    BY <1>2 DEF Subscribe, HInv
  <2>2. \A d \in Clients : Covered(locationMessages[d], wanted[d])
                              => Covered(locationMessages[d], wanted'[d])
    BY <2>1, MatchGrows DEF Covered
  <2>3. \A d \in Clients : Indexed(PendingBatch(d)) => Indexed(PendingBatch(d))'
    BY <2>1 DEF PendingBatch, Indexed
  <2>4. \A d \in Clients : Covered(locationMessages[d], wanted[d])
                              => Covered(locationMessages[d], wanted[d])'
    BY <2>1, <2>2 DEF Covered
  <2> QED
    BY <2>1, <2>3, <2>4 DEF BInv
<1> QED
  BY <1>1, <1>2, SetTilesBatch, GridBatch, TakeBatch, TickBatch, NotBatched, SameBInv

-----------------------------------------------------------------------------
(* No subscribed aircraft is lost.                                         *)
Seen(c) == known[c] \union IcaosOf(locationMessages[c])

LEMMA FollowSeen ==
    FollowInv <=> \A c \in Listening : \A i \in Icaos :
                     Due(c, i) => \/ i \in Seen(c) \/ OnItsWay(c, globalList[i])
                                  \/ globalList[i] \in cut
  BY DEF FollowInv, Seen

LEMMA InitFollowInv == Init => FollowInv
  BY DEF Init, FollowInv, Listening

(* A step of the workers: what is on its way to a listening client stays   *)
(* so or is cut off.                                                       *)
LEMMA WayStays ==
    ASSUME NInv, NEW w \in Workers, globalListUpdate(w) \/ Fanout(w),
           NEW c \in clients, NEW u \in Updates, OnItsWay(c, u)
    PROVE  OnItsWay(c, u)' \/ u \in cut'
<1> USE DEF natsVars, listVars, chanVars
<1>0. c \in Clients /\ c # None /\ u # None
  BY WsBrokerAssumption, NoneApart DEF NInv
<1>1. PICK X : X = {v \in Workers : msg[v] = u /\ (wpc[v] = "range" \/ c \in left[v] \/ to[v] = c)}
  OBVIOUS
<1>2. \/ \E k \in DOMAIN outChan[c] : outChan[c][k] = u
      \/ \E v \in X : TRUE
  BY <1>1 DEF OnItsWay
<1>3. CASE globalListUpdate(w)
  <2>1. /\ \A v \in Workers \ {w} : msg'[v] = msg[v] /\ wpc'[v] = wpc[v]
        /\ outChan' = outChan /\ left' = left /\ to' = to
        /\ wpc[w] = "idle"
    BY <1>3 DEF globalListUpdate, NInv
  <2>2. w \notin X
    BY <1>0, <1>1, <2>1 DEF NInv
  <2> QED
    BY <1>1, <1>2, <2>1, <2>2 DEF OnItsWay
<1>4. CASE StartRange(w)
  <2>1. /\ \A v \in Workers \ {w} : left'[v] = left[v] /\ wpc'[v] = wpc[v]
        /\ outChan' = outChan /\ msg' = msg /\ to' = to
        /\ left'[w] = clients
    BY <1>4 DEF StartRange, NInv
  <2> QED
    BY <1>1, <1>2, <2>1 DEF OnItsWay
<1>5. CASE \E d \in Clients : VisitClient(w, d)
  <2>1. PICK d \in Clients : VisitClient(w, d)
    BY <1>5
  <2>2. /\ \A v \in Workers \ {w} : left'[v] = left[v] /\ wpc'[v] = wpc[v] /\ to'[v] = to[v]
        /\ outChan' = outChan /\ msg' = msg
        /\ left'[w] = left[w] \ {d} /\ wpc[w] = "next"
        /\ d \in clients => to'[w] = d
    BY <2>1 DEF VisitClient, NInv
  <2>3. to[w] = None
    BY <2>2 DEF NInv
  <2> QED
    BY <1>0, <1>1, <1>2, <2>2, <2>3 DEF OnItsWay
<1>6. CASE SendToClient(w)
  <2>1. /\ wpc[w] = "send" /\ to[w] \in Clients /\ msg[w] \in Updates
    BY <1>6 DEF SendToClient, NInv
  <2>2. /\ outChan' = [outChan EXCEPT ![to[w]] = Append(outChan[to[w]], msg[w])]
        /\ left' = left /\ msg' = msg
        /\ \A v \in Workers \ {w} : wpc'[v] = wpc[v] /\ to'[v] = to[v]
    BY <1>6 DEF SendToClient, Sent, NInv
  <2>3. CASE \E k \in DOMAIN outChan[c] : outChan[c][k] = u
    <3>1. PICK k \in DOMAIN outChan[c] : outChan[c][k] = u
      BY <2>3
    <3>2. k \in DOMAIN outChan'[c] /\ outChan'[c][k] = u
      <4>1. CASE to[w] = c
        <5>1. outChan[c] \in Seq(Updates) /\ outChan'[c] = Append(outChan[c], msg[w])
          BY <1>0, <2>2, <4>1 DEF NInv
        <5>2. Append(outChan[c], msg[w]) \in Seq(Updates)
              /\ Len(Append(outChan[c], msg[w])) = Len(outChan[c]) + 1
              /\ \A j \in 1 .. Len(outChan[c]) : Append(outChan[c], msg[w])[j] = outChan[c][j]
          BY <2>1, <5>1, AppendProperties
        <5>3. DOMAIN outChan[c] = 1 .. Len(outChan[c]) /\ Len(outChan[c]) \in Nat
              /\ DOMAIN Append(outChan[c], msg[w]) = 1 .. Len(outChan[c]) + 1
          BY <5>1, <5>2, SeqFacts
        <5> QED
          BY <3>1, <5>1, <5>2, <5>3
      <4>2. CASE to[w] # c
        BY <1>0, <2>2, <3>1, <4>2 DEF NInv
      <4> QED
        BY <4>1, <4>2
    <3> QED
      BY <3>2 DEF OnItsWay
  <2>4. CASE w \in X /\ to[w] = c
    <3>1. outChan[c] \in Seq(Updates) /\ outChan'[c] = Append(outChan[c], u)
      BY <1>0, <1>1, <2>2, <2>4 DEF NInv
    <3>2. Append(outChan[c], u) \in Seq(Updates)
          /\ Len(Append(outChan[c], u)) = Len(outChan[c]) + 1
          /\ Append(outChan[c], u)[Len(outChan[c]) + 1] = u
      BY <3>1, AppendProperties
    <3>3. Len(outChan[c]) + 1 \in DOMAIN outChan'[c]
      BY <3>1, <3>2, SeqFacts
    <3> QED
      BY <3>1, <3>2, <3>3 DEF OnItsWay
  <2>5. CASE w \in X /\ to[w] # c
    <3>1. c \in left[w]
      BY <1>1, <2>1, <2>5
    <3> QED
      BY <1>1, <2>2, <2>5, <3>1 DEF OnItsWay
  <2>6. CASE \E v \in X : v # w
    BY <1>1, <2>2, <2>6 DEF OnItsWay
  <2> QED
    BY <1>2, <2>3, <2>4, <2>5, <2>6
<1>7. CASE SendPanics(w)
  <2>1. /\ \A v \in Workers \ {w} : left'[v] = left[v] /\ wpc'[v] = wpc[v] /\ to'[v] = to[v]
        /\ outChan' = outChan /\ msg' = msg /\ cut' = cut \union {msg[w]}
    BY <1>7 DEF SendPanics, Sent, NInv
  <2> QED
    BY <1>1, <1>2, <2>1 DEF OnItsWay
<1>8. CASE EndRange(w)
  <2>1. /\ \A v \in Workers \ {w} : msg'[v] = msg[v] /\ wpc'[v] = wpc[v]
        /\ outChan' = outChan /\ left' = left /\ to' = to
        /\ wpc[w] = "next" /\ left[w] = {}
    BY <1>8 DEF EndRange, NInv
  <2>2. w \notin X
    BY <1>0, <1>1, <2>1 DEF NInv
  <2> QED
    BY <1>1, <1>2, <2>1, <2>2 DEF OnItsWay
<1> QED
  BY <1>3, <1>4, <1>5, <1>6, <1>7, <1>8 DEF Fanout

LEMMA WorkerFollow ==
    ASSUME NInv, HInv, FollowInv, NEW w \in Workers, globalListUpdate(w) \/ Fanout(w)
    PROVE  FollowInv'
<1> USE DEF natsVars, listVars, chanVars, batchVars
<1>1. UNCHANGED <<handler, synced, known, locationMessages>> /\ cut \subseteq cut'
  BY DEF globalListUpdate, Fanout, StartRange, VisitClient, SendToClient, SendPanics,
         EndRange
<1>2. Listening' = Listening
  BY <1>1 DEF Listening
<1>3. \A c \in Listening : c \in clients /\ c \in Clients
  BY DEF HInv, Listening
<1>4. ASSUME NEW c \in Listening, NEW i \in Icaos, Due(c, i)',
             globalList'[i] = globalList[i], i \notin stale
      PROVE  \/ i \in Seen(c) \/ OnItsWay(c, globalList[i])' \/ globalList'[i] \in cut'
  <2>1. Due(c, i)
    BY <1>1, <1>4 DEF Due
  <2>2. globalList[i] \in Updates
    BY <2>1 DEF Due, NInv
  <2>3. \/ i \in Seen(c) \/ OnItsWay(c, globalList[i]) \/ globalList[i] \in cut
    BY <2>1, FollowSeen
  <2>4. PICK u \in Updates : u = globalList[i]
    BY <2>2
  <2>5. OnItsWay(c, u) => OnItsWay(c, u)' \/ u \in cut'
    BY <1>3, WayStays
  <2>6. OnItsWay(c, u)' <=> OnItsWay(c, globalList[i])'
    BY <1>4, <2>4 DEF OnItsWay
  <2> QED
    BY <1>1, <1>4, <2>3, <2>4, <2>5, <2>6
<1>5. ASSUME NEW c \in Listening, NEW i \in Icaos, Due(c, i)'
      PROVE  \/ i \in Seen(c) \/ OnItsWay(c, globalList[i])' \/ globalList'[i] \in cut'
  <2>1. CASE Fanout(w)
    <3>1. UNCHANGED <<globalList, stale>>
      BY <2>1 DEF Fanout, StartRange, VisitClient, SendToClient, SendPanics, EndRange
    <3> QED
      BY <1>4, <1>5, <3>1 DEF Due
  <2>2. CASE globalListUpdate(w)
    <3>1. PICK u \in undelivered :
             /\ msg' = [msg EXCEPT ![w] = u]
             /\ globalList' = [globalList EXCEPT ![u.icao] = u]
             /\ stale' = stale \ {u.icao}
      BY <2>2 DEF globalListUpdate
    <3>2. wpc' = [wpc EXCEPT ![w] = "range"]
      BY <2>2 DEF globalListUpdate
    <3>3. CASE i = u.icao
      <4>1. globalList'[i] = u /\ msg'[w] = u /\ wpc'[w] = "range"
        BY <3>1, <3>2, <3>3 DEF NInv
      <4> QED
        BY <4>1 DEF OnItsWay
    <3>4. CASE i # u.icao
      <4>1. globalList'[i] = globalList[i] /\ i \notin stale
        BY <1>5, <3>1, <3>4 DEF Due, NInv
      <4> QED
        BY <1>4, <1>5, <4>1
    <3> QED
      BY <3>3, <3>4
  <2> QED
    BY <2>1, <2>2
<1>6. \A c \in Listening : Seen(c)' = Seen(c)
  BY <1>1 DEF Seen
<1> QED
  BY <1>1, <1>2, <1>5, <1>6 DEF FollowInv, Seen

(* A step that leaves the wire alone, where nobody listens or is due more  *)
(* than before and nobody has seen less.                                   *)
LEMMA FollowKept ==
    ASSUME FollowInv, UNCHANGED <<cut, outChan, wpc, msg, left, to>>,
           \A i \in Icaos : /\ globalList'[i] \in {globalList[i], None}
                            /\ globalList'[i] = globalList[i] /\ i \in stale => i \in stale',
           \A c \in Listening' :
              \/ synced'[c] = {}
              \/ c \in Listening /\ synced'[c] \subseteq synced[c] /\ Seen(c) \subseteq Seen(c)'
    PROVE  FollowInv'
<1> SUFFICES ASSUME NEW c \in Listening', NEW i \in Icaos, Due(c, i)'
             PROVE  \/ i \in Seen(c)' \/ OnItsWay(c, globalList[i])' \/ globalList'[i] \in cut'
  BY DEF FollowInv, Seen
<1>1. globalList'[i] = globalList[i] /\ i \notin stale /\ globalList[i] # None
  <2>1. globalList'[i] # None /\ i \notin stale'
    BY DEF Due
  <2>2. /\ globalList'[i] \in {globalList[i], None}
        /\ globalList'[i] = globalList[i] /\ i \in stale => i \in stale'
    OBVIOUS
  <2> QED
    BY <2>1, <2>2
<1>2. synced'[c] # {}
  BY DEF Due, tileMatchesSubs
<1>3. Due(c, i) /\ c \in Listening
  BY <1>1, <1>2 DEF Due, tileMatchesSubs
<1>4. OnItsWay(c, globalList[i]) => OnItsWay(c, globalList[i])'
  BY <1>1 DEF OnItsWay
<1>5. \/ i \in Seen(c) \/ OnItsWay(c, globalList[i]) \/ globalList[i] \in cut
  BY <1>3, FollowSeen
<1> QED
  BY <1>1, <1>2, <1>4, <1>5

(* A handler touches its own batch only.                                   *)
LEMMA OwnBatch ==
    ASSUME BInv, HInv, NEW c \in Clients,
           \/ Command(c) \/ ReplyAsync(c) \/ TakeLocation(c) \/ SendTick(c) \/ ForgetSubs(c)
    PROVE  \A d \in Clients \ {c} : Seen(d)' = Seen(d)
<1>1. \/ UNCHANGED <<known, locationMessages>>
      \/ \E b, k : /\ SetBatch(c, b)
                   /\ known' = [known EXCEPT ![c] = k] \/ known' = known
      \/ \E k : known' = [known EXCEPT ![c] = k] /\ locationMessages' = locationMessages
  <2>1. CASE Exit(c) \/ ForgetSubs(c)
    BY <2>1 DEF Exit, ForgetSubs, Return
  <2>2. CASE SetSubscribedTiles(c)
    BY <2>2 DEF SetSubscribedTiles, batchVars
  <2>3. CASE GridPlanes(c)
    BY <2>3 DEF GridPlanes, batchVars
  <2>4. CASE TakeLocation(c)
    BY <2>4 DEF TakeLocation, batchVars
  <2>5. CASE SendTick(c)
    BY <2>5 DEF SendTick
  <2>6. CASE Subscribe(c) \/ Unsubscribe(c) \/ Reply(c) \/ ReplyAsync(c)
    BY <2>6 DEF Subscribe, Unsubscribe, Reply, ReplyAsync, batchVars
  <2> QED
    BY <2>1, <2>2, <2>3, <2>4, <2>5, <2>6 DEF Command
<1>2. \A d \in Clients \ {c} : known'[d] = known[d] /\ locationMessages'[d] = locationMessages[d]
  BY <1>1 DEF SetBatch, BInv
<1> QED
  BY <1>2 DEF Seen

LEMMA HandlerFollow ==
    ASSUME NInv, HInv, BInv, GInv, FollowInv, NEW c \in Clients,
           \/ Command(c) \/ ReplyAsync(c) \/ SendTick(c) \/ ForgetSubs(c)
    PROVE  FollowInv'
<1>1. /\ UNCHANGED <<cut, outChan, wpc, msg, left, to, globalList, stale>>
  BY OwnState DEF wireVars, natsVars, listVars, chanVars
<1>2. /\ \A d \in Clients \ {c} : handler'[d] = handler[d] /\ synced'[d] = synced[d]
      /\ handler'[c] = "loop" => handler[c] = "loop"
  BY Serving DEF Served, ServedHandler, ServedSubs, HInv
<1>3. \A d \in Clients \ {c} : Seen(d)' = Seen(d)
  BY OwnBatch
<1>4. Listening' \subseteq Listening
  BY <1>2 DEF Listening
<1>5. ASSUME c \in Listening' => synced'[c] \subseteq synced[c] /\ Seen(c) \subseteq Seen(c)'
      PROVE  FollowInv'
  <2>1. \A d \in Listening' :
           d \in Listening /\ synced'[d] \subseteq synced[d] /\ Seen(d) \subseteq Seen(d)'
    BY <1>2, <1>3, <1>4, <1>5 DEF Listening
  <2> QED
    BY <1>1, <2>1, FollowKept
<1>6. CASE Exit(c) \/ ForgetSubs(c)
  <2>1. c \notin Listening'
    BY <1>6 DEF Exit, ForgetSubs, Return, Listening, HInv
  <2> QED
    BY <1>5, <2>1
<1>7. CASE \/ Subscribe(c) \/ Unsubscribe(c) \/ Reply(c) \/ ReplyAsync(c)
           \/ SetSubscribedTiles(c) /\ ~(Head(cmds[c]).keys \subseteq Grid)
  <2>1. UNCHANGED <<known, locationMessages>>
    BY <1>7 DEF Subscribe, Unsubscribe, Reply, ReplyAsync, SetSubscribedTiles, batchVars
  <2>2. synced'[c] \subseteq synced[c]
    BY <1>7 DEF Subscribe, Unsubscribe, Reply, ReplyAsync, SetSubscribedTiles, HInv
  <2> QED
    BY <1>5, <2>1, <2>2 DEF Seen
<1>8. CASE GridPlanes(c)
  <2>1. synced' = synced
    BY <1>8 DEF GridPlanes
  <2> QED
    BY <1>5, <1>8, <2>1, GridBatch DEF Seen
<1>9. CASE SendTick(c)
  <2>1. synced' = synced
    BY <1>9 DEF SendTick
  <2> QED
    BY <1>5, <1>9, <2>1, TickBatch DEF Seen
<1>10. CASE SetSubscribedTiles(c) /\ Head(cmds[c]).keys \subseteq Grid
  <2> DEFINE new == Head(cmds[c]).keys
  <2>1. /\ synced' = [synced EXCEPT ![c] = new]
        /\ known' = [known EXCEPT ![c] = {loc.icao : loc \in Snapshot(new)}]
    BY <1>10 DEF SetSubscribedTiles
  <2> HIDE DEF new
  <2>2. synced'[c] = new /\ known'[c] = {loc.icao : loc \in Snapshot(new)}
    BY <2>1 DEF HInv, BInv
  <2>3. ASSUME NEW i \in Icaos, Due(c, i)' PROVE i \in known'[c]
    <3>1. /\ globalList[i] # None /\ i \notin stale
          /\ tileMatchesSubs(new, globalList[i].tile, globalList[i].feed)
      BY <1>1, <2>2, <2>3 DEF Due
    <3>2. globalList[i] \in Stored /\ globalList[i].icao = i /\ globalList[i] \in Location
      BY <3>1, NoneApart DEF Stored, NInv
    <3>3. locationMatchesSubs(new, globalList[i])
      BY <3>1, <3>2, FeedMatches
    <3> QED
      BY <2>2, <3>1, <3>2, <3>3 DEF Snapshot
  <2>4. ASSUME NEW d \in Listening', d # c, NEW i \in Icaos, Due(d, i)'
        PROVE  \/ i \in Seen(d)' \/ OnItsWay(d, globalList[i])' \/ globalList'[i] \in cut'
    <3>1. d \in Clients /\ d \in Listening
      BY <1>4 DEF Listening
    <3>2. Due(d, i)
      BY <1>1, <1>2, <2>4, <3>1 DEF Due
    <3>3. \/ i \in Seen(d) \/ OnItsWay(d, globalList[i]) \/ globalList[i] \in cut
      BY <3>1, <3>2, FollowSeen
    <3>4. OnItsWay(d, globalList[i])' <=> OnItsWay(d, globalList[i])
      BY <1>1 DEF OnItsWay
    <3> QED
      BY <1>1, <1>3, <2>4, <3>1, <3>3, <3>4
  <2> QED
    BY <2>3, <2>4 DEF FollowInv, Seen
<1> QED
  BY <1>6, <1>7, <1>8, <1>9, <1>10 DEF Command

LEMMA TakeFollow ==
    ASSUME NInv, HInv, BInv, GInv, FollowInv, NEW c \in Clients, TakeLocation(c)
    PROVE  FollowInv'
<1>1. /\ UNCHANGED <<cut, wpc, msg, left, to, globalList, stale, synced>>
      /\ outChan[c] # << >> /\ outChan' = [outChan EXCEPT ![c] = Tail(outChan[c])]
  BY DEF TakeLocation, natsVars, listVars
<1>2. /\ \A d \in Clients \ {c} : handler'[d] = handler[d]
      /\ handler'[c] = "loop" => handler[c] = "loop"
  BY Serving DEF Served, ServedHandler, HInv
<1>3. \A d \in Clients \ {c} : Seen(d)' = Seen(d)
  BY OwnBatch
<1>4. Listening' \subseteq Listening
  BY <1>2 DEF Listening
<1>5. Seen(c) \subseteq Seen(c)'
  BY TakeBatch DEF Seen
<1> SUFFICES ASSUME NEW d \in Listening', NEW i \in Icaos, Due(d, i)'
             PROVE  \/ i \in Seen(d)' \/ OnItsWay(d, globalList[i])' \/ globalList'[i] \in cut'
  BY DEF FollowInv, Seen
<1>6. d \in Listening /\ d \in Clients /\ Due(d, i) /\ globalList[i] \in Updates
  BY <1>1, <1>4 DEF Due, Listening, NInv
<1>7. \/ i \in Seen(d) \/ OnItsWay(d, globalList[i]) \/ globalList[i] \in cut
  BY <1>6, FollowSeen
<1>8. CASE d # c
  <2>1. outChan'[d] = outChan[d]
    BY <1>1, <1>6, <1>8 DEF NInv
  <2>2. OnItsWay(d, globalList[i])' <=> OnItsWay(d, globalList[i])
    BY <1>1, <2>1 DEF OnItsWay
  <2> QED
    BY <1>1, <1>3, <1>6, <1>7, <1>8, <2>2
<1>9. CASE d = c
  <2>1. /\ outChan[c] \in Seq(Updates) /\ Len(outChan[c]) \in Nat
        /\ DOMAIN outChan[c] = 1 .. Len(outChan[c])
        /\ outChan'[c] = Tail(outChan[c])
    BY <1>1, SeqFacts DEF NInv
  <2>2. /\ Tail(outChan[c]) \in Seq(Updates) /\ Len(Tail(outChan[c])) = Len(outChan[c]) - 1
        /\ \A k \in 1 .. Len(Tail(outChan[c])) : Tail(outChan[c])[k] = outChan[c][k + 1]
        /\ Head(outChan[c]) = outChan[c][1]
    BY <1>1, <2>1, HeadTailProperties
  <2>3. DOMAIN outChan'[c] = 1 .. Len(outChan[c]) - 1
    BY <2>1, <2>2, SeqFacts
  <2>4. CASE OnItsWay(c, globalList[i]) /\ Head(outChan[c]) # globalList[i]
    <3>1. ASSUME NEW k \in DOMAIN outChan[c], outChan[c][k] = globalList[i]
          PROVE  OnItsWay(c, globalList[i])'
      <4>1. k - 1 \in 1 .. Len(outChan[c]) - 1 /\ k = (k - 1) + 1
        BY <2>1, <2>2, <2>4, <3>1
      <4>2. outChan'[c][k - 1] = globalList'[i]
        BY <1>1, <2>1, <2>2, <3>1, <4>1
      <4> QED
        BY <2>3, <4>1, <4>2 DEF OnItsWay
    <3>2. ASSUME ~ \E k \in DOMAIN outChan[c] : outChan[c][k] = globalList[i]
          PROVE  OnItsWay(c, globalList[i])'
      BY <1>1, <2>4, <3>2 DEF OnItsWay
    <3> QED
      BY <1>9, <3>1, <3>2
  <2>5. CASE Head(outChan[c]) = globalList[i]
    <3>1. tileMatchesSubs(subs[c], globalList[i].tile, globalList[i].feed)
      BY <1>6, <1>9 DEF Due, tileMatchesSubs, HInv
    <3>2. globalList[i].icao = i
      BY <1>6 DEF NInv, Due
    <3>3. i \in Seen(c)'
      BY <2>5, <3>1, <3>2, TakeBatch DEF Seen
    <3> QED
      BY <1>9, <3>3
  <2> QED
    BY <1>1, <1>5, <1>7, <1>9, <2>4, <2>5
<1> QED
  BY <1>8, <1>9

LEMMA StepFollowInv == ASSUME NInv, HInv, BInv, GInv, FollowInv, [Next]_vars PROVE FollowInv'
<1> USE DEF natsVars, listVars, chanVars, batchVars
<1>1. ASSUME NEW i \in Icaos, GrowStale(i) PROVE FollowInv'
  <2>1. UNCHANGED <<cut, outChan, wpc, msg, left, to, handler, synced, known, locationMessages>>
    BY <1>1 DEF GrowStale
  <2>2. \A j \in Icaos : /\ globalList'[j] \in {globalList[j], None}
                         /\ globalList'[j] = globalList[j] /\ j \in stale => j \in stale'
    BY <1>1 DEF GrowStale, NInv
  <2>3. \A c \in Listening' :
           c \in Listening /\ synced'[c] \subseteq synced[c] /\ Seen(c) \subseteq Seen(c)'
    BY <2>1 DEF Listening, Seen
  <2> QED
    BY <2>1, <2>2, <2>3, FollowKept
<1>2. ASSUME NEW c \in Clients, addClient(c) \/ CloseOutChan(c) \/ DeleteClient(c)
      PROVE  FollowInv'
  <2>1. UNCHANGED <<cut, outChan, wpc, msg, left, to, synced, known, locationMessages,
                    globalList, stale>>
    BY <1>2 DEF addClient, CloseOutChan, DeleteClient
  <2>2. \A d \in Listening' : d \in Listening \/ synced[d] = {}
    BY <1>2 DEF addClient, CloseOutChan, DeleteClient, Listening, HInv
  <2>3. \A d \in Listening' :
           \/ synced'[d] = {}
           \/ d \in Listening /\ synced'[d] \subseteq synced[d] /\ Seen(d) \subseteq Seen(d)'
    BY <2>1, <2>2 DEF Seen
  <2> QED
    BY <2>1, <2>3, FollowKept
<1>3. ASSUME UNCHANGED <<cut, outChan, wpc, msg, left, to, synced, known, locationMessages,
                         globalList, stale, handler>>
      PROVE  FollowInv'
  BY <1>3 DEF FollowInv, Listening, Due, OnItsWay
<1>4. ASSUME NEW c \in Clients, ReadError(c) \/ \E r \in Requests[c] : ReadRequest(c, r)
      PROVE  FollowInv'
  <2>1. UNCHANGED <<cut, outChan, wpc, msg, left, to, synced, known, locationMessages,
                    globalList, stale, handler>>
    BY <1>4 DEF ReadError, ReadRequest
  <2> QED
    BY <1>3, <2>1
<1>5. CASE UNCHANGED vars
  BY <1>3, <1>5 DEF vars
<1> QED
  BY <1>1, <1>2, <1>4, <1>5, WorkerFollow, HandlerFollow, TakeFollow
     DEF Next, servePlanes, Handle, removeClient

-----------------------------------------------------------------------------
LEMMA Invariant == Spec => []IInv
<1>1. Init => IInv
  BY InitNInv, InitHInv, InitRInv, InitBInv, InitGInv, InitFollowInv DEF IInv
<1>2. IInv /\ [Next]_vars => IInv'
  BY StepNInv, StepHInv, StepRInv, StepBInv, StepGInv, StepFollowInv DEF IInv
<1> QED
  BY <1>1, <1>2, PTL DEF Spec

LEMMA TypesHold == ASSUME IInv PROVE TypeOK
<1>1. \A c \in Clients : PendingBatch(c) \in Batch
  BY BatchTypes DEF IInv
<1>2. \A c \in Clients : \A k \in DOMAIN cmds[c] : cmds[c][k] \in Request
  BY SeqFacts DEF IInv, RInv
<1>3. globalList \in [Icaos -> Location \union {None}]
  BY NoneApart DEF IInv, NInv
<1> QED
  BY <1>1, <1>2, <1>3 DEF IInv, NInv, HInv, RInv, BInv, GInv, TypeOK

LEMMA GaugeHolds == ASSUME IInv PROVE GaugeNotBelow
<1> SUFFICES ASSUME NEW k \in Grid
             PROVE  Cardinality({c \in Listening : k \in subs[c]}) <= subscriptions[k]
  BY DEF GaugeNotBelow
<1>1. {c \in Listening : k \in subs[c]} \in SUBSET Holders(k)
  BY DEF Listening, Holders
<1>2. IsFiniteSet(Holders(k)) /\ Cardinality(Holders(k)) \in Nat
  BY HoldersFinite
<1>3. /\ Cardinality({c \in Listening : k \in subs[c]}) <= Cardinality(Holders(k))
      /\ Cardinality({c \in Listening : k \in subs[c]}) \in Nat
  BY <1>1, <1>2, FS_Subset, FS_CardinalityType
<1>4. Cardinality(Holders(k)) <= subscriptions[k] /\ subscriptions[k] \in Int
  BY DEF IInv, GInv
<1> QED
  BY <1>2, <1>3, <1>4

(* The gauge of a tile counts every subscriber, and a batch has one        *)
(* location per aircraft at the place its index gives, through any         *)
(* requests, snapshots, ticks and lost connections (web.go).               *)
THEOREM ClientStateIsSound == Spec => []ClientStateSound
<1>1. IInv => OnePerAircraft
  BY DEF IInv, BInv, OnePerAircraft, Indexed, PendingBatch, Listening
<1>2. IInv => ClientStateSound
  BY <1>1, TypesHold, GaugeHolds DEF ClientStateSound
<1> QED
  BY <1>2, Invariant, PTL

(* No client is sent what it has not wanted since the last tick (web.go).  *)
THEOREM SentIsWanted == Spec => []OnlyWanted
<1>1. IInv => OnlyWanted
  BY DEF IInv, BInv, Covered, OnlyWanted, Listening
<1> QED
  BY <1>1, Invariant, PTL

(* However replacing the tiles interleaves with any number of workers, no  *)
(* recent aircraft on them is missed, unless the fan-out of its location   *)
(* met the closed channel of a client that left (web.go, nats.go).         *)
THEOREM NoneIsMissed == Spec => []NoneMissed
<1>1. ASSUME IInv PROVE NoneMissed
  <2> SUFFICES ASSUME NEW c \in Listening, NEW i \in Icaos, Missed(c, i)
               PROVE  globalList[i] \in cut
    BY DEF NoneMissed
  <2>1. Due(c, i) /\ i \notin known[c] /\ ~InTransit(c, i)
    BY DEF Missed, Due
  <2>2. globalList[i].icao = i /\ globalList[i] # None
    BY <1>1, <2>1 DEF IInv, NInv, Due
  <2>3. i \notin IcaosOf(locationMessages[c]) /\ ~OnItsWay(c, globalList[i])
    BY <2>1, <2>2 DEF InTransit, OnItsWay
  <2> QED
    BY <1>1, <2>1, <2>3 DEF IInv, FollowInv
<1> QED
  BY <1>1, Invariant, PTL

-----------------------------------------------------------------------------
(***************************************************************************)
(* The maps that forget, for any number of maps, keys, marbles and         *)
(* callers.  The argument: a marble has one owner, which is the pool, a    *)
(* Store that has not finished, an entry, or the deletion of that entry    *)
(* until it has put the marble back.  What an entry that is being deleted  *)
(* still points to is no longer its own.                                   *)
(***************************************************************************)

(* The deletion of a key has taken over the marble the key points to.      *)
TakenOver(k) ==
    /\ sweep[MapOf[k]].at \in {"put", "delete"}
    /\ sweep[MapOf[k]].key = k
    /\ sweep[MapOf[k]].ptr = lookup[k]

EntryOwns(k, x) == lookup[k] = x /\ ~ TakenOver(k)
StoreOwns(c, x) == call[c].op = "store" /\ call[c].ptr = x
SweepOwns(m, x) == sweep[m].at = "put" /\ sweep[m].ptr = x

(* Calls and deletions under way have a key and, from the moment they need *)
(* it, a marble; a sweeper stays in its map.                               *)
Underway ==
    /\ \A c \in Callers : call[c].op # "idle" =>
          call[c].key \in Keys /\ call[c].ptr \in Marbles
    /\ \A m \in Maps :
          /\ \A k \in sweep[m].left : MapOf[k] = m
          /\ sweep[m].at \in {"load", "put", "delete"} =>
                sweep[m].key \in Keys /\ MapOf[sweep[m].key] = m
          /\ sweep[m].at \in {"put", "delete"} => sweep[m].ptr \in Marbles
          /\ sweep[m].at = "load" => lookup[sweep[m].key] # Nil
          /\ sweep[m].at # "rest" <=> timer[m] = "fired"

PoolOwnsAlone ==
    \A x \in Marbles : bag[x] # 0 =>
        /\ \A k \in Keys : ~ EntryOwns(k, x)
        /\ \A c \in Callers : ~ StoreOwns(c, x)
        /\ \A m \in Maps : ~ SweepOwns(m, x)

EntryOwnsAlone ==
    \A x \in Marbles, k \in Keys : EntryOwns(k, x) =>
        /\ \A j \in Keys \ {k} : ~ EntryOwns(j, x)
        /\ \A c \in Callers : ~ StoreOwns(c, x)
        /\ \A m \in Maps : ~ SweepOwns(m, x)

CallOwnsAlone ==
    \A x \in Marbles :
        /\ \A c, d \in Callers : StoreOwns(c, x) /\ StoreOwns(d, x) => c = d
        /\ \A m, n \in Maps : SweepOwns(m, x) /\ SweepOwns(n, x) => m = n
        /\ \A c \in Callers, m \in Maps : ~ (StoreOwns(c, x) /\ SweepOwns(m, x))

(* A marble holds the value of its owner's key.                            *)
OwnersValue ==
    \A x \in Marbles :
        /\ \A k \in Keys : EntryOwns(k, x) => marble[x].key = k
        /\ \A c \in Callers : StoreOwns(c, x) => marble[x].key = call[c].key
        /\ \A m \in Maps : SweepOwns(m, x) => marble[x].key = sweep[m].key

(* Nobody refills the marble of a load that no deletion has run into.      *)
LoadIsSafe ==
    \A c \in Callers : (call[c].op = "load" /\ ~ call[c].raced) =>
        bag[call[c].ptr] = 0 /\ marble[call[c].ptr].key = call[c].key

Ownership == PoolOwnsAlone /\ EntryOwnsAlone /\ CallOwnsAlone

MapIInv == MapTypeOK /\ Underway /\ Ownership /\ OwnersValue /\ LoadIsSafe

-----------------------------------------------------------------------------
(* The initial state satisfies the inductive invariant.                    *)
LEMMA MapInitially == MapInit => MapIInv
<1> SUFFICES ASSUME MapInit PROVE MapIInv
  OBVIOUS
<1>1. MapTypeOK
  BY ForgetfulMapAssumption DEF MapInit, MapTypeOK, Idle, Resting, Call, Sweep
<1>2. Underway
  BY DEF MapInit, Underway, Idle, Resting, Call, Sweep
<1>3. \A x \in Marbles :
         /\ bag[x] = 0
         /\ \A k \in Keys : ~ EntryOwns(k, x)
         /\ \A c \in Callers : ~ StoreOwns(c, x)
         /\ \A m \in Maps : ~ SweepOwns(m, x)
  BY ForgetfulMapAssumption
  DEF MapInit, EntryOwns, StoreOwns, SweepOwns, Idle, Resting, Call, Sweep
<1>4. Ownership /\ OwnersValue
  BY <1>3 DEF Ownership, PoolOwnsAlone, EntryOwnsAlone, CallOwnsAlone,
              OwnersValue
<1>5. LoadIsSafe
  BY DEF MapInit, LoadIsSafe, Idle, Call
<1> QED
  BY <1>1, <1>2, <1>4, <1>5 DEF MapIInv

(* A step preserves the types and what is known of calls under way.        *)
LEMMA MapTypeStep ==
    ASSUME MapIInv, [MapNext]_mapVars
    PROVE  MapTypeOK' /\ Underway'
<1> USE ForgetfulMapAssumption
    DEF MapIInv, MapTypeOK, Underway, Call, Sweep
<1>1. ASSUME NEW c \in Callers, NEW k \in Keys, StoreGet(c, k)
      PROVE  MapTypeOK' /\ Underway'
  <2>1. PICK x \in Marbles :
           /\ \/ bag[x] > 0 /\ bag' = [bag EXCEPT ![x] = @ - 1]
              \/ UNCHANGED bag
           /\ marble' = [marble EXCEPT ![x] = [key |-> k, old |-> FALSE]]
           /\ call' = [call EXCEPT ![c] = Call("store", k, x, FALSE)]
    BY <1>1 DEF StoreGet
  <2> QED
    BY <1>1, <2>1, SMTT(60) DEF StoreGet
<1>2. ASSUME NEW c \in Callers, StoreKey(c) PROVE MapTypeOK' /\ Underway'
  BY <1>2 DEF StoreKey, Idle
<1>3. ASSUME NEW c \in Callers, NEW k \in Keys, LoadKey(c, k)
      PROVE  MapTypeOK' /\ Underway'
  BY <1>3 DEF LoadKey, HalfDeleted
<1>4. ASSUME NEW c \in Callers, LoadValue(c) PROVE MapTypeOK' /\ Underway'
  BY <1>4 DEF LoadValue, Idle
<1>5. ASSUME NEW m \in Maps, SweepStart(m) PROVE MapTypeOK' /\ Underway'
  BY <1>5 DEF SweepStart, Resting
<1>6. ASSUME NEW m \in Maps, NEW k \in Keys, SweepKey(m, k)
      PROVE  MapTypeOK' /\ Underway'
  BY <1>6 DEF SweepKey
<1>7. ASSUME NEW m \in Maps, DeleteLoad(m) PROVE MapTypeOK' /\ Underway'
  BY <1>7 DEF DeleteLoad
<1>8. ASSUME NEW m \in Maps, DeletePut(m) PROVE MapTypeOK' /\ Underway'
  BY <1>8 DEF DeletePut, Ownership, PoolOwnsAlone, SweepOwns
<1>9. ASSUME NEW m \in Maps, DeleteKey(m) PROVE MapTypeOK' /\ Underway'
  BY <1>9 DEF DeleteKey
<1>10. ASSUME NEW m \in Maps, SweepEnd(m) \/ Stop(m)
       PROVE  MapTypeOK' /\ Underway'
  <2>1. CASE SweepEnd(m)
    BY <2>1 DEF SweepEnd, Resting
  <2>2. CASE Stop(m)
    BY <2>2 DEF Stop
  <2> QED
    BY <1>10, <2>1, <2>2
<1>11. ASSUME NEW k \in Keys, GrowOld(k) PROVE MapTypeOK' /\ Underway'
  BY <1>11 DEF GrowOld
<1>12. CASE UNCHANGED mapVars
  BY <1>12 DEF mapVars
<1> QED
  BY <1>1, <1>2, <1>3, <1>4, <1>5, <1>6, <1>7, <1>8, <1>9, <1>10, <1>11,
     <1>12
  DEF MapNext, Sweeper

(* A marble keeps a single owner.  Stores and deletions hand it on; all    *)
(* other steps leave owners alone.                                         *)
LEMMA OwnershipStep ==
    ASSUME MapIInv, [MapNext]_mapVars
    PROVE  Ownership' /\ OwnersValue'
<1> USE ForgetfulMapAssumption DEF MapIInv, MapTypeOK, Underway, Call, Sweep
<1> USE DEF Ownership
<1>1. ASSUME bag' = bag,
             \A x \in Marbles :
                /\ marble'[x].key = marble[x].key
                /\ \A k \in Keys : EntryOwns(k, x)' => EntryOwns(k, x)
                /\ \A c \in Callers : StoreOwns(c, x)' =>
                      StoreOwns(c, x) /\ call'[c].key = call[c].key
                /\ \A m \in Maps : SweepOwns(m, x)' =>
                      SweepOwns(m, x) /\ sweep'[m].key = sweep[m].key
      PROVE  Ownership' /\ OwnersValue'
  BY <1>1 DEF PoolOwnsAlone, EntryOwnsAlone, CallOwnsAlone, OwnersValue
<1>2. ASSUME NEW c \in Callers, NEW k \in Keys, StoreGet(c, k)
      PROVE  Ownership' /\ OwnersValue'
  <2>1. PICK x \in Marbles :
           /\ \/ bag[x] > 0 /\ bag' = [bag EXCEPT ![x] = @ - 1]
              \/ Unreachable(x) /\ UNCHANGED bag
           /\ marble' = [marble EXCEPT ![x] = [key |-> k, old |-> FALSE]]
           /\ call' = [call EXCEPT ![c] = Call("store", k, x, FALSE)]
    BY <1>2 DEF StoreGet
  <2>2. /\ \A j \in Keys : ~ EntryOwns(j, x)
        /\ \A d \in Callers : ~ StoreOwns(d, x)
        /\ \A m \in Maps : ~ SweepOwns(m, x)
    BY <2>1 DEF PoolOwnsAlone, Unreachable, Range, EntryOwns, StoreOwns,
                SweepOwns
  <2>3. /\ bag'[x] = 0
        /\ \A y \in Marbles \ {x} : bag'[y] = bag[y] /\ marble'[y] = marble[y]
        /\ marble'[x].key = k
    BY <2>1 DEF Unreachable
  <2>4. \A y \in Marbles :
           /\ \A j \in Keys : EntryOwns(j, y)' <=> EntryOwns(j, y)
           /\ \A m \in Maps : SweepOwns(m, y)' <=> SweepOwns(m, y)
           /\ \A d \in Callers \ {c} : StoreOwns(d, y)' <=> StoreOwns(d, y)
           /\ StoreOwns(c, y)' <=> y = x
    BY <1>2, <2>1
    DEF StoreGet, EntryOwns, TakenOver, StoreOwns, SweepOwns
  <2>5. /\ \A d \in Callers \ {c} : call'[d] = call[d]
        /\ call'[c].key = k
        /\ sweep' = sweep
    BY <1>2, <2>1 DEF StoreGet
  <2> HIDE DEF MapTypeOK, Underway
  <2> QED
    <3>1. PoolOwnsAlone'
      BY <2>2, <2>3, <2>4, <2>5 DEF PoolOwnsAlone, EntryOwnsAlone, CallOwnsAlone
    <3>2. EntryOwnsAlone'
      BY <2>2, <2>3, <2>4, <2>5 DEF PoolOwnsAlone, EntryOwnsAlone, CallOwnsAlone
    <3>3. CallOwnsAlone'
      BY <2>2, <2>3, <2>4, <2>5 DEF PoolOwnsAlone, EntryOwnsAlone, CallOwnsAlone
    <3>4. OwnersValue'
      BY <2>2, <2>3, <2>4, <2>5 DEF OwnersValue
    <3> QED
      BY <3>1, <3>2, <3>3, <3>4
<1>3. ASSUME NEW c \in Callers, StoreKey(c) PROVE Ownership' /\ OwnersValue'
  <2>1. PICK k \in Keys, x \in Marbles :
           k = call[c].key /\ x = call[c].ptr /\ StoreOwns(c, x)
    BY <1>3 DEF StoreKey, StoreOwns
  <2>2. \A y \in Marbles :
           /\ \A j \in Keys \ {k} : EntryOwns(j, y)' <=> EntryOwns(j, y)
           /\ EntryOwns(k, y)' => y = x
           /\ \A m \in Maps : SweepOwns(m, y)' <=> SweepOwns(m, y)
           /\ \A d \in Callers \ {c} : StoreOwns(d, y)' <=> StoreOwns(d, y)
           /\ ~ StoreOwns(c, y)'
    BY <1>3, <2>1
    DEF StoreKey, Idle, EntryOwns, TakenOver, StoreOwns, SweepOwns
  <2>3. /\ bag' = bag /\ marble' = marble /\ sweep' = sweep
        /\ \A d \in Callers \ {c} : call'[d] = call[d]
    BY <1>3 DEF StoreKey
  <2> HIDE DEF MapTypeOK, Underway
  <2> QED
    <3>1. PoolOwnsAlone'
      BY <2>1, <2>2, <2>3 DEF PoolOwnsAlone, EntryOwnsAlone, CallOwnsAlone
    <3>2. EntryOwnsAlone'
      BY <2>1, <2>2, <2>3 DEF PoolOwnsAlone, EntryOwnsAlone, CallOwnsAlone
    <3>3. CallOwnsAlone'
      BY <2>1, <2>2, <2>3 DEF PoolOwnsAlone, EntryOwnsAlone, CallOwnsAlone
    <3>4. OwnersValue'
      BY <2>1, <2>2, <2>3 DEF OwnersValue
    <3> QED
      BY <3>1, <3>2, <3>3, <3>4
<1>4. ASSUME NEW c \in Callers, NEW k \in Keys, LoadKey(c, k)
      PROVE  Ownership' /\ OwnersValue'
  BY <1>1, <1>4 DEF LoadKey, EntryOwns, TakenOver, StoreOwns, SweepOwns
<1>5. ASSUME NEW c \in Callers, LoadValue(c) PROVE Ownership' /\ OwnersValue'
  BY <1>1, <1>5
  DEF LoadValue, Idle, EntryOwns, TakenOver, StoreOwns, SweepOwns
<1>6. ASSUME NEW m \in Maps, SweepStart(m) PROVE Ownership' /\ OwnersValue'
  BY <1>1, <1>6 DEF SweepStart, EntryOwns, TakenOver, StoreOwns, SweepOwns
<1>7. ASSUME NEW m \in Maps, NEW k \in Keys, SweepKey(m, k)
      PROVE  Ownership' /\ OwnersValue'
  BY <1>1, <1>7 DEF SweepKey, EntryOwns, TakenOver, StoreOwns, SweepOwns
<1>8. ASSUME NEW m \in Maps, DeleteLoad(m) PROVE Ownership' /\ OwnersValue'
  <2> DEFINE k == sweep[m].key
             x == lookup[k]
  <2>1. /\ k \in Keys /\ MapOf[k] = m /\ x \in Marbles
        /\ EntryOwns(k, x)
    BY <1>8 DEF DeleteLoad, EntryOwns, TakenOver
  <2>2. \A y \in Marbles :
           /\ \A j \in Keys : EntryOwns(j, y)' => EntryOwns(j, y) /\ j # k
           /\ \A n \in Maps \ {m} : SweepOwns(n, y)' <=> SweepOwns(n, y)
           /\ SweepOwns(m, y)' => y = x
           /\ \A c \in Callers : StoreOwns(c, y)' <=> StoreOwns(c, y)
    BY <1>8, <2>1
    DEF DeleteLoad, EntryOwns, TakenOver, StoreOwns, SweepOwns
  <2>3. /\ bag' = bag /\ marble' = marble /\ call' = call
        /\ sweep'[m].key = k
        /\ \A n \in Maps \ {m} : sweep'[n] = sweep[n]
    BY <1>8 DEF DeleteLoad
  <2> HIDE DEF MapTypeOK, Underway
  <2> QED
    <3>1. PoolOwnsAlone'
      BY <2>1, <2>2, <2>3 DEF PoolOwnsAlone, EntryOwnsAlone, CallOwnsAlone
    <3>2. EntryOwnsAlone'
      BY <2>1, <2>2, <2>3 DEF PoolOwnsAlone, EntryOwnsAlone, CallOwnsAlone
    <3>3. CallOwnsAlone'
      BY <2>1, <2>2, <2>3 DEF PoolOwnsAlone, EntryOwnsAlone, CallOwnsAlone
    <3>4. OwnersValue'
      BY <2>1, <2>2, <2>3 DEF OwnersValue
    <3> QED
      BY <3>1, <3>2, <3>3, <3>4
<1>9. ASSUME NEW m \in Maps, DeletePut(m) PROVE Ownership' /\ OwnersValue'
  <2> DEFINE x == sweep[m].ptr
  <2>1. x \in Marbles /\ SweepOwns(m, x)
    BY <1>9 DEF DeletePut, SweepOwns
  <2>2. \A y \in Marbles :
           /\ \A j \in Keys : EntryOwns(j, y)' <=> EntryOwns(j, y)
           /\ \A n \in Maps \ {m} : SweepOwns(n, y)' <=> SweepOwns(n, y)
           /\ ~ SweepOwns(m, y)'
           /\ \A c \in Callers : StoreOwns(c, y)' <=> StoreOwns(c, y)
    BY <1>9, <2>1
    DEF DeletePut, EntryOwns, TakenOver, StoreOwns, SweepOwns
  <2>3. /\ \A y \in Marbles \ {x} : bag'[y] = bag[y]
        /\ marble' = marble
        /\ \A c \in Callers : call'[c].key = call[c].key
        /\ \A n \in Maps \ {m} : sweep'[n] = sweep[n]
    BY <1>9 DEF DeletePut
  <2> HIDE DEF MapTypeOK, Underway
  <2> QED
    <3>1. PoolOwnsAlone'
      BY <2>1, <2>2, <2>3 DEF PoolOwnsAlone, EntryOwnsAlone, CallOwnsAlone
    <3>2. EntryOwnsAlone'
      BY <2>1, <2>2, <2>3 DEF PoolOwnsAlone, EntryOwnsAlone, CallOwnsAlone
    <3>3. CallOwnsAlone'
      BY <2>1, <2>2, <2>3 DEF PoolOwnsAlone, EntryOwnsAlone, CallOwnsAlone
    <3>4. OwnersValue'
      BY <2>1, <2>2, <2>3 DEF OwnersValue
    <3> QED
      BY <3>1, <3>2, <3>3, <3>4
<1>10. ASSUME NEW m \in Maps, DeleteKey(m) PROVE Ownership' /\ OwnersValue'
  BY <1>1, <1>10 DEF DeleteKey, EntryOwns, TakenOver, StoreOwns, SweepOwns
<1>11. ASSUME NEW m \in Maps, SweepEnd(m) \/ Stop(m)
       PROVE  Ownership' /\ OwnersValue'
  <2>1. CASE SweepEnd(m)
    BY <1>1, <2>1
    DEF SweepEnd, Resting, EntryOwns, TakenOver, StoreOwns, SweepOwns
  <2>2. CASE Stop(m)
    BY <1>1, <2>2 DEF Stop, EntryOwns, TakenOver, StoreOwns, SweepOwns
  <2> QED
    BY <1>11, <2>1, <2>2
<1>12. ASSUME NEW k \in Keys, GrowOld(k) PROVE Ownership' /\ OwnersValue'
  BY <1>1, <1>12 DEF GrowOld, EntryOwns, TakenOver, StoreOwns, SweepOwns
<1>13. CASE UNCHANGED mapVars
  BY <1>1, <1>13 DEF mapVars, EntryOwns, TakenOver, StoreOwns, SweepOwns
<1> QED
  BY <1>2, <1>3, <1>4, <1>5, <1>6, <1>7, <1>8, <1>9, <1>10, <1>11, <1>12,
     <1>13
  DEF MapNext, Sweeper

(* A load that no deletion has run into stays safe: its marble is not in   *)
(* the pool, and the caller holds on to it.                                *)
LEMMA LoadStep ==
    ASSUME MapIInv, [MapNext]_mapVars
    PROVE  LoadIsSafe'
<1> USE ForgetfulMapAssumption DEF MapIInv, MapTypeOK, Underway, Call, Sweep,
                                   LoadIsSafe
<1>1. ASSUME NEW c \in Callers, NEW k \in Keys, StoreGet(c, k)
      PROVE  LoadIsSafe'
  BY <1>1 DEF StoreGet, Unreachable
<1>2. ASSUME NEW c \in Callers, StoreKey(c) PROVE LoadIsSafe'
  BY <1>2 DEF StoreKey, Idle
<1>3. ASSUME NEW c \in Callers, NEW k \in Keys, LoadKey(c, k)
      PROVE  LoadIsSafe'
  <2>1. lookup[k] \in Marbles
    BY <1>3 DEF LoadKey
  <2>2. ~ HalfDeleted(lookup[k]) =>
           bag[lookup[k]] = 0 /\ marble[lookup[k]].key = k
    <3>1. CASE EntryOwns(k, lookup[k])
      BY <2>1, <3>1 DEF Ownership, PoolOwnsAlone, OwnersValue
    <3>2. CASE ~ EntryOwns(k, lookup[k]) /\ ~ HalfDeleted(lookup[k])
      <4>1. SweepOwns(MapOf[k], lookup[k]) /\ sweep[MapOf[k]].key = k
        BY <3>2 DEF EntryOwns, TakenOver, HalfDeleted, SweepOwns
      <4> QED
        BY <2>1, <4>1 DEF Ownership, PoolOwnsAlone, OwnersValue
    <3> QED
      BY <3>1, <3>2
  <2> QED
    BY <1>3, <2>1, <2>2 DEF LoadKey
<1>4. ASSUME NEW c \in Callers, LoadValue(c) PROVE LoadIsSafe'
  BY <1>4 DEF LoadValue, Idle
<1>5. ASSUME NEW m \in Maps, DeletePut(m) PROVE LoadIsSafe'
  BY <1>5 DEF DeletePut
<1>6. ASSUME NEW m \in Maps,
             \/ SweepStart(m) \/ (\E k \in Keys : SweepKey(m, k))
             \/ DeleteLoad(m) \/ DeleteKey(m) \/ SweepEnd(m) \/ Stop(m)
      PROVE  LoadIsSafe'
  BY <1>6 DEF SweepStart, SweepKey, DeleteLoad, DeleteKey, SweepEnd, Stop
<1>7. ASSUME NEW k \in Keys, GrowOld(k) PROVE LoadIsSafe'
  BY <1>7, SMTT(30) DEF GrowOld
<1>8. CASE UNCHANGED mapVars
  BY <1>8 DEF mapVars
<1> QED
  BY <1>1, <1>2, <1>3, <1>4, <1>5, <1>6, <1>7, <1>8 DEF MapNext, Sweeper

(* The inductive invariant holds in every reachable state.                 *)
THEOREM MapInvariance == MapSpec => []MapIInv
<1>1. MapIInv /\ [MapNext]_mapVars => MapIInv'
  BY MapTypeStep, OwnershipStep, LoadStep DEF MapIInv
<1> QED
  BY MapInitially, <1>1, PTL DEF MapSpec

(* The variables keep their types in every reachable state; in particular  *)
(* the pool never holds a marble twice.                                    *)
THEOREM MapTypeCorrect == MapSpec => []MapTypeOK
<1>1. MapIInv => MapTypeOK
  BY DEF MapIInv
<1> QED
  BY MapInvariance, <1>1, PTL

(* Two entries never share a marble, except while Delete has put back the  *)
(* marble of one of them and not yet removed its key.                      *)
THEOREM NotShared == MapSpec => []SharedOnlyWhileDeleting
<1>1. MapIInv => SharedOnlyWhileDeleting
  <2> SUFFICES ASSUME MapIInv, NEW k \in Keys, NEW j \in Keys, k # j,
                      lookup[k] # Nil, lookup[k] = lookup[j]
               PROVE  HalfDeleted(lookup[k])
    BY DEF SharedOnlyWhileDeleting
  <2>1. lookup[k] \in Marbles /\ MapOf[k] \in Maps /\ MapOf[j] \in Maps
    BY ForgetfulMapAssumption DEF MapIInv, MapTypeOK
  <2>2. TakenOver(k) \/ TakenOver(j)
    BY <2>1 DEF MapIInv, Ownership, EntryOwnsAlone, EntryOwns
  <2>3. SUFFICES ASSUME ~ HalfDeleted(lookup[k]) PROVE FALSE
    OBVIOUS
  <2>4. /\ TakenOver(k) => SweepOwns(MapOf[k], lookup[k])
        /\ TakenOver(j) => SweepOwns(MapOf[j], lookup[k])
    BY <2>1, <2>3 DEF TakenOver, HalfDeleted, SweepOwns
  <2>5. TakenOver(k) /\ TakenOver(j)
    BY <2>1, <2>2, <2>4 DEF MapIInv, Ownership, EntryOwnsAlone, EntryOwns
  <2>6. MapOf[k] = MapOf[j]
    BY <2>1, <2>4, <2>5 DEF MapIInv, Ownership, CallOwnsAlone
  <2> QED
    BY <2>5, <2>6 DEF TakenOver
<1> QED
  BY MapInvariance, <1>1, PTL

(* A Load returns the value of another key only if a deletion of the key   *)
(* it was asked for ran into it.                                           *)
THEOREM RecallsUnlessDeleted == MapSpec => []WrongOnlyByDelete
<1>1. MapIInv => WrongOnlyByDelete
  BY DEF MapIInv, LoadIsSafe, WrongOnlyByDelete
<1> QED
  BY MapInvariance, <1>1, PTL
=============================================================================
