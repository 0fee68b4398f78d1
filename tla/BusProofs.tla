------------------------------ MODULE BusProofs ------------------------------
(***************************************************************************)
(* TLAPS proofs about the parts that talk over the message bus or beside   *)
(* the frames, for any number of tappers, instances of pw_ingest, feeders, *)
(* workers and messages.                                                   *)
(*                                                                         *)
(* BooksBalance needs to know who may still ask for what: a tapper asks    *)
(* once to be added, so that append never links a condition a second time; *)
(* between two steps of processor the repeater has no ticker; a feed that  *)
(* is slow was reported.  PutBackOnlyLate needs how the updates of a       *)
(* feeder under way are apart in time: those of this pw_ingest by more     *)
(* than a minute, the others from before it was started.                   *)
(***************************************************************************)
EXTENDS MCBus, FiniteSetTheorems, SequenceTheorems, TLAPS

-----------------------------------------------------------------------------
(* The tap.                                                                *)

Links == [Tappers -> Tappers \cup {Nil}]
Requests == [action : {"add", "remove"}, tap : Tappers]
Add(t) == [action |-> "add", tap |-> t]

TapType ==
    /\ head \in [Ingests -> Tappers \cup {Nil}] /\ tail \in [Ingests -> Tappers \cup {Nil}]
    /\ next \in [Ingests -> Links] /\ prev \in [Ingests -> Links]
    /\ inbox \in [Ingests -> Seq(Requests)]
    /\ tapper \in [Tappers -> {"out", "add", "on", "remove", "closing", "gone"}]

(* One wish to be added is under way at most, and none of who is in the    *)
(* list or has not asked yet; who has not asked is not in the list.        *)
AddedOnce ==
    \A i \in Ingests, t \in Tappers :
        /\ tapper[t] = "out" => t \notin Reaches(i)
        /\ \A k \in DOMAIN inbox[i] : inbox[i][k] = Add(t) =>
              /\ t \notin Reaches(i) /\ tapper[t] # "out"
              /\ \A j \in DOMAIN inbox[i] : inbox[i][j] = Add(t) => j = k

TapInv == TapType /\ AddedOnce /\ ListIntact

(* The repeater: no ticker between the two steps of processor, else none   *)
(* but that of the keepAlive.                                              *)
RepeatInv ==
    /\ clock \in Nat /\ ka \in [ticker : Nat, until : Nat]
    /\ IF step = "stopped" THEN running = {} ELSE running \subseteq {ka.ticker}

(* The accounting: what is on its way to the database.                     *)
Update == [key : Feeders, seen : Int]
Carried == bus \cup {handling[w] : w \in ApiWorkers} \cup
           {Message(atcUpdateQueue[i]) : i \in DOMAIN atcUpdateQueue}
UpdateOf(k, t) == [id |-> 0, subject |-> "feeder.update-stats", key |-> k, seen |-> t]
Updates == {UpdateOf(k, t) : k \in Feeders, t \in Int}

AccountType ==
    /\ now \in Int /\ now > 0 /\ started \in Nat /\ started <= now
    /\ handleQueue \in Seq(Feeders) /\ atcUpdateQueue \in Seq(Update)
    /\ lastAtcUpdate \in [Feeders -> Int]
    /\ lastSeen \in [Feeders -> Int] /\ settled \in [Feeders -> Nat]
    /\ bus \subseteq Asked \cup Updates
    /\ handling \in [ApiWorkers -> Asked \cup Updates \cup {NoJob}]

(* An update of time t is no news once time s is written: it is from       *)
(* before the restart, or was late when s was sent.                        *)
Behind(t, s) == s <= t \/ t <= started \/ s > t + Minute

(* Every report is carried or settled.  What is carried is of the past, of *)
(* the last report or an earlier one or from before the restart, and of    *)
(* any two the earlier is behind; so it is of what the database has, or it *)
(* is late by now.                                                         *)
AccountOf(k) ==
    LET reported == lastAtcUpdate[k]
    IN  /\ reported <= now /\ lastSeen[k] <= now
        /\ reported > settled[k] => UpdateOf(k, reported) \in Carried
        /\ \A t \in Int : UpdateOf(k, t) \in Carried =>
              /\ t <= now
              /\ t <= started \/ t <= reported
              /\ lastSeen[k] <= t \/ t <= started \/ now > t + Minute
              /\ \A s \in Int : UpdateOf(k, s) \in Carried => Behind(t, s)

AccountInv == AccountType /\ \A k \in Feeders : AccountOf(k)

(* What a step may do to last_seen.                                        *)
OnlyLate ==
    \A k \in Feeders :
        lastSeen'[k] >= lastSeen[k] \/ now > lastSeen'[k] + Minute \/ lastSeen'[k] <= started

(* The broker: a feed that lost a message was reported.                    *)
BrokerInv ==
    /\ reports \in Seq({"slow", "server"}) /\ dropped \in Nat
    /\ slow \subseteq lost
    /\ lost # {} => dropped > 0 \/ \E k \in DOMAIN reports : reports[k] = "slow"

IInv == TapInv /\ RepeatInv /\ AccountInv /\ BrokerInv

-----------------------------------------------------------------------------
(* The list of one pw_ingest: its ends h and e, its links n and p.         *)

Encloses(S, h, n) == h \in S \cup {Nil} /\ \A x \in S : n[x] \in S \cup {Nil}
ReachedBy(h, n) == {t \in Tappers : \A S \in SUBSET Tappers : Encloses(S, h, n) => t \in S}

Intact(h, e, n, p) ==
    LET in == ReachedBy(h, n)
    IN  /\ (h = Nil) = (e = Nil)
        /\ h # Nil => e \in in /\ p[h] = Nil /\ n[e] = Nil
        /\ \A t \in in : n[t] # Nil => p[n[t]] = t
        /\ \A t \in Tappers \ in : n[t] = Nil /\ p[t] = Nil

(* What append and remove of t do to the head and the links.               *)
AfterAppend(h, e, n, p, t, h2, n2, p2) ==
    /\ h2 = IF h = Nil THEN t ELSE h
    /\ n2 = IF h = Nil THEN n ELSE [n EXCEPT ![e] = t]
    /\ p2 = IF h = Nil THEN p ELSE [p EXCEPT ![t] = e]

AfterRemove(h, e, n, p, t, h2, e2, n2, p2) ==
    /\ h2 = IF h = t THEN n[t] ELSE h
    /\ e2 = IF e = t THEN p[t] ELSE e
    /\ n2 = [x \in Tappers |-> IF x = t THEN Nil ELSE IF x = p[t] THEN n[t] ELSE n[x]]
    /\ p2 = [x \in Tappers |-> IF x = t THEN Nil ELSE IF x = n[t] THEN p[t] ELSE p[x]]

RemoveIsSound(h, e, n, p, t) ==
    \A h2 \in Tappers \cup {Nil}, e2 \in Tappers \cup {Nil}, n2 \in Links, p2 \in Links :
        AfterRemove(h, e, n, p, t, h2, e2, n2, p2) =>
            Intact(h2, e2, n2, p2) /\ ReachedBy(h2, n2) = ReachedBy(h, n) \ {t}

(* Whoever is reached but the head is behind one that is reached.          *)
EachBehindOne(h, n, p) ==
    \A t \in ReachedBy(h, n) \ {h} : p[t] \in ReachedBy(h, n) /\ n[p[t]] = t /\ p[t] # t

LEMMA ListIsIntact ==
    /\ \A i \in Ingests : Reaches(i) = ReachedBy(head[i], next[i])
    /\ ListIntact <=> \A i \in Ingests : Intact(head[i], tail[i], next[i], prev[i])
<1>1. \A i \in Ingests : Reaches(i) = ReachedBy(head[i], next[i])
  BY DEF Reaches, ReachedBy, Encloses
<1> QED
  BY <1>1 DEF ListIntact, Intact

(* What is reached is enclosed, and is the least set that is.              *)
LEMMA ReachedIsEnclosed ==
    ASSUME NEW h \in Tappers \cup {Nil}, NEW n \in Links
    PROVE  /\ Encloses(ReachedBy(h, n), h, n)
           /\ \A S \in SUBSET Tappers : Encloses(S, h, n) => ReachedBy(h, n) \subseteq S
<1> DEFINE L == ReachedBy(h, n)
<1>1. \A S \in SUBSET Tappers : Encloses(S, h, n) => L \subseteq S
  BY DEF ReachedBy
<1>2. h \in L \cup {Nil}
  BY DEF ReachedBy, Encloses
<1>3. ASSUME NEW x \in L, n[x] # Nil PROVE n[x] \in L
  <2>1. x \in Tappers /\ n[x] \in Tappers
    BY <1>3 DEF ReachedBy, Links
  <2>2. ASSUME NEW S \in SUBSET Tappers, Encloses(S, h, n) PROVE n[x] \in S
    BY <1>1, <1>3, <2>2 DEF Encloses
  <2> QED
    BY <2>1, <2>2 DEF ReachedBy
<1> QED
  BY <1>1, <1>2, <1>3 DEF Encloses

(* Whoever is reached but the head is the next of one that is reached, and *)
(* its link back is to that one.                                           *)
LEMMA ReachedFromOne ==
    ASSUME NEW h \in Tappers \cup {Nil}, NEW e \in Tappers \cup {Nil}, NEW n \in Links, NEW p \in Links,
           Intact(h, e, n, p)
    PROVE  EachBehindOne(h, n, p)
<1> SUFFICES ASSUME NEW t \in ReachedBy(h, n), t # h
             PROVE  p[t] \in ReachedBy(h, n) /\ n[p[t]] = t /\ p[t] # t
  BY DEF EachBehindOne
<1> DEFINE L == ReachedBy(h, n)
<1>1. Encloses(L, h, n) /\ L \subseteq Tappers
  BY ReachedIsEnclosed DEF ReachedBy
<1>2. \E x \in L \ {t} : n[x] = t
  <2>1. SUFFICES ASSUME \A x \in L \ {t} : n[x] # t PROVE FALSE
    OBVIOUS
  <2>2. Encloses(L \ {t}, h, n)
    BY <1>1, <2>1 DEF Encloses
  <2>3. L \subseteq L \ {t}
    BY <1>1, <2>2, ReachedIsEnclosed
  <2> QED
    BY <2>3
<1>3. PICK x \in L \ {t} : n[x] = t
  BY <1>2
<1>4. t # Nil
  BY <1>1, TapAssumption
<1>5. p[t] = x
  BY <1>3, <1>4 DEF Intact
<1> QED
  BY <1>3, <1>5

(* append: the list gets the condition at its end and keeps the others.    *)
LEMMA AppendKeepsIntact ==
    ASSUME NEW h \in Tappers \cup {Nil}, NEW e \in Tappers \cup {Nil}, NEW n \in Links, NEW p \in Links,
           Intact(h, e, n, p), NEW t \in Tappers \ ReachedBy(h, n),
           NEW h2 \in Tappers, NEW n2 \in Links, NEW p2 \in Links,
           AfterAppend(h, e, n, p, t, h2, n2, p2)
    PROVE  Intact(h2, t, n2, p2) /\ ReachedBy(h2, n2) = ReachedBy(h, n) \cup {t}
<1> USE DEF AfterAppend
<1> DEFINE L == ReachedBy(h, n)
           M == ReachedBy(h2, n2)
<1>1. Encloses(L, h, n) /\ L \subseteq Tappers /\ h2 \in Tappers /\ t \in Tappers /\ t # Nil
  BY ReachedIsEnclosed, TapAssumption DEF ReachedBy
<1>2. n[t] = Nil /\ p[t] = Nil
  BY DEF Intact
<1>3. Encloses(M, h2, n2) /\ M \subseteq Tappers
  <2>1. M \subseteq Tappers
    BY DEF ReachedBy
  <2> QED
    BY <1>1, <2>1, ReachedIsEnclosed
<1>4. CASE h = Nil
  <2>1. h2 = t /\ n2 = n /\ p2 = p
    BY <1>4
  <2>2. Encloses({}, h, n)
    BY <1>4 DEF Encloses
  <2>3. L = {}
    BY <2>2, ReachedIsEnclosed
  <2>4. Encloses({t}, t, n)
    BY <1>2 DEF Encloses
  <2>5. M \subseteq {t}
    BY <1>1, <2>1, <2>4, ReachedIsEnclosed
  <2>6. M = {t}
    BY <1>1, <1>3, <2>1, <2>5 DEF Encloses
  <2> QED
    BY <1>1, <1>2, <2>1, <2>3, <2>6 DEF Intact
<1>5. CASE h # Nil
  <2>1. e \in L /\ e # t /\ n[e] = Nil /\ p[h] = Nil /\ h2 = h /\ h \in L
    BY <1>1, <1>5 DEF Intact, Encloses
  <2>2. n2[e] = t /\ \A x \in Tappers \ {e} : n2[x] = n[x]
    BY <1>1, <1>5, <2>1 DEF Links
  <2>3. p2[t] = e /\ \A x \in Tappers \ {t} : p2[x] = p[x]
    BY <1>1, <1>5 DEF Links
  <2>4. Encloses(L \cup {t}, h, n2)
    BY <1>1, <1>2, <2>1, <2>2 DEF Encloses
  <2>5. M \subseteq L \cup {t}
    BY <1>1, <2>1, <2>4, ReachedIsEnclosed
  <2>6. Encloses(M, h, n)
    BY <1>3, <2>1, <2>2 DEF Encloses
  <2>7. L \subseteq M
    BY <1>3, <2>6, ReachedIsEnclosed
  <2>8. t \in M
    BY <1>1, <1>3, <2>1, <2>2, <2>7 DEF Encloses
  <2>9. M = L \cup {t}
    BY <2>5, <2>7, <2>8
  <2>10. h2 # t /\ p2[h2] = Nil /\ n2[t] = Nil
    BY <1>1, <1>2, <2>1, <2>2, <2>3
  <2>11. \A x \in M : n2[x] # Nil => p2[n2[x]] = x
    <3> SUFFICES ASSUME NEW x \in M, n2[x] # Nil PROVE p2[n2[x]] = x
      OBVIOUS
    <3>1. CASE x = e
      BY <2>2, <2>3, <3>1
    <3>2. CASE x # e
      <4>1. x \in L /\ n2[x] = n[x]
        BY <1>1, <2>2, <2>9, <2>10, <3>2
      <4>2. n[x] \in L /\ p[n[x]] = x
        BY <4>1, <1>1 DEF Intact, Encloses
      <4> QED
        BY <1>1, <4>1, <4>2, <2>3
    <3> QED
      BY <3>1, <3>2
  <2>12. \A x \in Tappers \ M : n2[x] = Nil /\ p2[x] = Nil
    BY <2>1, <2>2, <2>3, <2>9 DEF Intact
  <2> QED
    BY <1>1, <2>1, <2>8, <2>9, <2>10, <2>11, <2>12 DEF Intact
<1> QED
  BY <1>4, <1>5

(* remove: the list loses the condition and keeps the others.              *)
LEMMA RemoveKeepsIntact ==
    ASSUME NEW h \in Tappers \cup {Nil}, NEW e \in Tappers \cup {Nil}, NEW n \in Links, NEW p \in Links,
           Intact(h, e, n, p), NEW t \in ReachedBy(h, n)
    PROVE  RemoveIsSound(h, e, n, p, t)
<1> DEFINE L == ReachedBy(h, n)
<1>1. Encloses(L, h, n) /\ L \subseteq Tappers /\ t \in Tappers /\ t # Nil
  BY ReachedIsEnclosed, TapAssumption DEF ReachedBy
<1>3. /\ h \in L /\ e \in L /\ p[h] = Nil /\ n[e] = Nil /\ h # Nil /\ e # Nil
      /\ \A x \in L : n[x] # Nil => p[n[x]] = x /\ n[x] \in L
  <2>1. h # Nil
    <3>1. h = Nil => Encloses({}, h, n)
      BY DEF Encloses
    <3>2. h = Nil => L = {}
      BY <3>1, ReachedIsEnclosed
    <3> QED
      BY <3>2
  <2> QED
    BY <2>1, <1>1 DEF Intact, Encloses
<1>4. t # h => p[t] \in L \ {t} /\ n[p[t]] = t /\ p[t] # Nil
  <2> SUFFICES ASSUME t # h PROVE p[t] \in L \ {t} /\ n[p[t]] = t /\ p[t] # Nil
    OBVIOUS
  <2>0. EachBehindOne(h, n, p)
    BY ReachedFromOne
  <2>1. p[t] \in L /\ n[p[t]] = t /\ p[t] # t
    BY <2>0 DEF EachBehindOne
  <2>2. p[t] \in Tappers
    BY <1>1, <2>1
  <2> QED
    BY <2>1, <2>2, TapAssumption
<1>5. n[t] # t
  BY <1>1, <1>3, <1>4
<1>6. n[t] # Nil => n[t] \in L \ {t} /\ p[n[t]] = t
  BY <1>1, <1>3, <1>5
(* Only the condition before it had it as its next one.                    *)
<1>7. \A x \in L : n[x] = t => x = p[t] /\ t # h
  BY <1>1, <1>3, TapAssumption
<1> SUFFICES ASSUME NEW h2 \in Tappers \cup {Nil}, NEW e2 \in Tappers \cup {Nil}, NEW n2 \in Links,
                    NEW p2 \in Links, AfterRemove(h, e, n, p, t, h2, e2, n2, p2)
             PROVE  Intact(h2, e2, n2, p2) /\ ReachedBy(h2, n2) = L \ {t}
  BY DEF RemoveIsSound
<1> USE DEF AfterRemove
<1> DEFINE M == ReachedBy(h2, n2)
<1>2. Encloses(M, h2, n2) /\ M \subseteq Tappers
  BY ReachedIsEnclosed DEF ReachedBy
<1>8. /\ n2[t] = Nil /\ p2[t] = Nil
      /\ \A x \in Tappers \ {t} : n2[x] = IF x = p[t] THEN n[t] ELSE n[x]
      /\ \A x \in Tappers \ {t} : p2[x] = IF x = n[t] THEN p[t] ELSE p[x]
  BY <1>1
<1>9. t = h => \A x \in L \ {t} : n2[x] = n[x]
  BY <1>1, <1>3, <1>8, TapAssumption
<1>10. Encloses(L \ {t}, h2, n2)
  <2>1. h2 \in (L \ {t}) \cup {Nil}
    BY <1>3, <1>6
  <2>2. ASSUME NEW x \in L \ {t} PROVE n2[x] \in (L \ {t}) \cup {Nil}
    BY <1>1, <1>3, <1>6, <1>7, <1>8
  <2> QED
    BY <2>1, <2>2 DEF Encloses
<1>11. M \subseteq L \ {t}
  BY <1>1, <1>10, ReachedIsEnclosed
(* If the one before it were not reached, nothing would have changed for   *)
(* the others, and it would not have been reached before either.           *)
<1>12. t # h => p[t] \in M
  <2>1. SUFFICES ASSUME t # h, p[t] \notin M PROVE FALSE
    OBVIOUS
  <2>2. \A x \in M : n2[x] = n[x]
    BY <1>2, <1>8, <1>11, <2>1
  <2>3. h2 = h
    BY <2>1
  <2>4. Encloses(M, h, n)
    BY <1>2, <2>2, <2>3 DEF Encloses
  <2>5. L \subseteq M
    BY <1>2, <2>4, ReachedIsEnclosed
  <2> QED
    BY <1>11, <2>5
<1>13. n[t] \in M \cup {Nil}
  <2>1. CASE t = h
    BY <1>2, <2>1 DEF Encloses
  <2>2. CASE t # h
    <3>1. n2[p[t]] = n[t]
      BY <1>1, <1>4, <1>8, <2>2
    <3> QED
      BY <1>2, <1>12, <2>2, <3>1 DEF Encloses
  <2> QED
    BY <2>1, <2>2
<1>14. Encloses(M \cup {t}, h, n)
  <2>1. h \in M \cup {t}
    BY <1>2, <1>3 DEF Encloses
  <2>2. ASSUME NEW x \in M \cup {t} PROVE n[x] \in M \cup {t} \cup {Nil}
    <3>1. CASE x = t
      BY <1>13, <3>1
    <3>2. CASE x # t /\ x = p[t]
      <4>1. t # h
        BY <1>1, <1>2, <1>3, <3>2, TapAssumption
      <4> QED
        BY <1>4, <3>2, <4>1
    <3>3. CASE x # t /\ x # p[t]
      <4>1. n2[x] = n[x]
        BY <1>2, <1>8, <3>3
      <4> QED
        BY <1>2, <3>3, <4>1 DEF Encloses
    <3> QED
      BY <3>1, <3>2, <3>3
  <2> QED
    BY <2>1, <2>2 DEF Encloses
<1>15. M = L \ {t}
  <2>1. M \cup {t} \in SUBSET Tappers
    BY <1>1, <1>2
  <2>2. L \subseteq M \cup {t}
    BY <2>1, <1>14, ReachedIsEnclosed
  <2> QED
    BY <2>2, <1>11
<1>16. (h2 = Nil) = (e2 = Nil)
  <2>1. CASE h = t /\ e = t
    BY <1>3, <2>1
  <2>2. CASE h = t /\ e # t
    <3>1. n[t] # Nil
      <4>1. SUFFICES ASSUME n[t] = Nil PROVE FALSE
        OBVIOUS
      <4>2. Encloses({t}, h, n)
        BY <2>2, <4>1 DEF Encloses
      <4>3. L \subseteq {t}
        BY <1>1, <4>2, ReachedIsEnclosed
      <4> QED
        BY <1>3, <2>2, <4>3
    <3> QED
      BY <1>3, <2>2, <3>1
  <2>3. CASE h # t
    BY <1>3, <1>4, <2>3
  <2> QED
    BY <2>1, <2>2, <2>3
<1>17. h2 # Nil => e2 \in M /\ p2[h2] = Nil /\ n2[e2] = Nil
  <2> SUFFICES ASSUME h2 # Nil PROVE e2 \in M /\ p2[h2] = Nil /\ n2[e2] = Nil
    OBVIOUS
  <2>1. e2 \in M
    <3>1. e = t /\ h = t => n[t] = Nil
      BY <1>3
    <3> QED
      BY <1>3, <1>4, <1>15, <3>1
  <2>2. p2[h2] = Nil
    <3>1. CASE h = t
      <4>1. h2 = n[t] /\ h2 \in Tappers \ {t} /\ p[t] = Nil
        BY <1>1, <1>3, <1>6, <3>1
      <4> QED
        BY <1>8, <4>1
    <3>2. CASE h # t
      <4>1. h2 = h /\ h \in Tappers \ {t} /\ h # n[t]
        BY <1>1, <1>3, <1>6, <3>2
      <4> QED
        BY <1>3, <1>8, <4>1
    <3> QED
      BY <3>1, <3>2
  <2>3. n2[e2] = Nil
    <3>1. CASE e = t
      <4>1. e2 = p[t] /\ n[t] = Nil /\ e2 \in Tappers \ {t}
        BY <1>1, <1>3, <2>1, <1>15, <3>1
      <4> QED
        BY <1>8, <4>1
    <3>2. CASE e # t
      <4>1. e2 = e /\ e \in Tappers \ {t} /\ n[e] = Nil
        BY <1>1, <1>3, <3>2
      <4>2. e # p[t]
        BY <1>1, <1>3, <1>4, <4>1, TapAssumption
      <4> QED
        BY <1>8, <4>1, <4>2
    <3> QED
      BY <3>1, <3>2
  <2> QED
    BY <2>1, <2>2, <2>3
<1>18. \A x \in M : n2[x] # Nil => p2[n2[x]] = x
  <2> SUFFICES ASSUME NEW x \in M, n2[x] # Nil PROVE p2[n2[x]] = x
    OBVIOUS
  <2>1. x \in L /\ x # t /\ x \in Tappers
    BY <1>1, <1>15
  <2>2. CASE x = p[t]
    <3>1. n2[x] = n[t] /\ n[t] \in Tappers \ {t}
      BY <1>1, <1>6, <1>8, <2>1, <2>2
    <3> QED
      BY <1>8, <2>2, <3>1
  <2>3. CASE x # p[t]
    <3>1. n2[x] = n[x] /\ n[x] \in Tappers \ {t} /\ p[n[x]] = x
      BY <1>1, <1>3, <1>7, <1>8, <2>1, <2>3
    <3>2. n[x] # n[t]
      BY <1>6, <2>1, <3>1
    <3> QED
      BY <1>8, <3>1, <3>2
  <2> QED
    BY <2>2, <2>3
<1>19. \A x \in Tappers \ M : n2[x] = Nil /\ p2[x] = Nil
  <2> SUFFICES ASSUME NEW x \in Tappers \ M, x # t PROVE n2[x] = Nil /\ p2[x] = Nil
    BY <1>8
  <2>1. x \notin L /\ n[x] = Nil /\ p[x] = Nil
    BY <1>15 DEF Intact
  <2>2. x # n[t]
    BY <1>1, <1>6, <2>1, TapAssumption
  <2>3. x # p[t]
    BY <1>1, <1>3, <1>4, <2>1, TapAssumption
  <2> QED
    BY <1>8, <2>1, <2>2, <2>3
<1> QED
  BY <1>15, <1>16, <1>17, <1>18, <1>19 DEF Intact

LEMMA InitTap == TapInit => TapInv
<1> SUFFICES ASSUME TapInit PROVE TapInv
  OBVIOUS
<1>1. TapType
  BY DEF TapInit, TapType, Links
<1>2. \A i \in Ingests : Reaches(i) = {}
  <2> SUFFICES ASSUME NEW i \in Ingests PROVE Reaches(i) = {}
    OBVIOUS
  <2>1. head[i] = Nil /\ next[i] \in Links
    BY <1>1 DEF TapInit, TapType
  <2>2. Encloses({}, Nil, next[i])
    BY DEF Encloses
  <2>3. ReachedBy(Nil, next[i]) \subseteq {}
    BY <2>1, <2>2, ReachedIsEnclosed
  <2> QED
    BY <2>1, <2>3, ListIsIntact
<1>3. \A i \in Ingests : inbox[i] = << >>
  BY DEF TapInit
<1>4. AddedOnce
  BY <1>2, <1>3 DEF AddedOnce
<1>5. ListIntact
  BY <1>2 DEF ListIntact, TapInit
<1> QED
  BY <1>1, <1>4, <1>5 DEF TapInv

(* A step that leaves the lists.                                           *)
LEMMA SameLists ==
    ASSUME TapInv, UNCHANGED listVars, TapType', AddedOnce'
    PROVE  TapInv'
BY DEF TapInv, ListIntact, Reaches, listVars

(* A step that leaves the lists and the requests.                          *)
LEMMA SameRequests ==
    ASSUME TapInv, UNCHANGED <<listVars, inbox>>,
           tapper' \in [Tappers -> {"out", "add", "on", "remove", "closing", "gone"}],
           \A t \in Tappers : tapper'[t] = "out" => tapper[t] = "out"
    PROVE  TapInv'
<1>1. \A i \in Ingests : Reaches(i)' = Reaches(i)
  BY DEF Reaches, listVars
<1>2. TapType'
  BY DEF TapInv, TapType, listVars
<1>3. AddedOnce'
  BY <1>1 DEF TapInv, AddedOnce
<1> QED
  BY <1>2, <1>3, SameLists DEF listVars

(* A tapper asks: to be added only once, when it comes.                    *)
LEMMA AskKeepsTapInv ==
    ASSUME TapInv, NEW t \in Tappers, NEW action \in {"add", "remove"}, AskAll(t, action),
           UNCHANGED listVars, tapper' = [tapper EXCEPT ![t] = action],
           action = "add" <=> tapper[t] = "out"
    PROVE  TapInv'
<1> DEFINE r == [action |-> action, tap |-> t]
<1>1. \A i \in Ingests : Reaches(i)' = Reaches(i)
  BY DEF Reaches, listVars
<1>2. r \in Requests /\ \A i \in Ingests : inbox[i] \in Seq(Requests)
  BY DEF TapInv, TapType, Requests
<1>3. \A i \in Ingests : inbox'[i] = Append(inbox[i], r)
  BY DEF AskAll
<1>7. r = Add(t) <=> action = "add"
  BY DEF Add
<1>8. \A u \in Tappers : r = Add(u) => u = t /\ action = "add"
  BY DEF Add
<1> HIDE DEF r
<1>4. ASSUME NEW i \in Ingests PROVE inbox'[i] \in Seq(Requests)
  <2>1. inbox[i] \in Seq(Requests) /\ r \in Requests
    BY <1>2
  <2>2. Append(inbox[i], r) \in Seq(Requests)
    BY <2>1
  <2> QED
    BY <1>3, <2>2
<1>5. inbox' \in [Ingests -> Seq(Requests)]
  BY <1>4 DEF AskAll
<1>6. TapType'
  BY <1>5 DEF TapInv, TapType, listVars
<1>9. ASSUME NEW i \in Ingests, NEW u \in Tappers
      PROVE  /\ tapper'[u] = "out" => u \notin Reaches(i)'
             /\ \A k \in DOMAIN inbox'[i] : inbox'[i][k] = Add(u) =>
                   /\ u \notin Reaches(i)' /\ tapper'[u] # "out"
                   /\ \A j \in DOMAIN inbox'[i] : inbox'[i][j] = Add(u) => j = k
  <2>1. tapper'[u] = "out" => tapper[u] = "out"
    BY DEF TapInv, TapType
  <2>2. /\ DOMAIN inbox[i] = 1 .. Len(inbox[i]) /\ Len(inbox[i]) \in Nat
        /\ DOMAIN inbox'[i] = 1 .. Len(inbox[i]) + 1
        /\ \A k \in 1 .. Len(inbox[i]) : inbox'[i][k] = inbox[i][k]
        /\ inbox'[i][Len(inbox[i]) + 1] = r
    BY <1>2, <1>3
  <2>3. CASE u # t \/ action # "add"
    <3>1. r # Add(u)
      BY <1>8, <2>3
    <3>2. \A k \in DOMAIN inbox'[i] : inbox'[i][k] = Add(u) => k \in DOMAIN inbox[i] /\ inbox[i][k] = Add(u)
      BY <2>2, <3>1
    <3> QED
      BY <1>1, <2>1, <3>2 DEF TapInv, AddedOnce
  <2>4. CASE u = t /\ action = "add"
    <3>1. tapper[t] = "out" /\ tapper'[t] = "add"
      BY <2>4 DEF TapInv, TapType
    <3>2. t \notin Reaches(i) /\ \A k \in DOMAIN inbox[i] : inbox[i][k] # Add(t)
      BY <3>1 DEF TapInv, AddedOnce
    <3>3. \A k \in DOMAIN inbox'[i] : inbox'[i][k] = Add(t) => k = Len(inbox[i]) + 1
      BY <2>2, <3>2
    <3> QED
      BY <1>1, <2>4, <3>1, <3>2, <3>3
  <2> QED
    BY <2>3, <2>4
<1>10. AddedOnce'
  BY <1>9 DEF AddedOnce
<1> QED
  BY <1>6, <1>10, SameLists

(* A pw_ingest handles a request: what its list reaches then, and that it  *)
(* is intact.                                                              *)
LEMMA AppliedKeepsIntact ==
    ASSUME TapInv, NEW i \in Ingests, NEW rq \in Requests, Applied(i, rq),
           rq = Add(rq.tap) => rq.tap \notin Reaches(i)
    PROVE  /\ head' \in [Ingests -> Tappers \cup {Nil}] /\ tail' \in [Ingests -> Tappers \cup {Nil}]
           /\ next' \in [Ingests -> Links] /\ prev' \in [Ingests -> Links]
           /\ ListIntact'
           /\ \A j \in Ingests : Reaches(j)' \subseteq
                  Reaches(j) \cup (IF j = i /\ rq = Add(rq.tap) THEN {rq.tap} ELSE {})
<1> DEFINE t == rq.tap
           h == head[i]
           e == tail[i]
           n == next[i]
           p == prev[i]
<1>1. /\ t \in Tappers /\ h \in Tappers \cup {Nil} /\ e \in Tappers \cup {Nil} /\ n \in Links /\ p \in Links
      /\ rq.action \in {"add", "remove"}
  BY DEF TapInv, TapType, Requests
<1>2. Intact(h, e, n, p) /\ Reaches(i) = ReachedBy(h, n)
  BY ListIsIntact DEF TapInv
(* The other instances keep their lists.                                   *)
<1>3. ASSUME NEW h2 \in Tappers \cup {Nil}, NEW e2 \in Tappers \cup {Nil},
             NEW n2 \in Links, NEW p2 \in Links,
             head' = [head EXCEPT ![i] = h2], tail' = [tail EXCEPT ![i] = e2],
             next' = [next EXCEPT ![i] = n2], prev' = [prev EXCEPT ![i] = p2],
             Intact(h2, e2, n2, p2),
             ReachedBy(h2, n2) \subseteq Reaches(i) \cup (IF rq = Add(t) THEN {t} ELSE {})
      PROVE  /\ head' \in [Ingests -> Tappers \cup {Nil}] /\ tail' \in [Ingests -> Tappers \cup {Nil}]
             /\ next' \in [Ingests -> Links] /\ prev' \in [Ingests -> Links]
             /\ ListIntact'
             /\ \A j \in Ingests : Reaches(j)' \subseteq
                    Reaches(j) \cup (IF j = i /\ rq = Add(t) THEN {t} ELSE {})
  <2>1. /\ head' \in [Ingests -> Tappers \cup {Nil}] /\ tail' \in [Ingests -> Tappers \cup {Nil}]
        /\ next' \in [Ingests -> Links] /\ prev' \in [Ingests -> Links]
    BY <1>3 DEF TapInv, TapType
  <2>2. \A j \in Ingests : Reaches(j)' = ReachedBy(head'[j], next'[j])
    BY DEF Reaches, ReachedBy, Encloses
  <2>3. head'[i] = h2 /\ tail'[i] = e2 /\ next'[i] = n2 /\ prev'[i] = p2
    BY <1>3 DEF TapInv, TapType
  <2>4. \A j \in Ingests : j # i =>
            head'[j] = head[j] /\ tail'[j] = tail[j] /\ next'[j] = next[j] /\ prev'[j] = prev[j]
    BY <1>3 DEF TapInv, TapType
  <2>5. \A j \in Ingests : Intact(head'[j], tail'[j], next'[j], prev'[j])
    BY <1>3, <2>3, <2>4, ListIsIntact DEF TapInv
  <2>6. ListIntact'
    BY <2>2, <2>5 DEF ListIntact, Intact
  <2>7. \A j \in Ingests : j # i => Reaches(j)' = Reaches(j)
    BY <2>2, <2>4, ListIsIntact
  <2>8. Reaches(i)' \subseteq Reaches(i) \cup (IF rq = Add(t) THEN {t} ELSE {})
    BY <1>3, <2>2, <2>3
  <2> QED
    BY <2>1, <2>6, <2>7, <2>8
<1>4. CASE rq.action = "add" /\ Linked(i, t)
  <2>1. PICK h2 : h2 = IF h = Nil THEN t ELSE h
    BY Zenon
  <2>2. PICK n2 : n2 = IF h = Nil THEN n ELSE [n EXCEPT ![e] = t]
    BY Zenon
  <2>3. PICK p2 : p2 = IF h = Nil THEN p ELSE [p EXCEPT ![t] = e]
    BY Zenon
  <2>4. rq = Add(t) /\ t \in Tappers \ ReachedBy(h, n)
    BY <1>1, <1>2, <1>4 DEF Add, Requests
  <2>5. h2 \in Tappers /\ n2 \in Links /\ p2 \in Links
    BY <1>1, <2>1, <2>2, <2>3 DEF Links
  <2>6. Intact(h2, t, n2, p2) /\ ReachedBy(h2, n2) = ReachedBy(h, n) \cup {t}
    <3>1. AfterAppend(h, e, n, p, t, h2, n2, p2)
      BY <2>1, <2>2, <2>3 DEF AfterAppend
    <3>2. Intact(h, e, n, p)
      BY <1>2
    <3> QED
      BY <1>1, <2>4, <2>5, <3>1, <3>2, AppendKeepsIntact, SMTT(60)
  <2>7. head' = [head EXCEPT ![i] = h2] /\ tail' = [tail EXCEPT ![i] = t]
    BY <1>4, <2>1 DEF Linked, TapInv, TapType
  <2>8. next' = [next EXCEPT ![i] = n2]
    BY <1>4, <2>2 DEF Linked, TapInv, TapType
  <2>9. prev' = [prev EXCEPT ![i] = p2]
    BY <1>4, <2>3 DEF Linked, TapInv, TapType
  <2>10. ReachedBy(h2, n2) \subseteq Reaches(i) \cup (IF rq = Add(t) THEN {t} ELSE {})
    BY <1>2, <2>4, <2>6
  <2> QED
    BY <1>1, <1>3, <2>5, <2>6, <2>7, <2>8, <2>9, <2>10
<1>5. CASE rq.action = "remove" /\ t \in Reaches(i) /\ Unlinked(i, t)
  <2>0. RemoveIsSound(h, e, n, p, t)
    <3>1. t \in ReachedBy(h, n)
      BY <1>2, <1>5
    <3> QED
      BY <1>1, <1>2, <3>1, RemoveKeepsIntact
  <2>1. PICK h2 : h2 = IF h = t THEN n[t] ELSE h
    BY Zenon
  <2>2. PICK e2 : e2 = IF e = t THEN p[t] ELSE e
    BY Zenon
  <2>3. PICK n2 : n2 = [x \in Tappers |-> IF x = t THEN Nil ELSE IF x = p[t] THEN n[t] ELSE n[x]]
    OBVIOUS
  <2>4. PICK p2 : p2 = [x \in Tappers |-> IF x = t THEN Nil ELSE IF x = n[t] THEN p[t] ELSE p[x]]
    OBVIOUS
  <2>5. h2 \in Tappers \cup {Nil} /\ e2 \in Tappers \cup {Nil}
    BY <1>1, <2>1, <2>2 DEF Links
  <2>6. n2 \in Links /\ p2 \in Links
    BY <1>1, <2>3, <2>4 DEF Links
  <2>7. Intact(h2, e2, n2, p2) /\ ReachedBy(h2, n2) = ReachedBy(h, n) \ {t}
    <3>1. AfterRemove(h, e, n, p, t, h2, e2, n2, p2)
      BY <2>1, <2>2, <2>3, <2>4 DEF AfterRemove
    <3> QED
      BY <2>0, <2>5, <2>6, <3>1 DEF RemoveIsSound
  <2>8. head' = [head EXCEPT ![i] = h2]
    BY <1>5, <2>1 DEF Unlinked, TapInv, TapType
  <2>9. tail' = [tail EXCEPT ![i] = e2]
    BY <1>5, <2>2 DEF Unlinked, TapInv, TapType
  <2>10. next' = [next EXCEPT ![i] = n2]
    BY <1>5, <2>3 DEF Unlinked
  <2>11. prev' = [prev EXCEPT ![i] = p2]
    BY <1>5, <2>4 DEF Unlinked
  <2>12. ReachedBy(h2, n2) \subseteq Reaches(i) \cup (IF rq = Add(t) THEN {t} ELSE {})
    BY <1>2, <2>7
  <2> QED
    BY <1>3, <2>5, <2>6, <2>7, <2>8, <2>9, <2>10, <2>11, <2>12
<1>6. CASE UNCHANGED listVars
  <2>1. \A j \in Ingests : Reaches(j)' = Reaches(j)
    BY <1>6 DEF Reaches, listVars
  <2>2. ListIntact'
    BY <1>6, <2>1 DEF TapInv, ListIntact, listVars
  <2> QED
    BY <1>6, <2>1, <2>2 DEF TapInv, TapType, listVars
<1> QED
  BY <1>4, <1>5, <1>6 DEF Applied

LEMMA HandleKeepsTapInv == ASSUME TapInv, NEW i \in Ingests, HandleRequest(i) PROVE TapInv'
<1> DEFINE s == inbox[i]
<1>1. s \in Seq(Requests) /\ s # << >>
  BY DEF HandleRequest, TapInv, TapType
<1>2. PICK rq : rq = Head(s)
  OBVIOUS
<1>3. /\ Len(s) \in Nat /\ DOMAIN s = 1 .. Len(s) /\ 1 \in DOMAIN s
      /\ rq = s[1] /\ rq \in Requests
      /\ Tail(s) \in Seq(Requests) /\ DOMAIN Tail(s) = 1 .. Len(s) - 1
      /\ \A k \in DOMAIN Tail(s) : Tail(s)[k] = s[k + 1] /\ k + 1 \in DOMAIN s
  BY <1>1, <1>2
<1>4. Applied(i, rq) /\ UNCHANGED tapper /\ inbox' = [inbox EXCEPT ![i] = Tail(s)]
  BY <1>2 DEF HandleRequest
<1>5. rq = Add(rq.tap) => /\ rq.tap \notin Reaches(i) /\ tapper[rq.tap] # "out"
                          /\ \A k \in DOMAIN s : s[k] = Add(rq.tap) => k = 1
  <2>1. rq.tap \in Tappers
    BY <1>3 DEF Requests
  <2> QED
    BY <1>3, <2>1 DEF TapInv, AddedOnce
<1>6. /\ head' \in [Ingests -> Tappers \cup {Nil}] /\ tail' \in [Ingests -> Tappers \cup {Nil}]
      /\ next' \in [Ingests -> Links] /\ prev' \in [Ingests -> Links]
      /\ ListIntact'
      /\ \A j \in Ingests : Reaches(j)' \subseteq
             Reaches(j) \cup (IF j = i /\ rq = Add(rq.tap) THEN {rq.tap} ELSE {})
  BY <1>3, <1>4, <1>5, AppliedKeepsIntact
<1>7. inbox'[i] = Tail(s) /\ \A j \in Ingests \ {i} : inbox'[j] = inbox[j]
  BY <1>4 DEF TapInv, TapType
<1>8. inbox' \in [Ingests -> Seq(Requests)]
  BY <1>3, <1>4 DEF TapInv, TapType
<1>9. ASSUME NEW j \in Ingests, NEW u \in Tappers, u \notin Reaches(j),
             rq = Add(rq.tap) => j # i \/ u # rq.tap
      PROVE  u \notin Reaches(j)'
  BY <1>6, <1>9
<1>10. ASSUME NEW j \in Ingests, NEW u \in Tappers
       PROVE  /\ tapper'[u] = "out" => u \notin Reaches(j)'
              /\ \A k \in DOMAIN inbox'[j] : inbox'[j][k] = Add(u) =>
                    /\ u \notin Reaches(j)' /\ tapper'[u] # "out"
                    /\ \A l \in DOMAIN inbox'[j] : inbox'[j][l] = Add(u) => l = k
  <2>1. tapper'[u] = "out" => u \notin Reaches(j)'
    BY <1>4, <1>5, <1>9 DEF TapInv, AddedOnce
  <2>2. ASSUME NEW k \in DOMAIN inbox'[j], inbox'[j][k] = Add(u)
        PROVE  /\ u \notin Reaches(j)' /\ tapper'[u] # "out"
               /\ \A l \in DOMAIN inbox'[j] : inbox'[j][l] = Add(u) => l = k
    <3>1. CASE j # i
      <4>1. inbox'[j] = inbox[j]
        BY <1>7, <3>1
      <4> QED
        BY <1>4, <1>9, <2>2, <3>1, <4>1 DEF TapInv, AddedOnce
    <3>2. CASE j = i
      <4>1. /\ k \in DOMAIN Tail(s) /\ k + 1 \in DOMAIN s /\ s[k + 1] = Add(u)
        BY <1>3, <1>7, <2>2, <3>2
      <4>2. /\ u \notin Reaches(i) /\ tapper[u] # "out"
            /\ \A l \in DOMAIN s : s[l] = Add(u) => l = k + 1
        BY <4>1 DEF TapInv, AddedOnce
      <4>3. k \in Nat /\ k > 0
        BY <1>3, <4>1
      <4>4. rq = Add(rq.tap) => u # rq.tap
        BY <1>3, <4>2, <4>3
      <4>5. u \notin Reaches(i)'
        BY <1>9, <4>2, <4>4
      <4>6. ASSUME NEW l \in DOMAIN Tail(s), Tail(s)[l] = Add(u) PROVE l = k
        <5>1. l + 1 \in DOMAIN s /\ s[l + 1] = Add(u) /\ l \in Nat
          BY <1>3, <4>6
        <5>2. l + 1 = k + 1
          BY <4>2, <5>1
        <5> QED
          BY <4>3, <5>1, <5>2
      <4> QED
        BY <1>4, <1>7, <3>2, <4>2, <4>5, <4>6
    <3> QED
      BY <3>1, <3>2
  <2> QED
    BY <2>1, <2>2
<1>11. AddedOnce'
  BY <1>10 DEF AddedOnce
<1>12. TapType'
  BY <1>4, <1>6, <1>8 DEF TapInv, TapType
<1> QED
  BY <1>6, <1>11, <1>12 DEF TapInv

LEMMA StepTap == TapInv /\ [TapNext]_tapVars => TapInv'
<1> SUFFICES ASSUME TapInv, [TapNext]_tapVars PROVE TapInv'
  OBVIOUS
<1>1. CASE UNCHANGED tapVars
  BY <1>1, SameRequests DEF TapInv, TapType, tapVars, listVars
<1>2. CASE \E i \in Ingests : HandleRequest(i)
  BY <1>2, HandleKeepsTapInv
<1>3. CASE \E i \in Ingests : StartWalk(i) \/ WalkOn(i) \/ QueueFrame(i)
  <2>1. UNCHANGED <<listVars, inbox, tapper>>
    BY <1>3 DEF StartWalk, WalkOn, QueueFrame
  <2> QED
    BY <2>1, SameRequests DEF TapInv, TapType
<1>4. ASSUME NEW t \in Tappers, Added(t) \/ Removed(t) \/ SendExit(t) \/ TimedOut(t)
      PROVE  TapInv'
  <2>1. /\ UNCHANGED <<listVars, inbox>> /\ tapper[t] # "out"
        /\ \E s \in {"on", "closing", "gone"} : tapper' = [tapper EXCEPT ![t] = s]
    BY <1>4 DEF Added, Removed, SendExit, TimedOut, ingestVars, listVars
  <2>2. /\ tapper' \in [Tappers -> {"out", "add", "on", "remove", "closing", "gone"}]
        /\ \A u \in Tappers : tapper'[u] = "out" => tapper[u] = "out"
    BY <2>1 DEF TapInv, TapType
  <2> QED
    BY <2>1, <2>2, SameRequests
<1>5. ASSUME NEW t \in Tappers, ReadTap(t) PROVE TapInv'
  BY <1>5, SameRequests DEF ReadTap, ingestVars, listVars, TapInv, TapType
<1>6. ASSUME NEW t \in Tappers, Subscribe(t) PROVE TapInv'
  <2>1. UNCHANGED listVars /\ tapper[t] = "out"
    BY <1>6 DEF Subscribe
  <2>2. CASE UNCHANGED inbox /\ tapper' = [tapper EXCEPT ![t] = "closing"]
    <3>1. /\ tapper' \in [Tappers -> {"out", "add", "on", "remove", "closing", "gone"}]
          /\ \A u \in Tappers : tapper'[u] = "out" => tapper[u] = "out"
      BY <2>2 DEF TapInv, TapType
    <3> QED
      BY <2>1, <2>2, <3>1, SameRequests
  <2>3. CASE tapper' = [tapper EXCEPT ![t] = "add"] /\ AskAll(t, "add")
    BY <2>1, <2>3, AskKeepsTapInv
  <2> QED
    BY <1>6, <2>2, <2>3 DEF Subscribe
<1>7. ASSUME NEW t \in Tappers, RemoveTap(t) PROVE TapInv'
  <2>1. /\ UNCHANGED listVars /\ tapper[t] = "on" /\ AskAll(t, "remove")
        /\ tapper' = [tapper EXCEPT ![t] = "remove"]
    BY <1>7 DEF RemoveTap
  <2>2. "remove" \in {"add", "remove"} /\ ("remove" = "add" <=> tapper[t] = "out")
    BY <2>1
  <2> QED
    BY <2>1, <2>2, AskKeepsTapInv
<1> QED
  BY <1>1, <1>2, <1>3, <1>4, <1>5, <1>6, <1>7 DEF TapNext, IngestStep, TapperStep

-----------------------------------------------------------------------------
LEMMA InitRepeat == RepeatInit => RepeatInv
  BY DEF RepeatInit, RepeatInv

LEMMA StepRepeat == RepeatInv /\ [RepeatNext]_repeatVars => RepeatInv'
<1> SUFFICES ASSUME RepeatInv, [RepeatNext]_repeatVars PROVE RepeatInv'
  OBVIOUS
<1> USE DEF RepeatInv
<1>1. CASE UNCHANGED repeatVars
  BY <1>1 DEF repeatVars
<1>2. CASE Refresh
  BY <1>2 DEF Refresh
<1>3. CASE NewTicker
  <2>1. ka'.ticker = ka.ticker + 1 /\ ka' \in [ticker : Nat, until : Nat]
    BY <1>3 DEF NewTicker
  <2> QED
    BY <1>3, <2>1 DEF NewTicker
<1>4. CASE GoRepeat
  <2>1. ka'.ticker = ka.ticker /\ ka' \in [ticker : Nat, until : Nat]
    BY <1>4, RepeaterAssumption DEF GoRepeat
  <2> QED
    BY <1>4, <2>1 DEF GoRepeat
<1>5. CASE RepeatTick
  BY <1>5 DEF RepeatTick
<1>6. ASSUME NEW n \in Frame, Goes(n) PROVE RepeatInv'
  BY <1>6 DEF Goes, Start, Tick, Judge, StopExpired
<1> QED
  BY <1>1, <1>2, <1>3, <1>4, <1>5, <1>6 DEF RepeatNext

LEMMA RepeatsOnce == RepeatInv => OneTicker
<1> SUFFICES ASSUME RepeatInv PROVE Cardinality(running) <= 1
  BY DEF OneTicker
<1>1. running = {} \/ running = {ka.ticker}
  BY DEF RepeatInv
<1>2. CASE running = {}
  BY <1>2, FS_EmptySet
<1>3. CASE running = {ka.ticker}
  <2>1. Cardinality({ka.ticker}) = 1
    BY FS_Singleton
  <2> QED
    BY <1>3, <2>1
<1> QED
  BY <1>1, <1>2, <1>3

-----------------------------------------------------------------------------
(* What the fields of an update are, and that nothing else is one.         *)
LEMMA UpdatesAreTheirFields ==
    /\ \A k \in Feeders, t \in Int : UpdateOf(k, t) \in Updates /\ UpdateOf(k, t) # NoJob
                                   /\ UpdateOf(k, t).subject = "feeder.update-stats"
    /\ \A m \in Asked \cup {NoJob} : m.subject # "feeder.update-stats"
    /\ \A m \in Updates : m.key \in Feeders /\ m.seen \in Int /\ m = UpdateOf(m.key, m.seen)
    /\ \A u \in Update : u.key \in Feeders /\ u.seen \in Int /\ Message(u) = UpdateOf(u.key, u.seen)
<1>1. \A k \in Feeders, t \in Int :
         UpdateOf(k, t) \in Updates /\ UpdateOf(k, t).subject = "feeder.update-stats"
  BY DEF Updates, UpdateOf
<1>2. \A m \in Asked \cup {NoJob} : m.subject # "feeder.update-stats"
  BY AtcApiAssumption DEF NoJob
<1>3. \A m \in Updates : m.key \in Feeders /\ m.seen \in Int /\ m = UpdateOf(m.key, m.seen)
  BY DEF Updates, UpdateOf
<1>4. \A u \in Update : u.key \in Feeders /\ u.seen \in Int /\ Message(u) = UpdateOf(u.key, u.seen)
  BY DEF Update, Message, UpdateOf
<1>5. \A k \in Feeders, t \in Int : UpdateOf(k, t) # NoJob
  BY <1>1, <1>2
<1> QED
  BY <1>1, <1>2, <1>3, <1>4, <1>5

(* A step that reports nothing new: updates move along, or are settled,    *)
(* and what is written is the time of one that was under way.              *)
LEMMA MovingAlongKeepsAccountInv ==
    ASSUME AccountInv, AccountType', now' = now, started' = started,
           \A k \in Feeders : lastAtcUpdate'[k] = lastAtcUpdate[k] /\ settled'[k] >= settled[k],
           \A k \in Feeders, t \in Int :
               /\ UpdateOf(k, t) \in Carried' => UpdateOf(k, t) \in Carried
               /\ UpdateOf(k, t) \in Carried => UpdateOf(k, t) \in Carried' \/ t <= settled'[k],
           \A k \in Feeders : lastSeen'[k] = lastSeen[k] \/ UpdateOf(k, lastSeen'[k]) \in Carried
    PROVE  AccountInv' /\ OnlyLate
<1>1. ASSUME NEW k \in Feeders
      PROVE  /\ AccountOf(k)'
             /\ lastSeen'[k] >= lastSeen[k] \/ now > lastSeen'[k] + Minute \/ lastSeen'[k] <= started
  <2> DEFINE reported == lastAtcUpdate[k]
             before == lastSeen[k]
             after == lastSeen'[k]
             Has(t) == UpdateOf(k, t) \in Carried
             HasAfter(t) == (UpdateOf(k, t) \in Carried)'
  <2>1. /\ reported \in Int /\ now \in Int /\ before \in Int /\ after \in Int
        /\ lastAtcUpdate'[k] = reported /\ started \in Nat /\ Minute \in Nat
        /\ settled[k] \in Nat /\ settled'[k] \in Nat /\ settled'[k] >= settled[k]
    BY AccountingAssumption DEF AccountInv, AccountType
  <2>2. /\ reported <= now /\ before <= now
        /\ reported > settled[k] => Has(reported)
        /\ \A t \in Int : Has(t) =>
              /\ t <= now
              /\ t <= started \/ t <= reported
              /\ before <= t \/ t <= started \/ now > t + Minute
              /\ \A s \in Int : Has(s) => s <= t \/ t <= started \/ s > t + Minute
    BY DEF AccountInv, AccountOf, Behind
  <2>3. \A t \in Int : /\ HasAfter(t) => Has(t)
                       /\ Has(t) => HasAfter(t) \/ t <= settled'[k]
    BY DEF UpdateOf
  <2>4. after = before \/ Has(after)
    BY DEF UpdateOf
  <2> HIDE DEF reported, before, after, Has, HasAfter
  <2>5. after <= now /\ (after >= before \/ now > after + Minute \/ after <= started)
    BY <2>1, <2>2, <2>4
  <2>6. reported > settled'[k] => HasAfter(reported)
    BY <2>1, <2>2, <2>3
  <2>7. ASSUME NEW t \in Int, HasAfter(t)
        PROVE  /\ t <= now
               /\ t <= started \/ t <= reported
               /\ after <= t \/ t <= started \/ now > t + Minute
               /\ \A s \in Int : HasAfter(s) => s <= t \/ t <= started \/ s > t + Minute
    <3>1. Has(t)
      BY <2>3, <2>7
    <3>2. after <= t \/ t <= started \/ now > t + Minute
      <4>1. CASE after = before
        BY <2>2, <3>1, <4>1
      <4>2. CASE Has(after)
        <5>1. after <= now /\ (after <= t \/ t <= started \/ after > t + Minute)
          BY <2>1, <2>2, <3>1, <4>2
        <5> QED
          BY <2>1, <5>1
      <4> QED
        BY <2>4, <4>1, <4>2
    <3> QED
      BY <2>2, <2>3, <3>1, <3>2
  <2> QED
    BY <2>1, <2>2, <2>5, <2>6, <2>7 DEF AccountOf, Behind, reported, before, after, HasAfter
<1> QED
  BY <1>1 DEF AccountInv, OnlyLate

LEMMA InitAccount == AccountInit /\ ApiInit => AccountInv
<1> SUFFICES ASSUME AccountInit, ApiInit PROVE AccountInv
  OBVIOUS
<1>1. AccountType
  BY AccountingAssumption DEF AccountInit, ApiInit, AccountType, NeverReported
<1>2. Carried \subseteq {NoJob}
  BY DEF Carried, AccountInit, ApiInit
<1>3. \A k \in Feeders, t \in Int : UpdateOf(k, t) \notin Carried
  BY <1>2, UpdatesAreTheirFields
<1>4. \A k \in Feeders : lastAtcUpdate[k] = 0 - Minute - 1 /\ lastSeen[k] = 0 /\ settled[k] = 0 /\ now = 1
  BY DEF AccountInit, ApiInit, NeverReported
<1>5. \A k \in Feeders :
         lastAtcUpdate[k] <= now /\ ~(lastAtcUpdate[k] > settled[k]) /\ lastSeen[k] <= now
  BY <1>4, AccountingAssumption
<1> QED
  BY <1>1, <1>3, <1>5 DEF AccountInv, AccountOf

LEMMA CountFrameKeepsAccountInv ==
    ASSUME AccountInv, CountFrame
    PROVE  AccountInv' /\ OnlyLate
<1>1. AccountType /\ UNCHANGED <<now, started, apiVars>>
  BY DEF CountFrame, AccountInv
<1>2. PICK c : c = Head(handleQueue)
  OBVIOUS
<1>3. c \in Feeders /\ Tail(handleQueue) \in Seq(Feeders)
  BY <1>1, <1>2 DEF CountFrame, AccountType
<1> DEFINE due == now > lastAtcUpdate[c] + Minute
           sent == due /\ ~closed /\ Len(atcUpdateQueue) < UpdateDepth
           u == [key |-> c, seen |-> now]
<1>4. /\ atcUpdateQueue' = IF sent THEN Append(atcUpdateQueue, u) ELSE atcUpdateQueue
      /\ lastAtcUpdate' = [lastAtcUpdate EXCEPT ![c] = IF sent THEN now ELSE @]
      /\ handleQueue' = Tail(handleQueue)
  BY <1>2 DEF CountFrame
<1>5. u \in Update /\ Message(u) = UpdateOf(c, now)
  BY <1>1, <1>3 DEF Update, Message, UpdateOf, AccountType
<1>6. /\ lastAtcUpdate' \in [Feeders -> Int]
      /\ \A k \in Feeders : lastAtcUpdate'[k] = IF k = c /\ sent THEN now ELSE lastAtcUpdate[k]
  <2>1. PICK r : r = IF sent THEN now ELSE lastAtcUpdate[c]
    BY Zenon
  <2>2. lastAtcUpdate' = [lastAtcUpdate EXCEPT ![c] = r]
    BY <1>1, <1>3, <1>4, <2>1 DEF AccountType
  <2>3. r \in Int
    BY <1>1, <1>3, <2>1 DEF AccountType
  <2>4. lastAtcUpdate' \in [Feeders -> Int]
    BY <1>1, <2>2, <2>3 DEF AccountType
  <2>5. lastAtcUpdate'[c] = r /\ \A k \in Feeders : k # c => lastAtcUpdate'[k] = lastAtcUpdate[k]
    BY <1>1, <1>3, <2>2 DEF AccountType
  <2> QED
    BY <1>3, <2>1, <2>4, <2>5
<1> HIDE DEF due, u
<1>7. atcUpdateQueue' \in Seq(Update)
  BY <1>1, <1>4, <1>5 DEF AccountType
<1>8. AccountType'
  BY <1>1, <1>3, <1>4, <1>6, <1>7 DEF AccountType, apiVars
<1>9. CASE ~sent
  <2>1. Carried' = Carried /\ settled' = settled /\ lastSeen' = lastSeen
    BY <1>1, <1>4, <1>9 DEF Carried, apiVars
  <2>2. \A k \in Feeders : settled'[k] >= settled[k]
    BY <1>1, <2>1 DEF AccountType
  <2>3. \A k \in Feeders, t \in Int : (UpdateOf(k, t) \in Carried)' <=> UpdateOf(k, t) \in Carried
    BY <2>1 DEF UpdateOf
  <2> QED
    BY <1>1, <1>6, <1>8, <1>9, <2>1, <2>2, <2>3, MovingAlongKeepsAccountInv
<1>10. CASE sent
  <2>1. Carried' = Carried \cup {UpdateOf(c, now)} /\ settled' = settled /\ lastSeen' = lastSeen
    <3>1. {Message(atcUpdateQueue'[i]) : i \in DOMAIN atcUpdateQueue'} =
          {Message(atcUpdateQueue[i]) : i \in DOMAIN atcUpdateQueue} \cup {Message(u)}
      <4>1. /\ Len(atcUpdateQueue) \in Nat /\ DOMAIN atcUpdateQueue = 1 .. Len(atcUpdateQueue)
            /\ DOMAIN atcUpdateQueue' = 1 .. Len(atcUpdateQueue) + 1
            /\ \A i \in 1 .. Len(atcUpdateQueue) : atcUpdateQueue'[i] = atcUpdateQueue[i]
            /\ atcUpdateQueue'[Len(atcUpdateQueue) + 1] = u
        BY <1>1, <1>4, <1>5, <1>10 DEF AccountType
      <4>2. DOMAIN atcUpdateQueue' = DOMAIN atcUpdateQueue \cup {Len(atcUpdateQueue) + 1}
        BY <4>1
      <4> QED
        BY <4>1, <4>2
    <3> QED
      BY <1>1, <1>5, <3>1 DEF Carried, apiVars
  <2>2. /\ now \in Int /\ now > 0 /\ lastAtcUpdate[c] \in Int /\ started \in Nat /\ Minute \in Nat
        /\ now > lastAtcUpdate[c] + Minute
    BY <1>1, <1>3, <1>10, AccountingAssumption DEF AccountType, due
(* What was under way about this feeder is more than a minute old, or from *)
(* before the restart.                                                     *)
  <2>3. \A t \in Int : UpdateOf(c, t) \in Carried => t <= started \/ now > t + Minute
    BY <1>3, <2>2 DEF AccountInv, AccountOf
  <2>4. ASSUME NEW k \in Feeders PROVE AccountOf(k)'
    <3>1. /\ lastSeen'[k] = lastSeen[k] /\ now' = now /\ lastSeen[k] <= now /\ started' = started
          /\ settled'[k] = settled[k] /\ lastSeen[k] \in Int
      BY <1>1, <2>1 DEF AccountInv, AccountOf, AccountType
    <3>2. CASE k = c
      <4>1. lastAtcUpdate'[k] = now
        BY <1>6, <1>10, <3>2
      <4>2. ASSUME NEW t \in Int, (UpdateOf(k, t) \in Carried)'
            PROVE  t = now \/ UpdateOf(k, t) \in Carried
        <5>1. UpdateOf(k, t) \in Carried \/ UpdateOf(c, t) = UpdateOf(c, now)
          BY <2>1, <3>2, <4>2 DEF UpdateOf
        <5> QED
          BY <5>1 DEF UpdateOf
      <4>3. ASSUME NEW t \in Int, (UpdateOf(k, t) \in Carried)'
            PROVE  /\ t <= now /\ (t <= started \/ t <= now)
                   /\ lastSeen[k] <= t \/ t <= started \/ now > t + Minute
                   /\ \A s \in Int : (UpdateOf(k, s) \in Carried)' =>
                         s <= t \/ t <= started \/ s > t + Minute
        <5>1. CASE t = now
          <6>1. \A s \in Int : (UpdateOf(k, s) \in Carried)' => s <= now
            BY <2>2, <4>2 DEF AccountInv, AccountOf
          <6> QED
            BY <2>2, <3>1, <5>1, <6>1
        <5>2. CASE UpdateOf(k, t) \in Carried
          <6>1. /\ t <= now /\ (lastSeen[k] <= t \/ t <= started \/ now > t + Minute)
                /\ \A s \in Int : UpdateOf(k, s) \in Carried => s <= t \/ t <= started \/ s > t + Minute
            BY <5>2 DEF AccountInv, AccountOf, Behind
          <6>2. t <= started \/ now > t + Minute
            BY <2>3, <3>2, <5>2
          <6> QED
            BY <4>2, <6>1, <6>2
        <5> QED
          BY <4>2, <4>3, <5>1, <5>2
      <4>4. (UpdateOf(k, now) \in Carried)'
        BY <2>1, <3>1, <3>2 DEF UpdateOf
      <4> QED
        BY <2>2, <3>1, <4>1, <4>3, <4>4 DEF AccountOf, Behind
    <3>3. CASE k # c
      <4>1. lastAtcUpdate'[k] = lastAtcUpdate[k]
        BY <1>6, <3>3
      <4>2. \A t \in Int : UpdateOf(k, t) # UpdateOf(c, now)
        BY <3>3 DEF UpdateOf
      <4>3. \A t \in Int : (UpdateOf(k, t) \in Carried)' <=> UpdateOf(k, t) \in Carried
        BY <2>1, <4>2 DEF UpdateOf
      <4>4. AccountOf(k)
        BY DEF AccountInv
      <4>5. lastAtcUpdate[k] \in Int
        BY <1>1 DEF AccountType
      <4> QED
        BY <3>1, <4>1, <4>3, <4>4, <4>5 DEF AccountOf, Behind
    <3> QED
      BY <3>2, <3>3
  <2>5. \A k \in Feeders : lastSeen'[k] \in Int /\ lastSeen'[k] = lastSeen[k]
    BY <2>1, <1>1 DEF AccountType
  <2> QED
    BY <1>8, <2>4, <2>5 DEF AccountInv, OnlyLate
<1> QED
  BY <1>9, <1>10

(* A settled update is no later than what its feeder is settled at.        *)
LEMMA SettledAt ==
    ASSUME AccountType, NEW c \in Feeders, NEW s \in Int, SettledWith(UpdateOf(c, s))
    PROVE  /\ settled' \in [Feeders -> Nat]
           /\ \A k \in Feeders : settled'[k] >= settled[k]
           /\ s <= settled'[c]
<1>1. UpdateOf(c, s).key = c /\ UpdateOf(c, s).seen = s
  BY DEF UpdateOf
<1>2. settled' = [settled EXCEPT ![c] = IF s > settled[c] THEN s ELSE settled[c]]
  BY <1>1 DEF SettledWith, AccountType
<1>3. settled \in [Feeders -> Nat]
  BY DEF AccountType
<1> QED
  BY <1>2, <1>3

LEMMA PublishStatsKeepsAccountInv ==
    ASSUME AccountInv, PublishStats
    PROVE  AccountInv' /\ OnlyLate
<1>1. AccountType /\ UNCHANGED <<now, started, lastAtcUpdate, lastSeen, handling, handleQueue>>
  BY DEF PublishStats, AccountInv
<1> DEFINE q == atcUpdateQueue
<1>2. PICK msg : msg = Message(Head(q))
  OBVIOUS
<1>3. /\ q \in Seq(Update) /\ q # << >> /\ q' = Tail(q)
      /\ \/ bus' = bus \cup {msg} /\ settled' = settled
         \/ bus' = bus /\ SettledWith(msg)
  BY <1>1, <1>2 DEF PublishStats, AccountType
<1>4. /\ Len(q) \in Nat /\ DOMAIN q = 1 .. Len(q) /\ 1 \in DOMAIN q /\ Head(q) = q[1] /\ q[1] \in Update
      /\ Tail(q) \in Seq(Update) /\ DOMAIN Tail(q) = 1 .. Len(q) - 1
      /\ \A i \in DOMAIN Tail(q) : Tail(q)[i] = q[i + 1]
  BY <1>3
<1>5. {Message(q[i]) : i \in DOMAIN q} = {msg} \cup {Message(Tail(q)[i]) : i \in DOMAIN Tail(q)}
  <2>1. \A i \in DOMAIN q : i = 1 \/ (i - 1 \in DOMAIN Tail(q) /\ q[i] = Tail(q)[i - 1])
    BY <1>4
  <2>2. \A i \in DOMAIN Tail(q) : i + 1 \in DOMAIN q /\ Tail(q)[i] = q[i + 1]
    BY <1>4
  <2>3. msg = Message(q[1])
    BY <1>2, <1>4
  <2> HIDE DEF q
  <2> QED
    BY <1>4, <2>1, <2>2, <2>3
<1>6. PICK c \in Feeders, s \in Int : msg = UpdateOf(c, s)
  BY <1>2, <1>4, UpdatesAreTheirFields
<1>7. /\ settled' \in [Feeders -> Nat] /\ \A k \in Feeders : settled'[k] >= settled[k]
      /\ msg \in bus' \/ s <= settled'[c]
  <2>1. CASE bus' = bus \cup {msg} /\ settled' = settled
    BY <1>1, <2>1 DEF AccountType
  <2>2. CASE bus' = bus /\ SettledWith(msg)
    BY <1>1, <1>6, <2>2, SettledAt
  <2> QED
    BY <1>1, <1>3, <2>1, <2>2 DEF AccountType
<1>8. AccountType'
  <2>1. msg \in Updates
    BY <1>6, UpdatesAreTheirFields
  <2> QED
    BY <1>1, <1>3, <1>4, <1>7, <2>1 DEF AccountType
<1>9. ASSUME NEW m
      PROVE  /\ m \in Carried' => m \in Carried
             /\ m \in Carried => m \in Carried' \/ (m = msg /\ msg \notin bus')
  BY <1>1, <1>3, <1>5 DEF Carried
<1>10. ASSUME NEW k \in Feeders, NEW t \in Int
       PROVE  /\ (UpdateOf(k, t) \in Carried)' => UpdateOf(k, t) \in Carried
              /\ UpdateOf(k, t) \in Carried => (UpdateOf(k, t) \in Carried)' \/ t <= settled'[k]
  <2>1. PICK m : m = UpdateOf(k, t)
    OBVIOUS
  <2>2. m = msg => k = c /\ t = s
    BY <1>6, <2>1 DEF UpdateOf
  <2>3. (UpdateOf(k, t) \in Carried)' <=> m \in Carried'
    BY <2>1 DEF UpdateOf
  <2> QED
    BY <1>7, <1>9, <2>1, <2>2, <2>3
<1> QED
  BY <1>1, <1>7, <1>8, <1>10, MovingAlongKeepsAccountInv

(* A subscription of the API takes a message, or is done with it.          *)
LEMMA WorkerKeepsAccountInv ==
    ASSUME AccountInv, NEW w \in ApiWorkers, WorkerStep(w), UNCHANGED accountVars
    PROVE  AccountInv' /\ OnlyLate
<1>1. AccountType /\ UNCHANGED <<now, started, handleQueue, atcUpdateQueue, lastAtcUpdate>>
  BY DEF AccountInv, accountVars
<1>2. \A k \in Feeders, t \in Int : UpdateOf(k, t) # NoJob
  BY UpdatesAreTheirFields
<1>3. ASSUME NEW r, r \in bus, handling[w] = NoJob, handling' = [handling EXCEPT ![w] = r],
             bus' = bus \ {r}, UNCHANGED <<lastSeen, settled>>
      PROVE  AccountInv' /\ OnlyLate
  <2>1. AccountType'
    BY <1>1, <1>3 DEF AccountType
  <2>2. handling'[w] = r /\ \A v \in ApiWorkers \ {w} : handling'[v] = handling[v]
    BY <1>1, <1>3 DEF AccountType
  <2>3. ASSUME NEW m, m # NoJob PROVE m \in Carried' <=> m \in Carried
    <3>1. m \in {handling'[v] : v \in ApiWorkers} <=>
              m = r \/ m \in {handling[v] : v \in ApiWorkers}
      BY <1>3, <2>2, <2>3
    <3> QED
      BY <1>1, <1>3, <3>1 DEF Carried
  <2>4. \A k \in Feeders : settled'[k] >= settled[k]
    BY <1>1, <1>3 DEF AccountType
  <2> QED
    BY <1>1, <1>2, <1>3, <2>1, <2>3, <2>4, MovingAlongKeepsAccountInv
<1>4. CASE Take(w)
  BY <1>3, <1>4 DEF Take
(* What leaves the subscription otherwise.                                 *)
<1>5. ASSUME handling' = [handling EXCEPT ![w] = NoJob], UNCHANGED bus
      PROVE  /\ \A v \in ApiWorkers \ {w} : handling'[v] = handling[v]
             /\ handling'[w] = NoJob
             /\ \A m : m # NoJob => /\ m \in Carried' => m \in Carried
                                    /\ m \in Carried => m \in Carried' \/ m = handling[w]
  <2>1. handling'[w] = NoJob /\ \A v \in ApiWorkers \ {w} : handling'[v] = handling[v]
    BY <1>1, <1>5 DEF AccountType
  <2>2. ASSUME NEW m, m # NoJob
        PROVE  /\ m \in Carried' => m \in Carried
               /\ m \in Carried => m \in Carried' \/ m = handling[w]
    <3>1. /\ m \in {handling'[v] : v \in ApiWorkers} => m \in {handling[v] : v \in ApiWorkers}
          /\ m \in {handling[v] : v \in ApiWorkers} =>
                m = handling[w] \/ m \in {handling'[v] : v \in ApiWorkers}
      BY <2>1, <2>2
    <3> QED
      BY <1>1, <1>5, <3>1 DEF Carried
  <2> QED
    BY <2>1, <2>2
<1>6. CASE Reply(w)
  <2>1. /\ handling' = [handling EXCEPT ![w] = NoJob] /\ UNCHANGED <<bus, lastSeen, settled>>
        /\ handling[w].subject # "feeder.update-stats"
    BY <1>6 DEF Reply
  <2>2. AccountType'
    BY <1>1, <2>1 DEF AccountType
  <2>3. \A k \in Feeders, t \in Int : UpdateOf(k, t) # handling[w]
    BY <2>1, UpdatesAreTheirFields
  <2>4. ASSUME NEW k \in Feeders, NEW t \in Int
        PROVE  /\ (UpdateOf(k, t) \in Carried)' => UpdateOf(k, t) \in Carried
               /\ UpdateOf(k, t) \in Carried => (UpdateOf(k, t) \in Carried)'
    <3>1. PICK m : m = UpdateOf(k, t)
      OBVIOUS
    <3>2. m # NoJob /\ m # handling[w]
      BY <1>2, <2>3, <3>1
    <3>3. (m \in Carried' => m \in Carried) /\ (m \in Carried => m \in Carried')
      BY <1>5, <2>1, <3>2
    <3> QED
      BY <2>1, <3>1, <3>3
  <2>5. \A k \in Feeders : settled'[k] >= settled[k]
    BY <1>1, <2>1 DEF AccountType
  <2> QED
    BY <1>1, <2>1, <2>2, <2>4, <2>5, MovingAlongKeepsAccountInv
<1>7. CASE UpdateStats(w)
  <2>1. /\ handling' = [handling EXCEPT ![w] = NoJob] /\ UNCHANGED bus
        /\ handling[w].subject = "feeder.update-stats"
        /\ SettledWith(handling[w])
        /\ \/ lastSeen' = [lastSeen EXCEPT ![handling[w].key] = handling[w].seen]
           \/ lastSeen' = lastSeen
    BY <1>7 DEF UpdateStats
  <2>2. handling[w] \in Updates
    BY <1>1, <2>1, UpdatesAreTheirFields DEF AccountType
  <2>3. PICK c \in Feeders, s \in Int :
            handling[w] = UpdateOf(c, s) /\ c = handling[w].key /\ s = handling[w].seen
    BY <2>2, UpdatesAreTheirFields
  <2>4. /\ lastSeen' \in [Feeders -> Int]
        /\ \A k \in Feeders : lastSeen'[k] = lastSeen[k] \/ (k = c /\ lastSeen'[k] = s)
    BY <1>1, <2>1, <2>3 DEF AccountType
  <2>5. UpdateOf(c, s) \in Carried
    BY <2>3 DEF Carried
  <2>6. /\ settled' \in [Feeders -> Nat] /\ \A k \in Feeders : settled'[k] >= settled[k]
        /\ s <= settled'[c]
    BY <1>1, <2>1, <2>3, SettledAt
  <2>7. AccountType'
    BY <1>1, <2>1, <2>4, <2>6 DEF AccountType
  <2>8. ASSUME NEW k \in Feeders, NEW t \in Int
        PROVE  /\ (UpdateOf(k, t) \in Carried)' => UpdateOf(k, t) \in Carried
               /\ UpdateOf(k, t) \in Carried => (UpdateOf(k, t) \in Carried)' \/ t <= settled'[k]
    <3>1. PICK m : m = UpdateOf(k, t)
      OBVIOUS
    <3>2. m # NoJob
      BY <1>2, <3>1
    <3>3. (m \in Carried' => m \in Carried) /\ (m \in Carried => m \in Carried' \/ m = handling[w])
      BY <1>5, <2>1, <3>2
    <3>4. m = handling[w] => k = c /\ t = s
      BY <2>3, <3>1 DEF UpdateOf
    <3> QED
      BY <2>6, <3>1, <3>3, <3>4
  <2>9. \A k \in Feeders : lastSeen'[k] = lastSeen[k] \/ UpdateOf(k, lastSeen'[k]) \in Carried
    BY <2>4, <2>5
  <2> QED
    BY <1>1, <2>6, <2>7, <2>8, <2>9, MovingAlongKeepsAccountInv
<1> QED
  BY <1>4, <1>6, <1>7 DEF WorkerStep

(* A pw_ingest that is started anew has nothing in its queues, and all     *)
(* that is on the bus is from before.                                      *)
LEMMA RestartKeepsAccountInv ==
    ASSUME AccountInv, Restart
    PROVE  AccountInv' /\ OnlyLate
<1>1. AccountType /\ UNCHANGED <<now, apiVars>>
  BY DEF Restart, AccountInv
<1>2. /\ started' = now /\ atcUpdateQueue' = <<>> /\ handleQueue' = <<>>
      /\ lastAtcUpdate' = NeverReported
  BY DEF Restart
<1>3. UNCHANGED <<bus, handling, lastSeen, settled>>
  BY <1>1 DEF apiVars
<1>4. NeverReported \in [Feeders -> Int] /\ \A k \in Feeders : NeverReported[k] = 0 - Minute - 1
  BY AccountingAssumption DEF NeverReported
<1>5. AccountType'
  BY <1>1, <1>2, <1>3, <1>4 DEF AccountType
<1>6. \A m : m \in Carried' => m \in Carried
  <2>1. Carried' = bus \cup {handling[w] : w \in ApiWorkers}
    BY <1>2, <1>3 DEF Carried
  <2> QED
    BY <2>1 DEF Carried
<1>7. ASSUME NEW k \in Feeders
      PROVE  AccountOf(k)' /\ lastSeen'[k] >= lastSeen[k]
  <2>1. /\ lastAtcUpdate'[k] = 0 - Minute - 1 /\ settled'[k] \in Nat /\ now \in Nat /\ Minute \in Nat
        /\ lastSeen'[k] = lastSeen[k] /\ lastSeen[k] \in Int /\ lastSeen[k] <= now
        /\ now' = now /\ started' = now
    BY <1>1, <1>2, <1>3, <1>4, AccountingAssumption DEF AccountType, AccountInv, AccountOf
  <2>2. \A t \in Int : (UpdateOf(k, t) \in Carried)' => t <= now
    BY <1>6 DEF AccountInv, AccountOf, UpdateOf
  <2> QED
    BY <2>1, <2>2 DEF AccountOf, Behind
<1> QED
  BY <1>5, <1>7 DEF AccountInv, OnlyLate

LEMMA StepAccount == AccountInv /\ [AccountNext]_atcVars => AccountInv' /\ OnlyLate
<1> SUFFICES ASSUME AccountInv, [AccountNext]_atcVars
             PROVE  AccountInv' /\ OnlyLate
  OBVIOUS
<1>1. AccountType
  BY DEF AccountInv
(* Nothing moves but perhaps the frames and what others ask for.           *)
<1>2. ASSUME UNCHANGED <<now, started, atcUpdateQueue, lastAtcUpdate, handling, lastSeen, settled>>,
             AccountType', \A m : m \in bus' \ bus => m \in Asked, bus \subseteq bus'
      PROVE  AccountInv' /\ OnlyLate
  <2>1. \A k \in Feeders, t \in Int : UpdateOf(k, t) \notin Asked
    BY UpdatesAreTheirFields
  <2>2. Carried \subseteq Carried' /\ \A m \in Carried' : m \in Carried \/ m \in Asked
    BY <1>2 DEF Carried
  <2>3. ASSUME NEW k \in Feeders, NEW t \in Int
        PROVE  (UpdateOf(k, t) \in Carried)' <=> UpdateOf(k, t) \in Carried
    BY <1>2, <2>1, <2>2 DEF UpdateOf
  <2>4. \A k \in Feeders : /\ lastAtcUpdate'[k] = lastAtcUpdate[k] /\ lastSeen'[k] = lastSeen[k]
                           /\ settled'[k] >= settled[k]
    BY <1>1, <1>2 DEF AccountType
  <2> QED
    BY <1>2, <2>3, <2>4, MovingAlongKeepsAccountInv
<1>3. CASE UNCHANGED atcVars \/ StopAccounting
  <2>1. UNCHANGED <<now, started, handleQueue, atcUpdateQueue, lastAtcUpdate, handling, lastSeen,
                    settled, bus>>
    BY <1>3 DEF atcVars, apiVars, accountVars, StopAccounting
  <2> QED
    BY <1>1, <1>2, <2>1 DEF AccountType
<1>4. ASSUME NEW k \in Feeders, HandleFrame(k)
      PROVE  AccountInv' /\ OnlyLate
  <2>1. /\ UNCHANGED <<now, started, atcUpdateQueue, lastAtcUpdate, handling, lastSeen, settled, bus>>
        /\ handleQueue' = handleQueue \/ handleQueue' = Append(handleQueue, k)
    BY <1>4 DEF HandleFrame, apiVars
  <2>2. handleQueue' \in Seq(Feeders)
    <3>1. handleQueue \in Seq(Feeders)
      BY <1>1 DEF AccountType
    <3>2. Append(handleQueue, k) \in Seq(Feeders)
      BY <3>1
    <3> QED
      BY <2>1, <3>1, <3>2
  <2> QED
    BY <1>1, <1>2, <2>1, <2>2 DEF AccountType
<1>5. CASE StartApi /\ UNCHANGED accountVars
  <2>1. UNCHANGED <<now, started, handleQueue, atcUpdateQueue, lastAtcUpdate, handling, lastSeen,
                    settled, bus>>
    BY <1>5 DEF StartApi, accountVars
  <2> QED
    BY <1>1, <1>2, <2>1 DEF AccountType
<1>6. ASSUME NEW r \in Asked, Request(r), UNCHANGED accountVars
      PROVE  AccountInv' /\ OnlyLate
  <2>1. /\ UNCHANGED <<now, started, handleQueue, atcUpdateQueue, lastAtcUpdate, handling, lastSeen,
                       settled>>
        /\ bus' = bus \cup {r}
    BY <1>6 DEF Request, accountVars
  <2> QED
    BY <1>1, <1>2, <2>1 DEF AccountType
<1>7. CASE AccountTick
  <2>1. /\ now' = now + 1
        /\ UNCHANGED <<started, handleQueue, atcUpdateQueue, lastAtcUpdate, apiVars>>
    BY <1>7 DEF AccountTick
  <2>2. AccountType'
    BY <1>1, <2>1 DEF AccountType, apiVars
  <2>3. Carried' = Carried /\ settled' = settled /\ lastSeen' = lastSeen
    BY <2>1 DEF Carried, apiVars
  <2>4. ASSUME NEW k \in Feeders PROVE AccountOf(k)' /\ lastSeen'[k] >= lastSeen[k]
    <3>1. /\ now \in Int /\ lastAtcUpdate[k] \in Int /\ lastSeen[k] \in Int /\ started \in Nat
          /\ Minute \in Nat
      BY <1>1, AccountingAssumption DEF AccountType
    <3>2. AccountOf(k)
      BY DEF AccountInv
    <3>3. \A t \in Int : (UpdateOf(k, t) \in Carried)' <=> UpdateOf(k, t) \in Carried
      BY <2>3 DEF UpdateOf
    <3>4. \A t \in Int : t <= now => t <= now'
      BY <2>1, <3>1
    <3>5. \A t \in Int : now > t + Minute => now' > t + Minute
      BY <2>1, <3>1
    <3> QED
      BY <2>1, <2>3, <3>1, <3>2, <3>3, <3>4, <3>5 DEF AccountOf, Behind
  <2> QED
    BY <2>2, <2>4 DEF AccountInv, OnlyLate
<1> QED
  BY <1>3, <1>4, <1>5, <1>6, <1>7, CountFrameKeepsAccountInv, PublishStatsKeepsAccountInv,
     WorkerKeepsAccountInv, RestartKeepsAccountInv DEF AccountNext, AccountStep, ApiNext

LEMMA NothingReportedIsLost == AccountInv => ReportedOrUnderway
<1> SUFFICES ASSUME AccountInv, NEW k \in Feeders, lastAtcUpdate[k] > settled[k]
             PROVE  \E m \in Underway(k) : m.seen = lastAtcUpdate[k]
  BY DEF ReportedOrUnderway
<1> DEFINE m == UpdateOf(k, lastAtcUpdate[k])
<1>1. m.key = k /\ m.seen = lastAtcUpdate[k] /\ m.subject = "feeder.update-stats"
  BY DEF UpdateOf
<1>2. m \in Carried
  BY DEF AccountInv, AccountOf
<1>3. m \in Underway(k)
  BY <1>1, <1>2 DEF Underway, Carried
<1> QED
  BY <1>1, <1>3

-----------------------------------------------------------------------------
LEMMA InitBroker == BrokerInit => BrokerInv
  BY DEF BrokerInit, BrokerInv

(* A report more leaves those under way.                                   *)
LEMMA ReportKeepsReports ==
    ASSUME NEW s \in Seq({"slow", "server"}), NEW r \in {"slow", "server"}
    PROVE  /\ Append(s, r) \in Seq({"slow", "server"})
           /\ \A k \in DOMAIN s : k \in DOMAIN Append(s, r) /\ Append(s, r)[k] = s[k]
           /\ Len(s) + 1 \in DOMAIN Append(s, r) /\ Append(s, r)[Len(s) + 1] = r
  OBVIOUS

LEMMA StepBroker == BrokerInv /\ [BrokerNext]_brokerVars => BrokerInv'
<1> SUFFICES ASSUME BrokerInv, [BrokerNext]_brokerVars PROVE BrokerInv'
  OBVIOUS
<1> USE DEF BrokerInv
<1>1. CASE UNCHANGED <<reports, dropped, slow, lost>>
  BY <1>1
<1>2. CASE ServerError
  <2>1. reports' = Append(reports, "server") /\ UNCHANGED <<dropped, slow, lost>>
    BY <1>2 DEF ServerError, queueVars
  <2> QED
    BY <2>1, ReportKeepsReports
<1>3. CASE NatsErrHandler
  <2>1. /\ reports # << >> /\ reports' = Tail(reports) /\ UNCHANGED <<slow, lost>>
        /\ dropped' = IF Head(reports) = "slow" THEN dropped + 1 ELSE dropped
    BY <1>3 DEF NatsErrHandler, queueVars, Counts
  <2>2. /\ reports' \in Seq({"slow", "server"}) /\ Head(reports) = reports[1]
        /\ \A k \in DOMAIN reports : k = 1 \/ (k - 1 \in DOMAIN reports' /\ reports'[k - 1] = reports[k])
    BY <2>1
  <2>3. CASE Head(reports) = "slow"
    BY <2>1, <2>2, <2>3
  <2>4. CASE Head(reports) # "slow"
    <3>1. \A k \in DOMAIN reports : reports[k] = "slow" =>
              k - 1 \in DOMAIN reports' /\ reports'[k - 1] = "slow"
      BY <2>2, <2>4
    <3> QED
      BY <2>1, <2>2, <2>4, <3>1
  <2> QED
    BY <2>3, <2>4
<1>4. ASSUME NEW f \in Feeds, NEW m \in Locations, Deliver(f, m) PROVE BrokerInv'
  <2>1. CASE Len(ch[f]) < QueueDepth
    BY <1>4, <2>1 DEF Deliver
(* A feed that lost one before is among those that were reported.          *)
  <2>2. CASE ~(Len(ch[f]) < QueueDepth) /\ f \in slow
    BY <1>4, <2>2 DEF Deliver
  <2>3. CASE ~(Len(ch[f]) < QueueDepth) /\ f \notin slow
    <3>1. /\ reports' = Append(reports, "slow") /\ UNCHANGED dropped
          /\ lost' = lost \cup {f} /\ slow' = slow \cup {f}
      BY <1>4, <2>3 DEF Deliver
    <3> QED
      BY <3>1, ReportKeepsReports
  <2> QED
    BY <2>1, <2>2, <2>3
<1>5. CASE NewBroker \/ Setup \/ StartSearch \/ SearchStep \/ ApiReplies
  BY <1>1, <1>5 DEF NewBroker, Setup, StartSearch, SearchStep, SearchAircraft, RequestAirports, TimeOut,
     ApiReplies, queueVars
<1>6. CASE ListenAndServe \/ WaitExit \/ WaitSignal \/ CloseWeb \/ CloseNats
  BY <1>1, <1>6 DEF ListenAndServe, WaitExit, WaitSignal, CloseWeb, CloseNats, queueVars
<1>7. ASSUME NEW f \in Feeds,
             Subscribed(f) \/ \E w \in FeedWorkers : TakeMessage(f, w) \/ ProcessMessage(f, w)
      PROVE  BrokerInv'
  BY <1>1, <1>7 DEF Subscribed, TakeMessage, ProcessMessage, queueVars
<1>8. CASE UNCHANGED brokerVars
  BY <1>1, <1>8 DEF brokerVars
<1> QED
  BY <1>2, <1>3, <1>4, <1>5, <1>6, <1>7, <1>8 DEF BrokerNext

-----------------------------------------------------------------------------
LEMMA Initially == Init => IInv
  BY InitTap, InitRepeat, InitAccount, InitBroker DEF Init, IInv

(* A step of one part leaves the variables of the others.                  *)
LEMMA Inductive == IInv /\ [Next]_vars => IInv' /\ OnlyLate
<1> SUFFICES ASSUME IInv, [Next]_vars
             PROVE  IInv' /\ OnlyLate
  OBVIOUS
<1>1. /\ [TapNext]_tapVars /\ [RepeatNext]_repeatVars
      /\ [AccountNext]_atcVars /\ [BrokerNext]_brokerVars
  <2>1. CASE UNCHANGED vars
    BY <2>1 DEF vars
  <2>2. CASE Only("tap") /\ TapNext
    BY <2>2 DEF Only
  <2>3. CASE Only("repeater") /\ RepeatNext
    BY <2>3 DEF Only
  <2>4. CASE Only("asks") /\ ApiNext /\ UNCHANGED accountVars
    BY <2>4 DEF Only, AccountNext
  <2>5. CASE Only("updates") /\ AccountNext
    BY <2>5 DEF Only
  <2>6. CASE Only("broker") /\ BrokerNext
    BY <2>6 DEF Only
  <2> QED
    BY <2>1, <2>2, <2>3, <2>4, <2>5, <2>6 DEF Next
<1>2. TapInv'
  BY <1>1, StepTap DEF IInv
<1>3. RepeatInv'
  BY <1>1, StepRepeat DEF IInv
<1>4. AccountInv' /\ OnlyLate
  BY <1>1, StepAccount DEF IInv
<1>5. BrokerInv'
  BY <1>1, StepBroker DEF IInv
<1> QED
  BY <1>2, <1>3, <1>4, <1>5 DEF IInv

LEMMA BooksAreInvariant == IInv => BooksBalance
<1> SUFFICES ASSUME IInv PROVE BooksBalance
  OBVIOUS
<1>1. ListIntact
  BY DEF IInv, TapInv
<1>2. OneTicker
  BY RepeatsOnce DEF IInv
<1>3. ReportedOrUnderway
  BY NothingReportedIsLost DEF IInv
<1>4. DropsReported
  BY DEF IInv, BrokerInv, DropsReported
<1> QED
  BY <1>1, <1>2, <1>3, <1>4 DEF BooksBalance

(* Whatever the order of requests, ticks, updates and messages: append and *)
(* remove keep the list of taps of each pw_ingest linked both ways, one    *)
(* ticker repeats an aircraft, queueHandler takes no feeder for reported   *)
(* whose update is not queued, on the bus or done with, and a feed that    *)
(* lost a message was counted by NatsErrHandler or is about to be.         *)
THEOREM BooksAlwaysBalance == Spec => []BooksBalance
<1>1. Init => IInv
  BY Initially
<1>2. IInv /\ [Next]_vars => IInv'
  BY Inductive
<1>3. IInv => BooksBalance
  BY BooksAreInvariant
<1> QED
  BY <1>1, <1>2, <1>3, PTL DEF Spec

(* feederHandler writes last_seen without looking, from any worker of the  *)
(* queue group, however long the update was under way.  What puts the time *)
(* of a feeder back is an update written more than a minute after it was   *)
(* sent, or sent before pw_ingest was restarted: queueHandler waits for    *)
(* longer than the minute, whatever else is dropped, lost or refused.      *)
THEOREM PutBackByLateUpdates == Spec => PutBackOnlyLate
<1>1. Init => IInv
  BY Initially
<1>2. IInv /\ [Next]_vars => IInv'
  BY Inductive
<1>3. IInv /\ [Next]_vars =>
         [\A k \in Feeders :
             \/ lastSeen'[k] >= lastSeen[k]
             \/ now > lastSeen'[k] + Minute
             \/ lastSeen'[k] <= started]_lastSeen
  BY Inductive DEF OnlyLate
<1> QED
  BY <1>1, <1>2, <1>3, PTL DEF Spec, PutBackOnlyLate
=============================================================================
