---------------------------- MODULE TrackerProofs ----------------------------
(***************************************************************************)
(* TLAPS proofs about what lib/tracker keeps of an aircraft, for any       *)
(* number of workers, any frames and any order of their setters.           *)
(*                                                                         *)
(* The plane: a handler is a script whose steps other workers interleave,  *)
(* so what holds of the plane when a step begins is carried by invariants  *)
(* on what is left of every worker's script.                               *)
(***************************************************************************)
EXTENDS MCTracker, SequenceTheorems, FiniteSetTheorems,
        WellFoundedInduction, TLAPS

-----------------------------------------------------------------------------
(* Scripts.                                                                *)

Steps == FieldNames \union {"check", "ground", "half", "ref", "add", "finish",
                            "zero", "level", "decode"}

(* No step of s is one of a.                                               *)
Without(s, a) == \A k \in DOMAIN s : s[k] \notin a

(* At most one step of s sets a half.                                      *)
OneHalf(s) == \A j, k \in DOMAIN s : s[j] = "half" /\ s[k] = "half" => j = k

(* The last step of s, and no other one, is "finish".                      *)
EndsInFinish(s) ==
    s # <<>> => s[Len(s)] = "finish" /\ \A k \in 1 .. Len(s) - 1 : s[k] # "finish"

LEMMA SeqCat ==
    ASSUME NEW s \in Seq(Steps), NEW t \in Seq(Steps)
    PROVE  /\ s \o t \in Seq(Steps)
           /\ Len(s \o t) = Len(s) + Len(t)
           /\ \A k \in 1 .. Len(s) : (s \o t)[k] = s[k]
           /\ \A k \in 1 .. Len(t) : (s \o t)[Len(s) + k] = t[k]
           /\ \A k \in 1 .. Len(s) + Len(t) :
                 k > Len(s) => /\ k - Len(s) \in 1 .. Len(t)
                               /\ (s \o t)[k] = t[k - Len(s)]
OBVIOUS

LEMMA WithoutCat ==
    ASSUME NEW s \in Seq(Steps), NEW t \in Seq(Steps), NEW a,
           Without(s, a), Without(t, a)
    PROVE  s \o t \in Seq(Steps) /\ Without(s \o t, a)
BY SeqCat DEF Without

LEMMA OneHalfCat ==
    ASSUME NEW s \in Seq(Steps), NEW t \in Seq(Steps),
           \/ OneHalf(s) /\ Without(t, {"half"})
           \/ Without(s, {"half"}) /\ OneHalf(t)
    PROVE  OneHalf(s \o t)
BY SeqCat DEF Without, OneHalf

(* The step for a field, when the frame has it.                            *)
LEMMA OptProps ==
    ASSUME NEW frame, NEW f \in FieldNames
    PROVE  Opt(frame, f) \in Seq(Steps)
           /\ Without(Opt(frame, f), {"finish", "half"})
<1>1. f \in Steps /\ f \notin {"finish", "half"}
  BY DEF Steps, FieldNames
<1>2. /\ <<>> \in Seq(Steps) /\ Without(<<>>, {"finish", "half"})
      /\ <<f>> \in Seq(Steps) /\ Without(<<f>>, {"finish", "half"})
  BY <1>1 DEF Without
<1> QED
  BY <1>2 DEF Opt

(* The steps with their own names, of which none is a field.               *)
LEMMA PlainProps ==
    /\ \A s \in {<<>>, <<"ground">>, <<"check", "ground">>, <<"ref">>, <<"add">>} :
          s \in Seq(Steps) /\ Without(s, {"finish", "half"})
    /\ \A s \in {<<"check", "ground", "half", "ref">>, <<"check", "ground", "half">>} :
          s \in Seq(Steps) /\ Without(s, {"finish"}) /\ OneHalf(s)
<1>1. \A s \in {<<>>, <<"ground">>, <<"check", "ground">>, <<"ref">>, <<"add">>} :
         s \in Seq(Steps) /\ Without(s, {"finish", "half"})
  <2>1. <<>> \in Seq(Steps) /\ Without(<<>>, {"finish", "half"})
    BY DEF Without
  <2>2. \A x \in {"ground", "ref", "add"} :
           <<x>> \in Seq(Steps) /\ Without(<<x>>, {"finish", "half"})
    BY DEF Without, Steps
  <2>3. /\ <<"check", "ground">> \in Seq(Steps)
        /\ Without(<<"check", "ground">>, {"finish", "half"})
    BY DEF Without, Steps
  <2> QED
    BY <2>1, <2>2, <2>3
<1>2. <<"check", "ground", "half", "ref">> \in Seq(Steps)
      /\ Without(<<"check", "ground", "half", "ref">>, {"finish"})
      /\ OneHalf(<<"check", "ground", "half", "ref">>)
  BY DEF Without, Steps, OneHalf
<1>3. <<"check", "ground", "half">> \in Seq(Steps)
      /\ Without(<<"check", "ground", "half">>, {"finish"})
      /\ OneHalf(<<"check", "ground", "half">>)
  BY DEF Without, Steps, OneHalf
<1> QED
  BY <1>1, <1>2, <1>3

(* A script has its "finish" at the end and at most one "half".            *)
LEMMA SettersProps ==
    ASSUME NEW frame
    PROVE  /\ Setters(frame) \in Seq(Steps)
           /\ Without(Setters(frame), {"finish"})
           /\ OneHalf(Setters(frame))
<1> DEFINE Plain(s) == s \in Seq(Steps) /\ Without(s, {"finish", "half"})
           Good(s) == s \in Seq(Steps) /\ Without(s, {"finish"}) /\ OneHalf(s)
<1>1. \A f \in FieldNames : Plain(Opt(frame, f))
  BY OptProps
<1>2. \A s, t : Plain(s) /\ Plain(t) => Plain(s \o t)
  BY WithoutCat
<1>3. \A s : Plain(s) => Good(s)
  BY DEF Without, OneHalf
<1>4. \A s, t : Good(s) /\ Plain(t) => Good(s \o t)
  <2>1. \A s : Plain(s) => Without(s, {"finish"}) /\ Without(s, {"half"})
    BY DEF Without
  <2> QED
    BY <2>1, WithoutCat, OneHalfCat
<1>5. \A s, t : Plain(s) /\ Good(t) => Good(s \o t)
  <2>1. \A s : Plain(s) => Without(s, {"finish"}) /\ Without(s, {"half"})
    BY DEF Without
  <2> QED
    BY <2>1, WithoutCat, OneHalfCat
<1>6. /\ Plain(<<>>) /\ Plain(<<"ground">>) /\ Plain(<<"ref">>) /\ Plain(<<"add">>)
      /\ Good(<<"check", "ground", "half", "ref">>)
      /\ Good(<<"check", "ground", "half">>)
  BY PlainProps
<1>7. {"Altitude", "Special", "FlightStatus", "Squawk", "FlightNumber", "Category",
       "Heading", "Velocity", "Rate", "Airframe", "Registration", "Nav"} = FieldNames
  BY DEF FieldNames
<1> HIDE DEF Plain, Good
<1>8. Plain(ReplySetters(frame))
  BY <1>1, <1>2, <1>6, <1>7 DEF ReplySetters
<1>9. Plain(CommBSetters(frame))
  BY <1>1, <1>2, <1>7 DEF CommBSetters
<1>10. Good(SquitterSetters(frame))
  <2>1. \A f, g \in FieldNames : Plain(Opt(frame, f) \o Opt(frame, g))
    BY <1>1, <1>2
  <2>2. Good(Opt(frame, "Heading") \o Opt(frame, "Velocity")
                \o <<"check", "ground", "half", "ref">>)
    BY <2>1, <1>5, <1>6, <1>7
  <2>3. Good(<<"check", "ground", "half">> \o Opt(frame, "Altitude") \o <<"ref">>
                \o Opt(frame, "Special"))
    BY <1>1, <1>4, <1>6, <1>7
  <2>4. Plain(<<"ground">> \o Opt(frame, "Heading") \o Opt(frame, "Velocity")
                \o Opt(frame, "Rate"))
    BY <1>1, <1>2, <1>6, <1>7
  <2>5. Plain(<<"ground">> \o Opt(frame, "Airframe"))
    BY <1>1, <1>2, <1>6, <1>7
  <2> QED
    BY <1>1, <1>3, <1>7, <2>1, <2>2, <2>3, <2>4, <2>5 DEF SquitterSetters
<1>11. Good(Setters(frame))
  BY <1>3, <1>6, <1>8, <1>9, <1>10 DEF Setters
<1> QED
  BY <1>11 DEF Good

LEMMA ScriptProps ==
    ASSUME NEW frame
    PROVE  /\ Script(frame) \in Seq(Steps) /\ Script(frame) # <<>>
           /\ EndsInFinish(Script(frame))
           /\ OneHalf(Script(frame))
<1> DEFINE s == Opt(frame, "Registration") \o Setters(frame)
<1>1. s \in Seq(Steps) /\ Without(s, {"finish"}) /\ OneHalf(s)
  <2>1. "Registration" \in FieldNames
    BY DEF FieldNames
  <2>2. /\ Opt(frame, "Registration") \in Seq(Steps)
        /\ Without(Opt(frame, "Registration"), {"finish"})
        /\ Without(Opt(frame, "Registration"), {"half"})
    BY <2>1, OptProps DEF Without
  <2> QED
    BY <2>2, SettersProps, WithoutCat, OneHalfCat
<1> HIDE DEF s
<1>2. <<"finish">> \in Seq(Steps) /\ Without(<<"finish">>, {"half"})
  BY DEF Steps, Without
<1>3. Script(frame) = s \o <<"finish">>
  BY DEF Script, s
<1>4. /\ s \o <<"finish">> \in Seq(Steps)
      /\ Len(s \o <<"finish">>) = Len(s) + 1
      /\ (s \o <<"finish">>)[Len(s) + 1] = "finish"
      /\ \A k \in 1 .. Len(s) : (s \o <<"finish">>)[k] = s[k]
  BY <1>1, <1>2, SeqCat
<1>5. s \o <<"finish">> # <<>>
  BY <1>1, <1>4
<1>6. EndsInFinish(s \o <<"finish">>)
  BY <1>1, <1>4 DEF EndsInFinish, Without
<1>7. OneHalf(s \o <<"finish">>)
  BY <1>1, <1>2, OneHalfCat
<1> QED
  BY <1>3, <1>4, <1>5, <1>6, <1>7

(* A step that is not "finish" is followed by others.                      *)
LEMMA TailProps ==
    ASSUME NEW s \in Seq(Steps), s # <<>>, EndsInFinish(s), OneHalf(s)
    PROVE  /\ Tail(s) \in Seq(Steps) /\ EndsInFinish(Tail(s)) /\ OneHalf(Tail(s))
           /\ Head(s) = "half" => Without(Tail(s), {"half"})
           /\ ~ Without(Tail(s), {"half"}) => ~ Without(s, {"half"})
           /\ Head(s) # "finish" => Tail(s) # <<>>
           /\ Head(s) = "finish" => Tail(s) = <<>>
<1>1. /\ Len(s) \in Nat /\ Len(s) > 0 /\ Head(s) = s[1]
      /\ Tail(s) \in Seq(Steps) /\ Len(Tail(s)) = Len(s) - 1
      /\ \A k \in 1 .. Len(Tail(s)) : Tail(s)[k] = s[k + 1]
      /\ DOMAIN s = 1 .. Len(s) /\ DOMAIN Tail(s) = 1 .. Len(Tail(s))
  OBVIOUS
<1>2. EndsInFinish(Tail(s))
  BY <1>1 DEF EndsInFinish
<1>3. OneHalf(Tail(s))
  BY <1>1 DEF OneHalf
<1>4. Head(s) = "half" => Without(Tail(s), {"half"})
  BY <1>1 DEF OneHalf, Without
<1>5. ~ Without(Tail(s), {"half"}) => ~ Without(s, {"half"})
  BY <1>1 DEF Without
<1>6. Head(s) # "finish" => Tail(s) # <<>>
  <2>1. Head(s) # "finish" => Len(Tail(s)) # 0
    BY <1>1 DEF EndsInFinish
  <2>2. Tail(s) = <<>> => Len(Tail(s)) = 0
    BY <1>1, EmptySeq
  <2> QED
    BY <2>1, <2>2
<1>7. Head(s) = "finish" => Tail(s) = <<>>
  <2>1. Head(s) = "finish" => Len(Tail(s)) = 0
    BY <1>1 DEF EndsInFinish
  <2>2. Len(Tail(s)) = 0 => Tail(s) = <<>>
    BY <1>1, EmptySeq
  <2> QED
    BY <2>1, <2>2
<1> QED
  BY <1>1, <1>2, <1>3, <1>4, <1>5, <1>6, <1>7

(* The same when other steps are put before the rest.                      *)
LEMMA PutBefore ==
    ASSUME NEW s \in Seq(Steps), s # <<>>, EndsInFinish(s), OneHalf(s),
           NEW t \in {<<"zero">>, <<"level">>, <<"decode", "add">>}
    PROVE  /\ t \o s \in Seq(Steps) /\ t \o s # <<>>
           /\ EndsInFinish(t \o s) /\ OneHalf(t \o s)
           /\ ~ Without(t \o s, {"half"}) => ~ Without(s, {"half"})
<1>1. /\ t \in Seq(Steps) /\ Without(t, {"finish", "half"})
  <2>1. \A x \in {"zero", "level"} :
           <<x>> \in Seq(Steps) /\ Without(<<x>>, {"finish", "half"})
    BY DEF Steps, Without
  <2>2. /\ <<"decode", "add">> \in Seq(Steps)
        /\ Without(<<"decode", "add">>, {"finish", "half"})
    BY DEF Steps, Without
  <2> QED
    BY <2>1, <2>2
<1>2. Without(t, {"half"}) /\ Without(t, {"finish"})
  BY <1>1 DEF Without
<1>3. OneHalf(t \o s)
  BY <1>1, <1>2, OneHalfCat
<1>4. /\ t \o s \in Seq(Steps) /\ Len(t \o s) = Len(t) + Len(s)
      /\ Len(s) \in Nat /\ Len(s) > 0 /\ Len(t) \in Nat
  BY <1>1, SeqCat
<1>5. EndsInFinish(t \o s)
  BY <1>1, <1>2, <1>4, SeqCat DEF EndsInFinish, Without
<1>6. ~ Without(t \o s, {"half"}) => ~ Without(s, {"half"})
  BY <1>1, <1>2, WithoutCat
<1> QED
  BY <1>3, <1>4, <1>5, <1>6

-----------------------------------------------------------------------------
(* The inductive invariant of the plane.                                   *)

Located == [place : Places, ts : Nat \ {0}]

Half == [kind : STRING, place : Places, ts : Nat \ {0}] \union {NoHalf}

Framed == [kind : STRING, place : Places, odd : BOOLEAN, status : STRING,
           has : SUBSET FieldNames, ts : Nat]

Work == [frame : Framed \union {NoHalf}, todo : Seq(Steps), changed : BOOLEAN,
         ground : BOOLEAN, loc : Located \union {NoPlace}]

PlaneType ==
    plane \in [lastSeen : Nat, count : Nat, onGround : BOOLEAN, tile : Int,
               fields : [FieldNames -> [val : Int, ts : Int]],
               even : Half, odd : Half, ref : Int,
               loc : Located \union {NoPlace}, finished : BOOLEAN,
               history : Seq(Located)]

InScript(w) == work[w].todo # <<>>

(* A worker in a script has a frame of its own, and "finish" before it.    *)
ScriptsSound ==
    /\ received \in Nat /\ pending \in BOOLEAN
    /\ work \in [Workers -> Work]
    /\ \A w \in Workers : InScript(w) =>
          /\ work[w].frame \in Framed /\ work[w].frame.ts \in 1 .. received
          /\ EndsInFinish(work[w].todo) /\ OneHalf(work[w].todo)
    /\ \A v, w \in Workers :
          InScript(v) /\ InScript(w) /\ work[v].frame.ts = work[w].frame.ts => v = w

(* A half that is still to be set is of a frame that is in no position.    *)
HalvesApart ==
    /\ used \subseteq 1 .. received
    /\ plane.even.ts \in 0 .. received /\ plane.odd.ts \in 0 .. received
    /\ plane.even.ts \notin used /\ plane.odd.ts \notin used
    /\ \A w \in Workers : ~ Without(work[w].todo, {"half"}) =>
          work[w].frame.ts \notin used \union {plane.even.ts, plane.odd.ts}

(* An event is owed only while a worker that knows of it is under way.     *)
PendingKnown ==
    pending => /\ plane.count > Viable
               /\ \E w \in Workers : InScript(w) /\ work[w].changed

(* What the velocity check compares with is one place of the history.      *)
LocIsLast ==
    plane.history # <<>> => plane.loc = plane.history[Len(plane.history)]

PInv == PlaneType /\ ScriptsSound /\ HalvesApart /\ PendingKnown /\ LocIsLast

-----------------------------------------------------------------------------
(* What the definitions of the steps compute.                              *)

(* A set of numbers has a least one: what CHOOSE in Reference looks for.   *)
LEMMA LeastExists ==
    ASSUME NEW S \in SUBSET Nat, S # {}
    PROVE  \E i \in S : \A j \in S : i <= j
<1>1. PICK i \in S : \A j \in S : <<j, i>> \notin OpToRel(<, Nat)
  BY NatLessThanWellFounded, WFMin
<1>2. \A j \in S : ~ (j < i)
  BY <1>1 DEF OpToRel
<1> QED
  BY <1>2

LEMMA ReferenceType ==
    ASSUME PlaneType
    PROVE  Reference \in Int
<1>1. Ref \in Int /\ 0 \in Int /\ Places \subseteq Int
  BY PlaneAssumption
<1>2. CASE Recent # {}
  <2>1. Recent \subseteq 1 .. Len(plane.history) /\ plane.history \in Seq(Located)
    BY DEF Recent, PlaneType
  <2>2. \E i \in Recent : \A j \in Recent : i <= j
    BY <1>2, <2>1, LeastExists
  <2> DEFINE first == CHOOSE i \in Recent : \A j \in Recent : i <= j
  <2>3. first \in Recent
    BY <2>2
  <2> HIDE DEF first
  <2>4. plane.history[first] \in Located
    BY <2>1, <2>3
  <2>5. plane.history[first].place \in Places
    BY <2>4 DEF Located
  <2> QED
    BY <1>1, <1>2, <2>5 DEF Reference, first
<1> QED
  BY <1>1, <1>2 DEF Reference

(* A position is decoded of halves that are there, or not at all.          *)
LEMMA DecodingsType ==
    ASSUME NEW e \in Half, NEW o \in Half, NEW ground \in BOOLEAN
    PROVE  Decodings(e, o, ground) \subseteq Located \union {NoPlace}
<1>1. CASE e = NoHalf \/ o = NoHalf
  BY <1>1 DEF Decodings
<1>2. CASE e # NoHalf /\ o # NoHalf
  <2>1. /\ e.place \in Places /\ e.ts \in Nat \ {0}
        /\ o.place \in Places /\ o.ts \in Nat \ {0}
    BY <1>2 DEF Half
  <2>2. /\ Older(e, o).place \in Places /\ Older(e, o).ts \in Nat \ {0}
    BY <2>1 DEF Older
  <2> DEFINE old == [place |-> Older(e, o).place, ts |-> Older(e, o).ts]
             any == {[place |-> p, ts |-> Older(e, o).ts] : p \in Places}
  <2>3. old \in Located /\ any \subseteq Located
    BY <2>2 DEF Located
  <2>4. Decodings(e, o, ground) \in {{NoPlace}, {old}, {NoPlace} \union any}
    BY Zenon DEF Decodings
  <2> HIDE DEF old, any
  <2> QED
    BY <2>3, <2>4
<1> QED
  BY <1>1, <1>2

(* The rest of a script.                                                   *)
Rest(s, t) ==
    /\ t \in Seq(Steps) /\ t # <<>> /\ EndsInFinish(t) /\ OneHalf(t)
    /\ ~ Without(t, {"half"}) => ~ Without(s, {"half"})

LEMMA DoneProps ==
    ASSUME ScriptsSound, NEW w \in Workers, InScript(w), Head(work[w].todo) # "finish"
    PROVE  /\ Done(w) \in Work
           /\ Done(w).todo = Tail(work[w].todo)
           /\ Done(w).frame = work[w].frame /\ Done(w).changed = work[w].changed
           /\ Rest(work[w].todo, Done(w).todo)
<1>1. /\ work[w] \in Work /\ work[w].todo \in Seq(Steps) /\ work[w].todo # <<>>
      /\ EndsInFinish(work[w].todo) /\ OneHalf(work[w].todo)
  BY DEF ScriptsSound, InScript, Work
<1>2. /\ Tail(work[w].todo) \in Seq(Steps) /\ EndsInFinish(Tail(work[w].todo))
      /\ OneHalf(Tail(work[w].todo)) /\ Tail(work[w].todo) # <<>>
      /\ ~ Without(Tail(work[w].todo), {"half"})
            => ~ Without(work[w].todo, {"half"})
  BY <1>1, TailProps
<1> QED
  BY <1>1, <1>2 DEF Done, Work, Rest

(* A step within the script of w: the other workers' scripts stand.        *)
LEMMA ScriptStep ==
    ASSUME ScriptsSound, NEW w \in Workers, InScript(w),
           NEW r \in Work, r.frame = work[w].frame, Rest(work[w].todo, r.todo),
           work' = [work EXCEPT ![w] = r], received' = received, pending' \in BOOLEAN
    PROVE  /\ ScriptsSound'
           /\ \A v \in Workers :
                 /\ work'[v].frame = work[v].frame
                 /\ InScript(v)' <=> InScript(v)
                 /\ ~ Without(work'[v].todo, {"half"}) => ~ Without(work[v].todo, {"half"})
<1>1. work'[w] = r /\ \A v \in Workers \ {w} : work'[v] = work[v]
  BY DEF ScriptsSound
<1>2. \A v \in Workers :
         /\ work'[v].frame = work[v].frame
         /\ InScript(v)' <=> InScript(v)
         /\ ~ Without(work'[v].todo, {"half"}) => ~ Without(work[v].todo, {"half"})
  BY <1>1 DEF InScript, Rest
<1>3. work' \in [Workers -> Work]
  BY <1>1 DEF ScriptsSound
<1>4. \A v \in Workers : InScript(v)' =>
         /\ work'[v].frame \in Framed /\ work'[v].frame.ts \in 1 .. received
         /\ EndsInFinish(work'[v].todo) /\ OneHalf(work'[v].todo)
  BY <1>1, <1>2 DEF ScriptsSound, Rest
<1> QED
  BY <1>2, <1>3, <1>4 DEF ScriptsSound

(* A half still to be set is in a script, of a frame with a number.        *)
LEMMA HalfInScript ==
    ASSUME ScriptsSound, NEW w \in Workers, ~ Without(work[w].todo, {"half"})
    PROVE  InScript(w) /\ work[w].frame.ts # 0
<1>1. InScript(w)
  BY DEF InScript, Without
<1> QED
  BY <1>1 DEF ScriptsSound

(* A setter: the handler remembers a change that an event is owed for.     *)
LEMMA SetterStep ==
    ASSUME PInv, NEW w \in Workers, InScript(w),
           NEW r \in Work, r.frame = work[w].frame, r.changed = work[w].changed,
           Rest(work[w].todo, r.todo), NEW c \in BOOLEAN, Changed(w, r, c),
           received' = received, used' = used,
           PlaneType', plane'.count = plane.count, LocIsLast',
           plane'.even \in {plane.even, NoHalf}, plane'.odd \in {plane.odd, NoHalf}
    PROVE  PInv'
<1> DEFINE q == [r EXCEPT !.changed = @ \/ c]
<1>1. /\ q \in Work /\ q.frame = r.frame /\ q.todo = r.todo
      /\ q.changed = (work[w].changed \/ c)
      /\ work[w].changed \in BOOLEAN
  BY DEF Work, PInv, ScriptsSound
<1>2. /\ work' = [work EXCEPT ![w] = q]
      /\ pending' = (pending \/ (c /\ plane.count > Viable))
  BY DEF Changed
<1> HIDE DEF q
<1>3. pending' \in BOOLEAN /\ ScriptsSound
  BY <1>2 DEF PInv, ScriptsSound
<1>4. /\ ScriptsSound'
      /\ \A v \in Workers :
            /\ work'[v].frame = work[v].frame
            /\ InScript(v)' <=> InScript(v)
            /\ ~ Without(work'[v].todo, {"half"}) => ~ Without(work[v].todo, {"half"})
  BY <1>1, <1>2, <1>3, ScriptStep
<1>5. HalvesApart'
  <2>1. /\ plane'.even.ts \in {plane.even.ts, 0} /\ plane'.odd.ts \in {plane.odd.ts, 0}
        /\ 0 \notin used
    BY DEF PInv, HalvesApart, ScriptsSound, NoHalf
  <2>2. ASSUME NEW v \in Workers, ~ Without(work'[v].todo, {"half"})
        PROVE  /\ work'[v].frame.ts # 0
               /\ work'[v].frame.ts \notin used \union {plane.even.ts, plane.odd.ts}
    BY <1>4, <2>2, HalfInScript DEF PInv, HalvesApart, ScriptsSound
  <2> QED
    BY <1>4, <2>1, <2>2 DEF PInv, HalvesApart, ScriptsSound
<1>6. PendingKnown'
  <2>1. work'[w].changed = (work[w].changed \/ c)
        /\ \A v \in Workers \ {w} : work'[v] = work[v]
    BY <1>1, <1>2 DEF PInv, ScriptsSound
  <2> QED
    BY <1>2, <1>4, <2>1 DEF PInv, PendingKnown
<1> QED
  BY <1>4, <1>5, <1>6 DEF PInv

(* A step that reports nothing is one that reports no change.              *)
LEMMA Unreported ==
    ASSUME NEW w \in Workers, NEW r \in Work,
           work' = [work EXCEPT ![w] = r], pending' = pending, pending \in BOOLEAN
    PROVE  Changed(w, r, FALSE)
<1>1. [r EXCEPT !.changed = @ \/ FALSE] = r
  BY DEF Work
<1> QED
  BY <1>1 DEF Changed

-----------------------------------------------------------------------------
(* Each action preserves the invariant.                                    *)

LEMMA PutStep ==
    ASSUME PInv, NEW w \in Workers, NEW f \in FieldNames, NEW c \in BOOLEAN,
           Put(w, f, c)
    PROVE  PInv'
<1>1. InScript(w) /\ Head(work[w].todo) # "finish" /\ received' = received /\ used' = used
  BY DEF Put, At, InScript, FieldNames
<1>2. work[w].frame.place \in Int /\ work[w].frame.ts \in Int
  <2>1. work[w].frame \in Framed
    BY <1>1 DEF PInv, ScriptsSound
  <2>2. Places \subseteq Int
    BY PlaneAssumption
  <2>3. work[w].frame.place \in Places /\ work[w].frame.ts \in Nat
    BY <2>1 DEF Framed
  <2>4. work[w].frame.place \in Int
    BY <2>2, <2>3, Zenon
  <2>5. work[w].frame.ts \in Int
    BY <2>3
  <2> QED
    BY <2>4, <2>5
<1>3. /\ Done(w) \in Work /\ Done(w).frame = work[w].frame
      /\ Done(w).changed = work[w].changed /\ Rest(work[w].todo, Done(w).todo)
  BY <1>1, DoneProps DEF PInv
<1>4. /\ plane' = [plane EXCEPT !.fields[f] = [val |-> work[w].frame.place,
                                               ts |-> work[w].frame.ts]]
      /\ Changed(w, Done(w), c)
  BY DEF Put
<1>5. PlaneType'
  BY <1>2, <1>4 DEF PInv, PlaneType
<1>6. /\ plane'.count = plane.count /\ plane'.even = plane.even
      /\ plane'.odd = plane.odd /\ plane'.loc = plane.loc
      /\ plane'.history = plane.history
  BY <1>4 DEF PInv, PlaneType
<1>7. LocIsLast'
  BY <1>6 DEF PInv, LocIsLast
<1> QED
  BY <1>1, <1>3, <1>4, <1>5, <1>6, <1>7, SetterStep

LEMMA SetStep ==
    ASSUME PInv, NEW w \in Workers,
           \/ setSpecial(w) \/ setAltitude(w) \/ setFlightStatus(w) \/ setFlightNumber(w)
           \/ setSquawkIdentity(w) \/ setAirFrameCategory(w) \/ setHeading(w)
           \/ setVelocity(w) \/ setVerticalRate(w) \/ setNav(w) \/ setRegistration(w)
           \/ setAirFrameWidthLength(w)
    PROVE  PInv'
<1>1. PICK f \in FieldNames, c \in BOOLEAN : Put(w, f, c)
  BY DEF setSpecial, setAltitude, setFlightStatus, setFlightNumber, setSquawkIdentity,
         setAirFrameCategory, setHeading, setVelocity, setVerticalRate, setNav,
         setRegistration, setAirFrameWidthLength, Differs, FieldNames
<1> QED
  BY <1>1, PutStep

(* Steps put before the rest of the script.                                *)
LEMMA BeforeDone ==
    ASSUME PInv, NEW w \in Workers, InScript(w), Head(work[w].todo) # "finish",
           NEW t \in {<<"zero">>, <<"level">>, <<"decode", "add">>},
           NEW d \in Work, d.frame = work[w].frame, d.changed = work[w].changed,
           d.todo = Done(w).todo
    PROVE  LET r == [d EXCEPT !.todo = t \o @]
           IN  /\ r \in Work /\ r.frame = work[w].frame
               /\ r.changed = work[w].changed /\ Rest(work[w].todo, r.todo)
<1>1. /\ Done(w) \in Work /\ Done(w).frame = work[w].frame
      /\ Done(w).changed = work[w].changed /\ Rest(work[w].todo, Done(w).todo)
  BY DoneProps DEF PInv
<1>2. Rest(work[w].todo, t \o Done(w).todo) /\ t \o Done(w).todo \in Seq(Steps)
  BY <1>1, PutBefore DEF Rest
<1> QED
  BY <1>1, <1>2 DEF Work

LEMMA CheckStep ==
    ASSUME PInv, NEW w \in Workers, CheckGround(w)
    PROVE  PInv'
<1>1. InScript(w) /\ Head(work[w].todo) # "finish"
  BY DEF CheckGround, At, InScript
<1>2. /\ UNCHANGED <<plane, received, pending, used>> /\ pending \in BOOLEAN
  BY DEF CheckGround, PInv, ScriptsSound
<1>3. PICK r \in Work : /\ r.frame = work[w].frame /\ r.changed = work[w].changed
                        /\ Rest(work[w].todo, r.todo)
                        /\ work' = [work EXCEPT ![w] = r]
  <2>1. /\ Done(w) \in Work /\ Done(w).frame = work[w].frame
        /\ Done(w).changed = work[w].changed /\ Rest(work[w].todo, Done(w).todo)
    BY <1>1, DoneProps DEF PInv
  <2>2. CASE plane.onGround # (work[w].frame.kind = "surface")
    <3> DEFINE r == [Done(w) EXCEPT !.todo = <<"zero">> \o @]
    <3>1. work' = [work EXCEPT ![w] = r]
      BY <2>1, <2>2 DEF CheckGround
    <3>2. /\ r \in Work /\ r.frame = work[w].frame
          /\ r.changed = work[w].changed /\ Rest(work[w].todo, r.todo)
      BY <1>1, <2>1, BeforeDone
    <3> QED
      BY <3>1, <3>2
  <2>3. CASE plane.onGround = (work[w].frame.kind = "surface")
    <3>1. [Done(w) EXCEPT !.todo = @] = Done(w)
      BY <2>1 DEF Work
    <3> QED
      BY <2>1, <2>3, <3>1 DEF CheckGround
  <2> QED
    BY <2>2, <2>3
<1>4. Changed(w, r, FALSE)
  BY <1>2, <1>3, Unreported
<1>5. PlaneType' /\ LocIsLast'
  BY <1>2 DEF PInv, PlaneType, LocIsLast
<1> QED
  BY <1>1, <1>2, <1>3, <1>4, <1>5, SetterStep

LEMMA ZeroStep ==
    ASSUME PInv, NEW w \in Workers, ZeroCpr(w)
    PROVE  PInv'
<1>1. /\ InScript(w) /\ Head(work[w].todo) # "finish"
      /\ UNCHANGED <<received, pending, used>> /\ pending \in BOOLEAN
      /\ work' = [work EXCEPT ![w] = Done(w)]
  BY DEF ZeroCpr, At, InScript, PInv, ScriptsSound
<1>2. /\ Done(w) \in Work /\ Done(w).frame = work[w].frame
      /\ Done(w).changed = work[w].changed /\ Rest(work[w].todo, Done(w).todo)
  BY <1>1, DoneProps DEF PInv
<1>3. Changed(w, Done(w), FALSE)
  BY <1>1, <1>2, Unreported
<1>4. plane' = [plane EXCEPT !.even = NoHalf, !.odd = NoHalf]
  BY DEF ZeroCpr
<1>5. PlaneType' /\ plane'.count = plane.count /\ plane'.loc = plane.loc
      /\ plane'.history = plane.history /\ plane'.even = NoHalf /\ plane'.odd = NoHalf
  BY <1>4 DEF PInv, PlaneType, Half
<1>6. LocIsLast'
  BY <1>5 DEF PInv, LocIsLast
<1> QED
  BY <1>1, <1>2, <1>3, <1>5, <1>6, SetterStep

LEMMA GroundStep ==
    ASSUME PInv, NEW w \in Workers, SetGround(w)
    PROVE  PInv'
<1>1. /\ InScript(w) /\ Head(work[w].todo) # "finish"
      /\ UNCHANGED <<received, used>> /\ pending \in BOOLEAN
  BY DEF SetGround, At, InScript, PInv, ScriptsSound
<1>2. /\ Done(w) \in Work /\ Done(w).frame = work[w].frame
      /\ Done(w).changed = work[w].changed /\ Rest(work[w].todo, Done(w).todo)
  BY <1>1, DoneProps DEF PInv
<1>3. CASE Says(work[w].frame) = "unknown"
  <2>1. Changed(w, Done(w), FALSE) /\ plane' = plane
    BY <1>1, <1>2, <1>3, Unreported DEF SetGround
  <2>2. PlaneType' /\ LocIsLast'
    BY <2>1 DEF PInv, PlaneType, LocIsLast
  <2> QED
    BY <1>1, <1>2, <2>1, <2>2, SetterStep
<1>4. CASE Says(work[w].frame) # "unknown"
  <2> DEFINE g == Says(work[w].frame) = "ground"
             r == IF g THEN [Done(w) EXCEPT !.todo = <<"level">> \o @] ELSE Done(w)
  <2>1. plane' = [plane EXCEPT !.onGround = g] /\ Changed(w, r, plane.onGround # g)
    BY <1>4 DEF SetGround
  <2>2. r \in Work /\ r.frame = work[w].frame /\ r.changed = work[w].changed
        /\ Rest(work[w].todo, r.todo)
    BY <1>1, <1>2, BeforeDone
  <2>3. g \in BOOLEAN
    OBVIOUS
  <2> HIDE DEF g, r
  <2>4. PlaneType' /\ plane'.count = plane.count /\ plane'.loc = plane.loc
        /\ plane'.history = plane.history /\ plane'.even = plane.even
        /\ plane'.odd = plane.odd
    BY <2>1, <2>3 DEF PInv, PlaneType
  <2>5. LocIsLast'
    BY <2>4 DEF PInv, LocIsLast
  <2> QED
    BY <1>1, <2>1, <2>2, <2>4, <2>5, SetterStep
<1> QED
  BY <1>3, <1>4

LEMMA LevelStep ==
    ASSUME PInv, NEW w \in Workers, SetLevel(w)
    PROVE  PInv'
<1>1. /\ InScript(w) /\ Head(work[w].todo) # "finish"
      /\ UNCHANGED <<received, pending, used>> /\ pending \in BOOLEAN
      /\ work' = [work EXCEPT ![w] = Done(w)]
  BY DEF SetLevel, At, InScript, PInv, ScriptsSound
<1>2. /\ Done(w) \in Work /\ Done(w).frame = work[w].frame
      /\ Done(w).changed = work[w].changed /\ Rest(work[w].todo, Done(w).todo)
  BY <1>1, DoneProps DEF PInv
<1>3. Changed(w, Done(w), FALSE)
  BY <1>1, <1>2, Unreported
<1>4. plane' = [plane EXCEPT !.fields["Rate"] = [val |-> 0, ts |-> work[w].frame.ts]]
      /\ work[w].frame.ts \in Int
  BY <1>1 DEF SetLevel, PInv, ScriptsSound
<1>5. PlaneType' /\ plane'.count = plane.count /\ plane'.loc = plane.loc
      /\ plane'.history = plane.history /\ plane'.even = plane.even
      /\ plane'.odd = plane.odd
  <2>1. PICK f \in FieldNames :
           plane' = [plane EXCEPT !.fields[f] = [val |-> 0, ts |-> work[w].frame.ts]]
    BY <1>4 DEF FieldNames
  <2> DEFINE u == [val |-> 0, ts |-> work[w].frame.ts]
  <2>2. u \in [val : Int, ts : Int]
    BY <1>4
  <2> HIDE DEF u
  <2> QED
    BY <2>1, <2>2 DEF PInv, PlaneType, u
<1>6. LocIsLast'
  BY <1>5 DEF PInv, LocIsLast
<1> QED
  BY <1>1, <1>2, <1>3, <1>5, <1>6, SetterStep

(* SetEvenLocation, SetOddLocation: the one half of the frame is set, and  *)
(* no script holds another half of the same frame.                         *)
LEMMA HalfStep ==
    ASSUME PInv, NEW w \in Workers, SetHalf(w)
    PROVE  PInv'
<1>1. /\ InScript(w) /\ Head(work[w].todo) = "half"
      /\ UNCHANGED <<received, pending, used>> /\ pending \in BOOLEAN
      /\ work' = [work EXCEPT ![w] = Done(w)]
      /\ ScriptsSound
  BY DEF SetHalf, At, InScript, PInv, ScriptsSound
<1>2. /\ Done(w) \in Work /\ Done(w).frame = work[w].frame
      /\ Done(w).changed = work[w].changed /\ Done(w).todo = Tail(work[w].todo)
      /\ Rest(work[w].todo, Done(w).todo)
  BY <1>1, DoneProps
<1>3. /\ ScriptsSound'
      /\ \A v \in Workers :
            /\ work'[v].frame = work[v].frame
            /\ InScript(v)' <=> InScript(v)
            /\ ~ Without(work'[v].todo, {"half"}) => ~ Without(work[v].todo, {"half"})
  BY <1>1, <1>2, ScriptStep
<1>4. /\ work'[w] = Done(w) /\ \A v \in Workers \ {w} : work'[v] = work[v]
  BY <1>1 DEF ScriptsSound
<1>5. Without(work'[w].todo, {"half"}) /\ ~ Without(work[w].todo, {"half"})
  <2>1. /\ work[w].todo \in Seq(Steps) /\ work[w].todo # <<>>
        /\ EndsInFinish(work[w].todo) /\ OneHalf(work[w].todo)
    BY <1>1 DEF ScriptsSound, InScript, Work
  <2>2. 1 \in DOMAIN work[w].todo /\ work[w].todo[1] = "half"
    BY <1>1, <2>1
  <2>3. ~ Without(work[w].todo, {"half"})
    BY <2>2 DEF Without
  <2>4. Without(Tail(work[w].todo), {"half"})
    BY <1>1, <2>1, TailProps
  <2>5. work'[w].todo = Tail(work[w].todo)
    BY <1>2, <1>4
  <2> QED
    BY <2>3, <2>4, <2>5
<1> DEFINE f == work[w].frame
           h == [kind |-> f.kind, place |-> f.place, ts |-> f.ts]
<1>6. h \in Half /\ h.ts \in 1 .. received /\ h.ts \notin used /\ h.ts = f.ts
  <2>1. f \in Framed /\ f.ts \in 1 .. received /\ f.ts \notin used
    BY <1>1, <1>5 DEF ScriptsSound, PInv, HalvesApart
  <2>2. f.ts \in Nat \ {0}
    BY <1>1, <2>1 DEF ScriptsSound
  <2> QED
    BY <2>1, <2>2 DEF Half, Framed
<1>7. plane' = [plane EXCEPT !.odd = h] \/ plane' = [plane EXCEPT !.even = h]
  BY DEF SetHalf
<1> HIDE DEF h
<1>8. /\ PlaneType' /\ plane'.count = plane.count /\ plane'.loc = plane.loc
      /\ plane'.history = plane.history
      /\ plane'.even \in {plane.even, h} /\ plane'.odd \in {plane.odd, h}
  BY <1>6, <1>7 DEF PInv, PlaneType
<1>9. HalvesApart'
  <2>1. /\ plane'.even.ts \in {plane.even.ts, f.ts}
        /\ plane'.odd.ts \in {plane.odd.ts, f.ts}
    BY <1>6, <1>8
  <2>2. ASSUME NEW v \in Workers, ~ Without(work'[v].todo, {"half"})
        PROVE  /\ work'[v].frame.ts # f.ts
               /\ work'[v].frame.ts \notin used \union {plane.even.ts, plane.odd.ts}
    <3>1. v # w /\ ~ Without(work[v].todo, {"half"})
      BY <1>3, <1>5, <2>2
    <3>2. InScript(v)
      BY <1>1, <3>1, HalfInScript
    <3> QED
      BY <1>1, <1>3, <3>1, <3>2 DEF PInv, HalvesApart, ScriptsSound
  <2> QED
    BY <1>1, <1>6, <2>1, <2>2, SMTT(30) DEF PInv, HalvesApart
<1>10. PendingKnown' /\ LocIsLast'
  BY <1>1, <1>2, <1>3, <1>4, <1>8 DEF PInv, PendingKnown, LocIsLast
<1> QED
  BY <1>3, <1>8, <1>9, <1>10 DEF PInv

LEMMA CprStep ==
    ASSUME PInv, NEW w \in Workers, DecodeCpr(w)
    PROVE  PInv'
<1>1. /\ InScript(w) /\ Head(work[w].todo) # "finish"
      /\ UNCHANGED <<received, used>> /\ Reference \in Int
  BY ReferenceType DEF DecodeCpr, At, InScript, PInv
<1>2. /\ Done(w) \in Work /\ Done(w).frame = work[w].frame
      /\ Done(w).changed = work[w].changed /\ Rest(work[w].todo, Done(w).todo)
  BY <1>1, DoneProps DEF PInv
<1> DEFINE d == [Done(w) EXCEPT !.ground = plane.onGround]
<1>3. d \in Work /\ d.frame = work[w].frame /\ d.changed = work[w].changed
      /\ d.todo = Done(w).todo
  BY <1>2 DEF Work, PInv, PlaneType
<1>4. PICK r \in {d, [d EXCEPT !.todo = <<"decode", "add">> \o @]}, c \in BOOLEAN :
         Changed(w, r, c)
  <2> DEFINE skip == work[w].frame.kind = "surface" /\ Reference = 0
             both == plane.even # NoHalf /\ plane.odd # NoHalf
             r == [Done(w) EXCEPT !.ground = plane.onGround,
                         !.todo = IF ~skip /\ both THEN <<"decode", "add">> \o @ ELSE @]
  <2>1. Changed(w, r, skip \/ ~both)
    BY DEF DecodeCpr
  <2>2. ~ (~skip /\ both) => r = [d EXCEPT !.todo = @]
    BY <1>2 DEF Work
  <2>3. [d EXCEPT !.todo = @] = d
    BY <1>3 DEF Work
  <2>4. ~skip /\ both => r = [d EXCEPT !.todo = <<"decode", "add">> \o @]
    BY <1>2 DEF Work
  <2> HIDE DEF r, skip, both, d
  <2> QED
    BY <2>1, <2>2, <2>3, <2>4 DEF skip, both
<1>5. r \in Work /\ r.frame = work[w].frame /\ r.changed = work[w].changed
      /\ Rest(work[w].todo, r.todo)
  <2> HIDE DEF d
  <2>1. CASE r = d
    BY <1>2, <1>3, <2>1
  <2>2. CASE r = [d EXCEPT !.todo = <<"decode", "add">> \o @]
    <3> DEFINE t == <<"decode", "add">>
    <3>1. t \in {<<"zero">>, <<"level">>, <<"decode", "add">>}
      OBVIOUS
    <3>2. r = [d EXCEPT !.todo = t \o @]
      BY <2>2
    <3> HIDE DEF t
    <3> QED
      <4>1. LET s == [d EXCEPT !.todo = t \o @]
            IN  /\ s \in Work /\ s.frame = work[w].frame
                /\ s.changed = work[w].changed /\ Rest(work[w].todo, s.todo)
        BY <1>1, <1>3, <3>1, BeforeDone, ZenonT(60)
      <4> QED
        BY <3>2, <4>1
  <2> QED
    BY <1>4, <2>1, <2>2
<1>6. PICK x \in Int : plane' = plane \/ plane' = [plane EXCEPT !.ref = x]
  BY <1>1 DEF DecodeCpr
<1>7. /\ PlaneType' /\ plane'.count = plane.count /\ plane'.loc = plane.loc
      /\ plane'.history = plane.history /\ plane'.even = plane.even
      /\ plane'.odd = plane.odd
  BY <1>6 DEF PInv, PlaneType
<1>8. LocIsLast'
  BY <1>7 DEF PInv, LocIsLast
<1> QED
  BY <1>1, <1>4, <1>5, <1>7, <1>8, SetterStep

(* decode: the halves that make a position are dropped with it, under the  *)
(* lock of the CprLocation.                                                *)
LEMMA DecodeStep ==
    ASSUME PInv, NEW w \in Workers, Decode(w)
    PROVE  PInv'
<1>1. /\ InScript(w) /\ Head(work[w].todo) # "finish"
      /\ UNCHANGED <<received, pending>> /\ pending \in BOOLEAN
      /\ ScriptsSound
  BY DEF Decode, At, InScript, PInv, ScriptsSound
<1>2. /\ Done(w) \in Work /\ Done(w).frame = work[w].frame
      /\ Done(w).changed = work[w].changed /\ Rest(work[w].todo, Done(w).todo)
  BY <1>1, DoneProps
<1>3. \A loc \in Located \union {NoPlace} :
         LET r == [Done(w) EXCEPT !.loc = loc]
         IN  /\ r \in Work /\ r.frame = work[w].frame
             /\ r.changed = work[w].changed /\ Rest(work[w].todo, r.todo)
  BY <1>2 DEF Work
<1>4. CASE work[w].ground /\ plane.ref = 0
  <2>1. work' = [work EXCEPT ![w] = [Done(w) EXCEPT !.loc = NoPlace]]
        /\ UNCHANGED <<plane, used>>
    BY <1>4 DEF Decode
  <2>2. PlaneType' /\ LocIsLast'
    BY <2>1 DEF PInv, PlaneType, LocIsLast
  <2>3. Changed(w, [Done(w) EXCEPT !.loc = NoPlace], FALSE)
    BY <1>1, <1>3, <2>1, Unreported
  <2> QED
    BY <1>1, <1>3, <2>1, <2>2, <2>3, SetterStep
<1>5. CASE ~ (work[w].ground /\ plane.ref = 0)
  <2>1. PICK loc \in Decodings(plane.even, plane.odd, work[w].ground) :
          /\ work' = [work EXCEPT ![w] = [Done(w) EXCEPT !.loc = loc]]
          /\ plane' = DropHalves(plane)
          /\ used' = IF loc = NoPlace THEN used
                     ELSE used \cup ({plane.even.ts, plane.odd.ts} \ {0})
    BY <1>5 DEF Decode
  <2>2. loc \in Located \union {NoPlace}
    <3>1. plane.even \in Half /\ plane.odd \in Half /\ work[w].ground \in BOOLEAN
      BY DEF PInv, PlaneType, ScriptsSound, Work
    <3> QED
      BY <2>1, <3>1, DecodingsType
  <2> DEFINE r == [Done(w) EXCEPT !.loc = loc]
  <2>3. /\ r \in Work /\ r.frame = work[w].frame
        /\ r.changed = work[w].changed /\ Rest(work[w].todo, r.todo)
        /\ work' = [work EXCEPT ![w] = r]
    BY <1>3, <2>1, <2>2
  <2> HIDE DEF r
  <2>4. /\ ScriptsSound'
        /\ \A v \in Workers :
              /\ work'[v].frame = work[v].frame
              /\ InScript(v)' <=> InScript(v)
              /\ ~ Without(work'[v].todo, {"half"})
                    => ~ Without(work[v].todo, {"half"})
    BY <1>1, <2>3, ScriptStep
  <2>5. /\ PlaneType' /\ plane'.count = plane.count /\ plane'.loc = plane.loc
        /\ plane'.history = plane.history /\ plane'.even = NoHalf
        /\ plane'.odd = NoHalf
    BY <2>1 DEF PInv, PlaneType, Half, DropHalves
  <2>6. HalvesApart'
    <3>1. /\ plane'.even.ts = 0 /\ plane'.odd.ts = 0 /\ received \in Nat
      BY <1>1, <2>5 DEF NoHalf, ScriptsSound
    <3>2. /\ used' \subseteq 1 .. received
          /\ used' \subseteq used \union {plane.even.ts, plane.odd.ts}
      <4> DEFINE spent == {plane.even.ts, plane.odd.ts} \ {0}
      <4>1. used \subseteq 1 .. received /\ spent \subseteq 1 .. received
        BY <3>1 DEF PInv, HalvesApart
      <4>2. used' = used \/ used' = used \cup spent
        BY <2>1
      <4> QED
        BY <4>1, <4>2
    <3>3. ASSUME NEW v \in Workers, ~ Without(work'[v].todo, {"half"})
          PROVE  /\ work'[v].frame.ts # 0
                 /\ work'[v].frame.ts \notin used \union {plane.even.ts, plane.odd.ts}
      BY <1>1, <2>4, <3>3, HalfInScript DEF PInv, HalvesApart
    <3>4. \A v \in Workers : ~ Without(work'[v].todo, {"half"}) =>
             work'[v].frame.ts \notin used' \union {plane'.even.ts, plane'.odd.ts}
      BY <3>1, <3>2, <3>3
    <3> QED
      BY <1>1, <3>1, <3>2, <3>4 DEF HalvesApart
  <2>7. PendingKnown' /\ LocIsLast'
    <3>1. \A v \in Workers : work'[v].changed = work[v].changed
      BY <1>1, <2>3 DEF ScriptsSound
    <3> QED
      BY <1>1, <2>4, <2>5, <3>1 DEF PInv, PendingKnown, LocIsLast
  <2> QED
    BY <2>4, <2>5, <2>6, <2>7 DEF PInv
<1> QED
  BY <1>4, <1>5

(* The place that is added is the last of the history, and follows on it.  *)
LEMMA AppendKept ==
    ASSUME NEW s \in Seq(Located), NEW loc \in Located
    PROVE  /\ Append(T!Kept(s), loc) \in Seq(Located)
           /\ Append(T!Kept(s), loc) # <<>>
           /\ Append(T!Kept(s), loc)[Len(Append(T!Kept(s), loc))] = loc
<1>1. T!Kept(s) \in Seq(Located)
  <2>1. CASE Len(s) = 0
    BY <2>1, EmptySeq, PlaneAssumption DEF T!Kept
  <2>2. CASE Len(s) # 0
    <3>1. Tail(s) \in Seq(Located)
      BY <2>2
    <3> QED
      BY <3>1 DEF T!Kept
  <2> QED
    BY <2>1, <2>2
<1> DEFINE k == T!Kept(s)
<1> HIDE DEF k
<1>2. Append(k, loc) \in Seq(Located) /\ Append(k, loc) # <<>>
      /\ Append(k, loc)[Len(Append(k, loc))] = loc
  BY <1>1 DEF k
<1> QED
  BY <1>2 DEF k

LEMMA AddStep ==
    ASSUME PInv, NEW w \in Workers, AddLatLong(w)
    PROVE  PInv'
<1>1. /\ InScript(w) /\ Head(work[w].todo) # "finish"
      /\ UNCHANGED <<received, used>>
      /\ work[w].loc \in Located \union {NoPlace}
      /\ plane.history \in Seq(Located)
  BY DEF AddLatLong, At, InScript, PInv, ScriptsSound, Work, PlaneType
<1>2. /\ Done(w) \in Work /\ Done(w).frame = work[w].frame
      /\ Done(w).changed = work[w].changed /\ Rest(work[w].todo, Done(w).todo)
  BY <1>1, DoneProps DEF PInv
<1> DEFINE loc == work[w].loc
           sbs == work[w].frame.kind = "sbs"
<1>3. PICK c \in BOOLEAN : Changed(w, Done(w), c)
  BY DEF AddLatLong
<1>4. CASE plane' = plane
  <2>1. PlaneType' /\ LocIsLast'
    BY <1>4 DEF PInv, PlaneType, LocIsLast
  <2> QED
    BY <1>1, <1>2, <1>3, <1>4, <2>1, SetterStep
<1>5. CASE plane' = [plane EXCEPT !.finished = TRUE]
  <2>1. /\ PlaneType' /\ plane'.count = plane.count /\ plane'.loc = plane.loc
        /\ plane'.history = plane.history /\ plane'.even = plane.even
        /\ plane'.odd = plane.odd
    BY <1>5 DEF PInv, PlaneType
  <2>2. LocIsLast'
    BY <2>1 DEF PInv, LocIsLast
  <2> QED
    BY <1>1, <1>2, <1>3, <2>1, <2>2, SetterStep
<1>6. CASE /\ loc # NoPlace
           /\ plane' = [plane EXCEPT !.loc = loc, !.tile = TileOf(loc.place),
                                     !.history = Append(T!Kept(@), loc)]
  <2> DEFINE h == Append(T!Kept(plane.history), loc)
             tile == TileOf(loc.place)
  <2>1. loc \in Located
    BY <1>1, <1>6
  <2>2. h \in Seq(Located) /\ h # <<>> /\ h[Len(h)] = loc
    BY <1>1, <2>1, AppendKept
  <2>3. tile \in Int
    <3>1. loc.place \in Nat /\ TileWidth \in Nat \ {0}
      BY <2>1, PlaneAssumption DEF Located
    <3> QED
      BY <3>1 DEF TileOf
  <2>4. plane' = [plane EXCEPT !.loc = loc, !.tile = tile, !.history = h]
    BY <1>6
  <2> HIDE DEF h, tile, loc
  <2>5. /\ PlaneType' /\ plane'.count = plane.count /\ plane'.even = plane.even
        /\ plane'.odd = plane.odd /\ plane'.history = h /\ plane'.loc = loc
    BY <2>1, <2>2, <2>3, <2>4 DEF PInv, PlaneType
  <2>6. LocIsLast'
    BY <2>2, <2>5 DEF LocIsLast
  <2> QED
    BY <1>1, <1>2, <1>3, <2>5, <2>6, SetterStep
<1> QED
  BY <1>4, <1>5, <1>6 DEF AddLatLong

(* The end of a handler: an event that was owed for its changes is sent.   *)
LEMMA FinishStep ==
    ASSUME PInv, NEW w \in Workers, Finish(w)
    PROVE  PInv'
<1>1. /\ InScript(w) /\ UNCHANGED <<received, used>>
      /\ work' = [work EXCEPT ![w] = Idle] /\ ScriptsSound
  BY DEF Finish, At, InScript, PInv
<1> DEFINE sbs  == work[w].frame.kind = "sbs"
           tile == plane.tile # 0 /\ Ref # 0 /\ ~sbs
<1>2. /\ plane' = IF tile THEN [plane EXCEPT !.tile = TileOf(Ref)] ELSE plane
      /\ pending' = IF (work[w].changed \/ tile) /\ (sbs \/ plane.count > Viable)
                    THEN FALSE ELSE pending
  BY DEF Finish
<1> HIDE DEF sbs, tile
<1>3. work'[w] = Idle /\ \A v \in Workers \ {w} : work'[v] = work[v]
  BY <1>1 DEF ScriptsSound
<1>4. /\ Idle \in Work /\ Idle.todo = <<>> /\ Without(<<>>, {"half"})
  BY DEF Idle, Work, Without
<1>5. ScriptsSound'
  <2>1. work' \in [Workers -> Work]
    BY <1>1, <1>3, <1>4 DEF ScriptsSound
  <2>2. \A v \in Workers : InScript(v)' => v # w /\ InScript(v) /\ work'[v] = work[v]
    BY <1>3, <1>4 DEF InScript
  <2>3. pending' \in BOOLEAN
    BY <1>1, <1>2 DEF ScriptsSound
  <2> QED
    BY <1>1, <2>1, <2>2, <2>3 DEF ScriptsSound
<1>6. TileOf(Ref) \in Int
  <2>1. Ref \in Nat /\ TileWidth \in Nat \ {0}
    BY PlaneAssumption
  <2> QED
    BY <2>1 DEF TileOf
<1>7. /\ PlaneType' /\ plane'.count = plane.count /\ plane'.loc = plane.loc
      /\ plane'.history = plane.history /\ plane'.even = plane.even
      /\ plane'.odd = plane.odd
  <2>1. plane' = plane \/ plane' = [plane EXCEPT !.tile = TileOf(Ref)]
    BY <1>2
  <2> QED
    BY <1>6, <2>1 DEF PInv, PlaneType
<1>8. HalvesApart' /\ LocIsLast'
  <2>1. \A v \in Workers : ~ Without(work'[v].todo, {"half"}) => work'[v] = work[v]
    BY <1>3, <1>4
  <2> QED
    BY <1>1, <1>7, <2>1 DEF PInv, HalvesApart, LocIsLast
<1>9. PendingKnown'
  <2>1. CASE pending'
    <3>1. /\ pending /\ plane.count > Viable /\ ~ work[w].changed
      BY <1>2, <2>1 DEF PInv, PendingKnown
    <3>2. PICK v \in Workers : InScript(v) /\ work[v].changed
      BY <3>1 DEF PInv, PendingKnown
    <3>3. InScript(v)' /\ work'[v].changed
      BY <1>3, <3>1, <3>2 DEF InScript
    <3> QED
      BY <1>7, <3>1, <3>3 DEF PendingKnown
  <2> QED
    BY <2>1 DEF PendingKnown
<1> QED
  BY <1>5, <1>7, <1>8, <1>9 DEF PInv

(* decodeQueue takes the next frame: its number is new.                    *)
LEMMA BeginStep ==
    ASSUME PInv, NEW w \in Workers, Begin(w)
    PROVE  PInv'
<1>1. /\ ~ InScript(w) /\ received \in Nat /\ received' = received + 1
      /\ UNCHANGED <<pending, used>> /\ ScriptsSound
  BY DEF Begin, InScript, PInv, ScriptsSound
<1>2. PICK f \in Frames :
        /\ work' = [work EXCEPT ![w] =
               [Idle EXCEPT !.frame = [f EXCEPT !.ts = received + 1],
                            !.todo = Script(f),
                            !.loc = IF f.kind = "sbs"
                                    THEN [place |-> f.place, ts |-> received + 1]
                                    ELSE NoPlace]]
        /\ plane' = [plane EXCEPT !.lastSeen = received + 1, !.count = @ + 1,
                                  !.tile = IF @ = 0 /\ Ref # 0 /\ f.kind # "sbs"
                                           THEN TileOf(Ref) ELSE @]
  BY DEF Begin
<1> DEFINE g == [f EXCEPT !.ts = received + 1]
           l == IF f.kind = "sbs" THEN [place |-> f.place, ts |-> received + 1]
                ELSE NoPlace
           r == [Idle EXCEPT !.frame = g, !.todo = Script(f), !.loc = l]
           tile == IF plane.tile = 0 /\ Ref # 0 /\ f.kind # "sbs"
                   THEN TileOf(Ref) ELSE plane.tile
<1>3. g \in Framed /\ g.ts = received + 1 /\ f.place \in Places
  <2>1. f \in [kind : STRING, place : Places, odd : BOOLEAN, status : STRING,
               has : SUBSET FieldNames, ts : {0}]
    BY PlaneAssumption
  <2>2. received + 1 \in Nat
    BY <1>1
  <2> QED
    BY <2>1, <2>2 DEF Framed
<1>4. l \in Located \union {NoPlace}
  BY <1>1, <1>3 DEF Located
<1>5. tile \in Int
  <2>1. Ref \in Nat /\ TileWidth \in Nat \ {0}
    BY PlaneAssumption
  <2>2. TileOf(Ref) \in Int
    BY <2>1 DEF TileOf
  <2> QED
    BY <2>2 DEF PInv, PlaneType
<1>6. /\ Script(f) \in Seq(Steps) /\ Script(f) # <<>>
      /\ EndsInFinish(Script(f)) /\ OneHalf(Script(f))
  BY ScriptProps
<1>7. work' = [work EXCEPT ![w] = r]
      /\ plane' = [plane EXCEPT !.lastSeen = received + 1, !.count = @ + 1, !.tile = tile]
  BY <1>2
<1> HIDE DEF g, l, tile
<1>8. /\ r \in Work /\ r.frame = g /\ r.todo = Script(f) /\ r.changed = FALSE
  BY <1>3, <1>4, <1>6 DEF Idle, Work
<1> HIDE DEF r
<1>9. work'[w] = r /\ \A v \in Workers \ {w} : work'[v] = work[v]
  BY <1>1, <1>7 DEF ScriptsSound
<1>10. /\ work' \in [Workers -> Work]
       /\ \A v \in Workers \ {w} : InScript(v)' <=> InScript(v)
  BY <1>1, <1>7, <1>8, <1>9 DEF ScriptsSound, InScript
<1>11. ScriptsSound'
  <2>1. \A v \in Workers : InScript(v)' =>
           /\ work'[v].frame \in Framed /\ work'[v].frame.ts \in 1 .. received'
           /\ EndsInFinish(work'[v].todo) /\ OneHalf(work'[v].todo)
    BY <1>1, <1>3, <1>6, <1>8, <1>9, <1>10 DEF ScriptsSound
  <2>2. \A v \in Workers \ {w} : InScript(v)' => work'[v].frame.ts # received + 1
    BY <1>1, <1>9, <1>10 DEF ScriptsSound
  <2>3. \A u, v \in Workers :
           InScript(u)' /\ InScript(v)' /\ work'[u].frame.ts = work'[v].frame.ts
              => u = v
    BY <1>1, <1>3, <1>8, <1>9, <1>10, <2>2 DEF ScriptsSound
  <2> QED
    BY <1>1, <1>10, <2>1, <2>3 DEF ScriptsSound
<1>12. /\ PlaneType' /\ plane'.count = plane.count + 1 /\ plane'.loc = plane.loc
       /\ plane'.history = plane.history /\ plane'.even = plane.even
       /\ plane'.odd = plane.odd /\ plane.count \in Nat
  <2> DEFINE n == received + 1
             m == plane.count + 1
  <2>1. n \in Nat /\ m \in Nat /\ plane.count \in Nat
    BY <1>1 DEF PInv, PlaneType
  <2>2. plane' = [plane EXCEPT !.lastSeen = n, !.count = m, !.tile = tile]
    BY <1>7
  <2>3. m = plane.count + 1
    OBVIOUS
  <2> HIDE DEF n, m
  <2> QED
    BY <1>5, <2>1, <2>2, <2>3 DEF PInv, PlaneType
<1>13. HalvesApart'
  <2>1. \A v \in Workers : ~ Without(work'[v].todo, {"half"}) =>
           work'[v].frame.ts \notin used \union {plane.even.ts, plane.odd.ts}
    <3>1. received + 1 \notin used \union {plane.even.ts, plane.odd.ts}
      BY <1>1 DEF PInv, HalvesApart
    <3> QED
      BY <1>3, <1>8, <1>9, <3>1 DEF PInv, HalvesApart
  <2> QED
    BY <1>1, <1>12, <2>1 DEF PInv, HalvesApart
<1>14. PendingKnown' /\ LocIsLast'
  <2>1. Viable \in Nat
    BY PlaneAssumption
  <2>2. pending => plane'.count > Viable
    BY <1>12, <2>1 DEF PInv, PendingKnown
  <2>3. pending => \E v \in Workers : InScript(v)' /\ work'[v].changed
    BY <1>1, <1>9, <1>10 DEF PInv, PendingKnown
  <2> QED
    BY <1>1, <1>12, <2>2, <2>3 DEF PInv, PendingKnown, LocIsLast
<1> QED
  BY <1>11, <1>12, <1>13, <1>14 DEF PInv

-----------------------------------------------------------------------------
(* The plane: what is proved of the whole of PlaneNext.                    *)

LEMMA InitPInv == PlaneInit => PInv
<1> SUFFICES ASSUME PlaneInit PROVE PInv
  OBVIOUS
<1>1. /\ plane = NewPlane /\ work = [w \in Workers |-> Idle]
      /\ received = 0 /\ pending = FALSE /\ used = {}
  BY DEF PlaneInit
<1>2. PlaneType
  <2>1. <<>> \in Seq(Located) /\ Unset \in [val : Int, ts : Int]
    BY DEF Unset
  <2> QED
    BY <1>1, <2>1 DEF PlaneType, NewPlane, Half
<1>3. Idle \in Work /\ Idle.todo = <<>> /\ Without(<<>>, {"half"})
  BY DEF Idle, Work, Without
<1>4. ScriptsSound
  BY <1>1, <1>3 DEF ScriptsSound, InScript
<1>5. HalvesApart
  BY <1>1, <1>3 DEF HalvesApart, NewPlane, NoHalf
<1>6. PendingKnown /\ LocIsLast
  BY <1>1 DEF PendingKnown, LocIsLast, NewPlane
<1> QED
  BY <1>2, <1>4, <1>5, <1>6 DEF PInv

LEMMA StepPInv == PInv /\ [PlaneNext]_planeVars => PInv'
<1> SUFFICES ASSUME PInv, [PlaneNext]_planeVars PROVE PInv'
  OBVIOUS
<1>1. CASE UNCHANGED planeVars
  BY <1>1 DEF planeVars, PInv, PlaneType, ScriptsSound, HalvesApart, PendingKnown,
              LocIsLast, InScript
<1>2. CASE PlaneNext
  BY <1>2, SetStep, BeginStep, CheckStep, ZeroStep, GroundStep, LevelStep, HalfStep,
     CprStep, DecodeStep, AddStep, FinishStep DEF PlaneNext
<1> QED
  BY <1>1, <1>2

(* No place of the sky with halves that are not there.                     *)
LEMMA PlanesSound ==
    ASSUME PInv
    PROVE  NoPhantom /\ HalvesSpent /\ ChangesAnnounced
<1>1. NoPhantom
  BY PlaneAssumption DEF PInv, PlaneType, Located, NoPhantom
<1>2. HalvesSpent
  BY DEF PInv, HalvesApart, HalvesSpent
<1>3. ChangesAnnounced
  BY DEF PInv, PendingKnown, ChangesAnnounced, InScript
<1> QED
  BY <1>1, <1>2, <1>3

(* Only addLatLong touches the history, and what it adds may follow.       *)
LEMMA TrackStep ==
    ASSUME PInv, PInv', [PlaneNext]_planeVars, VelocityCheck
    PROVE  [T!TNext]_(plane.history)
<1> SUFFICES ASSUME plane'.history # plane.history PROVE T!TNext
  OBVIOUS
<1>1. PICK w \in Workers : AddLatLong(w)
  <2>1. PlaneNext
    BY DEF planeVars
  <2>2. ASSUME NEW w \in Workers PROVE
          /\ ~ Begin(w) /\ ~ CheckGround(w) /\ ~ ZeroCpr(w) /\ ~ SetGround(w)
          /\ ~ SetLevel(w) /\ ~ SetHalf(w) /\ ~ DecodeCpr(w) /\ ~ Decode(w)
          /\ ~ Finish(w)
    BY DEF Begin, CheckGround, ZeroCpr, SetGround, SetLevel, SetHalf, DecodeCpr,
           Decode, DropHalves, Finish, PInv, PlaneType
  <2>3. ASSUME NEW w \in Workers, NEW f, NEW c PROVE ~ Put(w, f, c)
    BY DEF Put, PInv, PlaneType
  <2> QED
    BY <2>1, <2>2, <2>3
    DEF PlaneNext, setSpecial, setAltitude, setFlightStatus, setFlightNumber,
        setSquawkIdentity, setAirFrameCategory, setHeading, setVelocity,
        setVerticalRate, setNav, setRegistration, setAirFrameWidthLength
<1> DEFINE loc == work[w].loc
           h == plane.history
<1>2. /\ loc # NoPlace
      /\ ~ TooFar(loc, work[w].frame.kind = "sbs" \/ VelocityCheck)
      /\ plane' = [plane EXCEPT !.loc = loc, !.tile = TileOf(loc.place),
                                !.history = Append(T!Kept(@), loc)]
  BY <1>1 DEF AddLatLong, PInv, PlaneType
<1>3. /\ loc \in Located /\ h \in Seq(Located) /\ Len(h) \in Nat
  BY <1>2 DEF PInv, PlaneType, ScriptsSound, Work
<1>4. plane'.history = Append(T!Kept(h), loc)
  BY <1>2 DEF PInv, PlaneType
<1>5. plane'.history # <<>> /\ plane'.history[Len(plane'.history)] = loc
  BY <1>3, <1>4, AppendKept
<1>6. Len(h) > 0 => T!MayFollow(h[Len(h)], loc)
  <2>0. Len(h) > 0 => /\ h[Len(h)].ts \in Int /\ loc.ts \in Int
                      /\ (h[Len(h)].place = 0 \/ loc.ts <= h[Len(h)].ts
                            => T!MayFollow(h[Len(h)], loc))
    <3>1. Len(h) > 0 => h[Len(h)].ts \in Int /\ loc.ts \in Int
      <4>1. Len(h) > 0 => h[Len(h)] \in Located
        BY <1>3
      <4> QED
        BY <1>3, <4>1 DEF Located
    <3>2. ASSUME NEW u, NEW v, u.place = 0 \/ v.ts <= u.ts
          PROVE  T!MayFollow(u, v)
      BY <3>2, Zenon DEF T!MayFollow
    <3> QED
      BY <3>1, <3>2, Zenon
  <2>1. SUFFICES ASSUME Len(h) > 0, h[Len(h)].place # 0, h[Len(h)].ts < loc.ts
                 PROVE  T!MayFollow(h[Len(h)], loc)
    BY <2>0
  <2>2. h # <<>>
    BY <2>1, EmptySeq
  <2>3. plane.loc = h[Len(h)]
    BY <2>2 DEF PInv, LocIsLast
  <2>4. ~ (T!Gap(loc.place, h[Len(h)].place) > (1 + loc.ts - h[Len(h)].ts) * Reach)
    BY <1>2, <2>1, <2>3 DEF TooFar
  <2>5. /\ loc.place \in Int /\ loc.ts \in Int
        /\ h[Len(h)].place \in Int /\ h[Len(h)].ts \in Int /\ Reach \in Int
    <3>1. h[Len(h)] \in Located
      BY <1>3, <2>1
    <3>2. Places \subseteq Int
      BY PlaneAssumption
    <3>3. /\ loc.place \in Places /\ h[Len(h)].place \in Places
          /\ loc.ts \in Nat /\ h[Len(h)].ts \in Nat
      BY <1>3, <3>1 DEF Located
    <3>4. loc.place \in Int /\ h[Len(h)].place \in Int
      BY <3>2, <3>3, Zenon
    <3> QED
      BY <3>3, <3>4, PlaneAssumption
  <2>6. T!Gap(loc.place, h[Len(h)].place) = T!Gap(h[Len(h)].place, loc.place)
    BY <2>5 DEF T!Gap
  <2>7. T!Gap(h[Len(h)].place, loc.place) \in Int
    BY <2>5 DEF T!Gap
  <2>8. (1 + loc.ts - h[Len(h)].ts) * Reach \in Int
    BY <2>5
  <2>9. T!Gap(h[Len(h)].place, loc.place) <= (1 + loc.ts - h[Len(h)].ts) * Reach
    BY <2>4, <2>6, <2>7, <2>8
  <2> QED
    BY <2>9 DEF T!MayFollow
<1> QED
  BY <1>4, <1>5, <1>6 DEF T!TNext, T!Grows

-----------------------------------------------------------------------------
(* The list of the last frames.                                            *)

Active == {p \in Pushers : pusher[p] # "idle"}
Over == {p \in Pushers : pusher[p] = "over"}

Least(a, b) == IF a < b THEN a ELSE b

(* The list is as much too long as there are pushers that have yet to look *)
(* at it or to shorten it, and as much too short as pushers saw the same   *)
(* overflow; the last of them saw a list that was longer by itself.        *)
LInv ==
    /\ list \in Seq(Nat) /\ pushed \in Nat
    /\ pusher \in [Pushers -> {"idle", "inserted", "over"}]
    /\ \A i \in 1 .. Len(list) : list[i] = pushed + 1 - i
    /\ Len(list) <= Capacity + Cardinality(Active)
    /\ Least(pushed, Capacity) + Cardinality(Over) + 1
          <= Len(list) + Cardinality(Pushers)

LEMMA PusherCounts ==
    /\ IsFiniteSet(Pushers) /\ Cardinality(Pushers) \in Nat
    /\ Cardinality(Pushers) >= 1 /\ Capacity \in Nat
    /\ \A S \in SUBSET Pushers :
          /\ IsFiniteSet(S) /\ Cardinality(S) \in Nat
          /\ Cardinality(S) <= Cardinality(Pushers)
          /\ \A p \in Pushers :
                /\ p \notin S => Cardinality(S \union {p}) = Cardinality(S) + 1
                /\ p \in S => Cardinality(S \ {p}) = Cardinality(S) - 1
<1>1. IsFiniteSet(Pushers) /\ Pushers # {} /\ Capacity \in Nat
  BY LossyAssumption
<1>2. Cardinality(Pushers) \in Nat /\ Cardinality(Pushers) # 0
  BY <1>1, FS_CardinalityType, FS_EmptySet
<1>3. ASSUME NEW S \in SUBSET Pushers
      PROVE  /\ IsFiniteSet(S) /\ Cardinality(S) \in Nat
             /\ Cardinality(S) <= Cardinality(Pushers)
             /\ \A p \in Pushers :
                   /\ p \notin S => Cardinality(S \union {p}) = Cardinality(S) + 1
                   /\ p \in S => Cardinality(S \ {p}) = Cardinality(S) - 1
  <2>1. IsFiniteSet(S) /\ Cardinality(S) <= Cardinality(Pushers)
    BY <1>1, FS_Subset
  <2>2. Cardinality(S) \in Nat
    BY <2>1, FS_CardinalityType
  <2> QED
    BY <2>1, <2>2, FS_AddElement, FS_RemoveElement
<1> QED
  BY <1>1, <1>2, <1>3

LEMMA InitLInv == LossyInit => LInv
<1> SUFFICES ASSUME LossyInit PROVE LInv
  OBVIOUS
<1>1. /\ list = <<>> /\ pushed = 0 /\ Len(list) = 0 /\ Active = {} /\ Over = {}
      /\ pusher \in [Pushers -> {"idle", "inserted", "over"}]
  BY DEF LossyInit, Active, Over
<1> QED
  BY <1>1, FS_EmptySet, PusherCounts DEF LInv, Least

(* Of a list of the newest frames, all but the last are the newest too.    *)
LEMMA Shortened ==
    ASSUME NEW s \in Seq(Nat), s # <<>>
    PROVE  /\ SubSeq(s, 1, Len(s) - 1) \in Seq(Nat)
           /\ Len(SubSeq(s, 1, Len(s) - 1)) = Len(s) - 1
           /\ Len(s) - 1 \in Nat
           /\ \A i \in 1 .. Len(s) - 1 : SubSeq(s, 1, Len(s) - 1)[i] = s[i]
<1>1. Len(s) \in Nat /\ Len(s) # 0
  BY EmptySeq
<1> DEFINE n == Len(s) - 1
<1>2. n \in Nat /\ n \in Int /\ 1 \in Int /\ \A i \in 1 .. n : s[i] \in Nat
  BY <1>1
<1> HIDE DEF n
<1>3. /\ SubSeq(s, 1, n) \in Seq(Nat)
      /\ Len(SubSeq(s, 1, n)) = IF 1 <= n THEN n - 1 + 1 ELSE 0
      /\ \A i \in 1 .. n - 1 + 1 : SubSeq(s, 1, n)[i] = s[1 + i - 1]
  BY <1>2, SubSeqProperties
<1>4. n - 1 + 1 = n /\ \A i \in 1 .. n : 1 + i - 1 = i
  BY <1>2
<1>5. Len(SubSeq(s, 1, n)) = n /\ \A i \in 1 .. n : SubSeq(s, 1, n)[i] = s[i]
  BY <1>2, <1>3, <1>4
<1> QED
  BY <1>2, <1>3, <1>5 DEF n

LEMMA StepLInv == LInv /\ [LossyNext]_lossyVars => LInv'
<1> SUFFICES ASSUME LInv, [LossyNext]_lossyVars PROVE LInv'
  OBVIOUS
<1>1. /\ Active \in SUBSET Pushers /\ Over \in SUBSET Pushers
      /\ Len(list) \in Nat /\ pushed \in Nat /\ Capacity \in Nat
      /\ Cardinality(Active) \in Nat /\ Cardinality(Over) \in Nat
      /\ Cardinality(Pushers) \in Nat
  BY PusherCounts DEF LInv, Active, Over
<1>2. ASSUME UNCHANGED <<list, pushed, pusher>> PROVE LInv'
  BY <1>2 DEF LInv, Active, Over
<1>3. ASSUME NEW p \in Pushers, Insert(p) PROVE LInv'
  <2>1. /\ pushed' = pushed + 1 /\ list' = <<pushed + 1>> \o list
        /\ pusher' = [pusher EXCEPT ![p] = "inserted"] /\ pusher[p] = "idle"
    BY <1>3 DEF Insert
  <2>2. /\ list' \in Seq(Nat) /\ Len(list') = Len(list) + 1
        /\ \A i \in 1 .. Len(list') : list'[i] = pushed' + 1 - i
    <3> DEFINE s == <<pushed + 1>>
    <3>1. s \in Seq(Nat) /\ Len(s) = 1 /\ s[1] = pushed + 1
      BY <1>1
    <3> HIDE DEF s
    <3>2. /\ s \o list \in Seq(Nat) /\ Len(s \o list) = Len(list) + 1
          /\ (s \o list)[1] = pushed + 1
          /\ \A i \in 2 .. Len(list) + 1 : (s \o list)[i] = list[i - 1]
      <4>1. list \in Seq(Nat) /\ Len(list) \in Nat
        BY DEF LInv
      <4>2. /\ s \o list \in Seq(Nat) /\ Len(s \o list) = 1 + Len(list)
            /\ \A i \in 1 .. 1 + Len(list) :
                  (s \o list)[i] = IF i <= 1 THEN s[i] ELSE list[i - 1]
        <5>1. /\ s \o list \in Seq(Nat) /\ Len(s \o list) = Len(s) + Len(list)
              /\ \A i \in 1 .. Len(s) + Len(list) :
                    (s \o list)[i] = IF i <= Len(s) THEN s[i] ELSE list[i - Len(s)]
          BY <3>1, <4>1, ConcatProperties, Zenon
        <5> QED
          BY <3>1, <5>1
      <4>3. (s \o list)[1] = s[1]
        BY <4>1, <4>2
      <4>4. \A i \in 2 .. Len(list) + 1 : (s \o list)[i] = list[i - 1]
        BY <4>1, <4>2
      <4>5. 1 + Len(list) = Len(list) + 1
        BY <4>1
      <4> QED
        BY <3>1, <4>2, <4>3, <4>4, <4>5
    <3>3. list' = s \o list
      BY <2>1 DEF s
    <3> QED
      BY <1>1, <2>1, <3>2, <3>3, SMTT(30) DEF LInv
  <2>3. Active' = Active \union {p} /\ p \notin Active /\ Over' = Over
    BY <2>1 DEF LInv, Active, Over
  <2>4. Cardinality(Active') = Cardinality(Active) + 1
    BY <1>1, <2>3, PusherCounts
  <2>5. Least(pushed', Capacity) <= Least(pushed, Capacity) + 1
        /\ Least(pushed', Capacity) \in Nat /\ Least(pushed, Capacity) \in Nat
    BY <1>1, <2>1 DEF Least
  <2>6. Least(pushed', Capacity) + Cardinality(Over') + 1
            <= Len(list') + Cardinality(Pushers)
    BY <1>1, <2>2, <2>3, <2>5, SMTT(30) DEF LInv
  <2>7. Len(list') <= Capacity + Cardinality(Active')
    BY <1>1, <2>2, <2>4 DEF LInv
  <2> QED
    BY <1>1, <2>1, <2>2, <2>6, <2>7, SMTT(30) DEF LInv
<1>4. ASSUME NEW p \in Pushers, Compare(p) PROVE LInv'
  <2>1. /\ UNCHANGED <<list, pushed>> /\ pusher[p] = "inserted"
        /\ pusher' = [pusher EXCEPT ![p] = IF Len(list) > Capacity THEN "over"
                                           ELSE "idle"]
    BY <1>4 DEF Compare
  <2>2. CASE Len(list) > Capacity
    <3>1. Active' = Active /\ Over' = Over \union {p} /\ Over' \in SUBSET Pushers
      BY <2>1, <2>2 DEF LInv, Active, Over
    <3>2. Cardinality(Over') \in Nat /\ Cardinality(Over') <= Cardinality(Pushers)
      BY <3>1, PusherCounts
    <3>3. Least(pushed, Capacity) <= Capacity /\ Least(pushed, Capacity) \in Nat
      BY <1>1 DEF Least
    <3>4. Least(pushed', Capacity) + Cardinality(Over') + 1
              <= Len(list') + Cardinality(Pushers)
      BY <1>1, <2>1, <2>2, <3>2, <3>3
    <3>5. pusher' \in [Pushers -> {"idle", "inserted", "over"}]
      BY <2>1, <2>2 DEF LInv
    <3> QED
      BY <2>1, <3>1, <3>4, <3>5 DEF LInv
  <2>3. CASE ~ (Len(list) > Capacity)
    <3>1. Active' \in SUBSET Pushers /\ Over' = Over
      BY <2>1, <2>3 DEF LInv, Active, Over
    <3>2. Cardinality(Active') \in Nat
      BY <3>1, PusherCounts
    <3>3. Len(list') <= Capacity + Cardinality(Active')
      BY <1>1, <2>1, <2>3, <3>2
    <3>4. pusher' \in [Pushers -> {"idle", "inserted", "over"}]
      BY <2>1, <2>3 DEF LInv
    <3> QED
      BY <2>1, <3>1, <3>3, <3>4 DEF LInv
  <2> QED
    BY <2>2, <2>3
<1>5. ASSUME NEW p \in Pushers, Unshift(p) PROVE LInv'
  <2>1. /\ pushed' = pushed /\ pusher[p] = "over"
        /\ list' = IF list = <<>> THEN list ELSE SubSeq(list, 1, Len(list) - 1)
        /\ pusher' = [pusher EXCEPT ![p] = "idle"]
    BY <1>5 DEF Unshift
  <2>2. /\ Active' = Active \ {p} /\ p \in Active
        /\ Over' = Over \ {p} /\ p \in Over
    BY <2>1 DEF LInv, Active, Over
  <2>3. /\ Cardinality(Active') = Cardinality(Active) - 1
        /\ Cardinality(Over') = Cardinality(Over) - 1
    BY <1>1, <2>2, PusherCounts
  <2>4. /\ Cardinality(Active') \in Nat
    BY <2>2, PusherCounts, <1>1
  <2>5. /\ list' \in Seq(Nat)
        /\ \A i \in 1 .. Len(list') : list'[i] = pushed' + 1 - i
        /\ \/ Len(list') = 0 /\ Len(list) = 0
           \/ Len(list') = Len(list) - 1
    <3>1. CASE list = <<>>
      BY <2>1, <3>1 DEF LInv
    <3>2. CASE list # <<>>
      BY <2>1, <3>2, Shortened DEF LInv
    <3> QED
      BY <3>1, <3>2
  <2>6. Least(pushed, Capacity) \in Nat
    BY <1>1 DEF Least
  <2>7. Least(pushed', Capacity) + Cardinality(Over') + 1
              <= Len(list') + Cardinality(Pushers)
    <3>1. Least(pushed, Capacity) + Cardinality(Over) + 1
             <= Len(list) + Cardinality(Pushers)
      BY DEF LInv
    <3>2. Least(pushed', Capacity) = Least(pushed, Capacity)
      BY <2>1
    <3> DEFINE m == Least(pushed, Capacity)
           pushers == Cardinality(Pushers)
           overs == Cardinality(Over)
    <3>3. m \in Nat
      BY <2>6
    <3>4. m + overs + 1 <= Len(list) + pushers /\ overs \in Nat /\ pushers \in Nat
      BY <1>1, <3>1
    <3>5. (Len(list') = 0 /\ Len(list) = 0) \/ Len(list') = Len(list) - 1
      BY <2>5
    <3> HIDE DEF m, overs, pushers
    <3>6. m + (overs - 1) + 1 <= Len(list') + pushers
      BY <1>1, <3>3, <3>4, <3>5
    <3> QED
      BY <2>3, <3>2, <3>6 DEF m, overs, pushers
  <2>8. Len(list') <= Capacity + Cardinality(Active')
    BY <1>1, <2>3, <2>4, <2>5, SMTT(30) DEF LInv
  <2> QED
    BY <2>1, <2>5, <2>7, <2>8 DEF LInv
<1> QED
  BY <1>2, <1>3, <1>4, <1>5 DEF LossyNext, lossyVars, RangeOver

LEMMA ListSound == LInv => NewestKept
<1> SUFFICES ASSUME LInv, Quiet PROVE
       /\ \A i \in DOMAIN list : list[i] = pushed + 1 - i
       /\ Len(list) <= Capacity
       /\ Len(list) + Cardinality(Pushers)
             > (IF pushed < Capacity THEN pushed ELSE Capacity)
  BY DEF NewestKept
<1>1. Active = {} /\ Over = {}
  BY DEF Quiet, Active, Over
<1>2. Cardinality(Active) = 0 /\ Cardinality(Over) = 0
  BY <1>1, FS_EmptySet
<1>3. /\ Len(list) \in Nat /\ pushed \in Nat /\ DOMAIN list = 1 .. Len(list)
      /\ Capacity \in Nat /\ Cardinality(Pushers) \in Nat
  BY PusherCounts DEF LInv
<1> QED
  BY <1>2, <1>3 DEF LInv, Least

-----------------------------------------------------------------------------
(* The navigation state.  A 4,0 reply is accepted on what nav remembers of *)
(* the messages before it; the invariant says which message that was.      *)

Heard == [kind : STRING, mcp : Int, fms : Int, qnh : Int, heading : Int,
          modes : Int, ts : Nat]

Taken == [val : Int, by : Nat]

NavType ==
    /\ navNow \in Nat /\ heard \in Seq(Heard)
    /\ \A j \in 1 .. Len(heard) : heard[j].ts <= navNow
    /\ nav \in [mcp : Taken, fms : Taken, qnh : Taken, heading : Taken, modes : Taken,
                ts : Int, tc29TS : Int, tc29SelAlt : Int, tc29FMS : BOOLEAN,
                last40 : Nat]

(* What nav remembers of the last target state is one that was heard.      *)
TargetHeard ==
    nav.tc29TS # None =>
        \E j \in 1 .. Len(heard) :
            /\ heard[j].kind = "tc29" /\ heard[j].ts = nav.tc29TS
            /\ IF nav.tc29FMS THEN heard[j].fms # None /\ heard[j].fms = nav.tc29SelAlt
               ELSE heard[j].mcp # None /\ heard[j].mcp = nav.tc29SelAlt

ReplyHeard ==
    nav.last40 # 0 => /\ nav.last40 \in 1 .. Len(heard)
                      /\ heard[nav.last40].kind = "bds40"

(* Backed, of the messages h; a value that is there was taken from one     *)
(* that may be shown.                                                      *)
BackedIn(h, i) ==
    \E j \in 1 .. i - 1 :
        /\ Away(h[i].ts, h[j].ts) <= NavExpiry
        /\ \/ /\ h[j].kind = "tc29"
              /\ \/ h[j].fms # None /\ near(h[i].fms, h[j].fms)
                 \/ h[j].mcp # None /\ near(h[i].mcp, h[j].mcp)
           \/ h[j].kind = "bds40" /\ sameValues(h[i], h[j])

Sourced(h, v) ==
    v # Absent => /\ v.by \in 1 .. Len(h)
                  /\ h[v.by].kind = "bds40" => BackedIn(h, v.by)

NInv == /\ NavType /\ TargetHeard /\ ReplyHeard
        /\ Sourced(heard, nav.mcp) /\ Sourced(heard, nav.fms)
        /\ Sourced(heard, nav.qnh) /\ Sourced(heard, nav.modes)

LEMMA InitNInv == NavInit => NInv
<1> SUFFICES ASSUME NavInit PROVE NInv
  OBVIOUS
<1>1. /\ heard = <<>> /\ navNow = 0 /\ Len(heard) = 0
      /\ Absent \in Taken
  BY DEF NavInit, Absent, Taken, None
<1>2. NavType
  BY <1>1 DEF NavType, NavInit, None
<1>3. /\ nav.mcp = Absent /\ nav.fms = Absent /\ nav.qnh = Absent /\ nav.modes = Absent
      /\ nav.tc29TS = None /\ nav.last40 = 0
  BY DEF NavInit
<1> QED
  BY <1>2, <1>3 DEF NInv, TargetHeard, ReplyHeard, Sourced

(* A message more: what held of the earlier ones still does.               *)
LEMMA HeardMore ==
    ASSUME NEW h \in Seq(Heard), NEW r \in Heard
    PROVE  /\ Append(h, r) \in Seq(Heard) /\ Len(Append(h, r)) = Len(h) + 1
           /\ Append(h, r)[Len(h) + 1] = r
           /\ \A j \in 1 .. Len(h) : Append(h, r)[j] = h[j]
           /\ Len(h) \in Nat
           /\ \A v \in Taken : Sourced(h, v) => Sourced(Append(h, r), v)
<1> DEFINE k == Append(h, r)
<1>1. /\ k \in Seq(Heard) /\ Len(k) = Len(h) + 1 /\ Len(h) \in Nat
      /\ k[Len(h) + 1] = r
      /\ \A j \in 1 .. Len(h) : k[j] = h[j]
  OBVIOUS
<1> HIDE DEF k
<1>2. ASSUME NEW i \in 1 .. Len(h), BackedIn(h, i) PROVE BackedIn(k, i)
  <2>1. \A j \in 1 .. i - 1 : k[j] = h[j]
    BY <1>1
  <2>2. k[i] = h[i]
    BY <1>1
  <2> QED
    BY <1>2, <2>1, <2>2 DEF BackedIn
<1>3. ASSUME NEW v \in Taken, Sourced(h, v) PROVE Sourced(k, v)
  <2>1. CASE v # Absent
    <3>1. v.by \in 1 .. Len(h) /\ (h[v.by].kind = "bds40" => BackedIn(h, v.by))
      BY <1>3, <2>1 DEF Sourced
    <3>2. v.by \in 1 .. Len(k) /\ k[v.by] = h[v.by]
      BY <1>1, <3>1
    <3>3. h[v.by].kind = "bds40" => BackedIn(k, v.by)
      BY <1>2, <3>1
    <3> QED
      BY <3>2, <3>3 DEF Sourced
  <2> QED
    BY <2>1 DEF Sourced
<1> QED
  BY <1>1, <1>3 DEF k

(* The value of the message that has just been applied.                    *)
LEMMA TakeSourced ==
    ASSUME NavType, NEW r \in Heard,
           r.kind = "bds40" => BackedIn(Append(heard, r), Len(heard) + 1),
           NEW old \in Taken, Sourced(heard, old), NEW x \in Int
    PROVE  Take(old, x) \in Taken /\ Sourced(Append(heard, r), Take(old, x))
<1> DEFINE k == Append(heard, r)
           v == [val |-> x, by |-> Len(heard) + 1]
<1>1. /\ k[Len(heard) + 1] = r /\ Len(k) = Len(heard) + 1
      /\ Len(heard) \in Nat /\ Sourced(k, old)
  BY HeardMore DEF NavType
<1>2. v \in Taken /\ v.by = Len(heard) + 1
  BY <1>1 DEF Taken
<1>3. Take(old, x) = old \/ Take(old, x) = v
  BY DEF Take
<1>4. r.kind = "bds40" => BackedIn(k, Len(heard) + 1)
  OBVIOUS
<1> HIDE DEF v, k
<1>5. Sourced(k, v)
  BY <1>1, <1>2, <1>4 DEF Sourced
<1> QED
  BY <1>1, <1>2, <1>3, <1>5 DEF k

(* What nav remembers is still among the messages when there is one more.  *)
LEMMA MemoryKept ==
    ASSUME NInv, NEW r \in Heard, heard' = Append(heard, r),
           nav'.tc29TS = nav.tc29TS, nav'.tc29SelAlt = nav.tc29SelAlt,
           nav'.tc29FMS = nav.tc29FMS
    PROVE  TargetHeard' /\ (nav'.last40 = nav.last40 => ReplyHeard')
<1>1. /\ Len(heard') = Len(heard) + 1 /\ Len(heard) \in Nat
      /\ \A j \in 1 .. Len(heard) : heard'[j] = heard[j]
  BY HeardMore DEF NInv, NavType
<1>2. TargetHeard'
  <2>1. CASE nav.tc29TS # None
    <3>1. PICK j \in 1 .. Len(heard) :
            /\ heard[j].kind = "tc29" /\ heard[j].ts = nav.tc29TS
            /\ IF nav.tc29FMS THEN heard[j].fms # None /\ heard[j].fms = nav.tc29SelAlt
               ELSE heard[j].mcp # None /\ heard[j].mcp = nav.tc29SelAlt
      BY <2>1 DEF NInv, TargetHeard
    <3>2. j \in 1 .. Len(heard') /\ heard'[j] = heard[j]
      BY <1>1
    <3> QED
      BY <3>1, <3>2 DEF TargetHeard
  <2> QED
    BY <2>1 DEF TargetHeard
<1>3. nav'.last40 = nav.last40 => ReplyHeard'
  BY <1>1 DEF NInv, ReplyHeard
<1> QED
  BY <1>2, <1>3

LEMMA TargetStep ==
    ASSUME NInv, NEW r \in Heard, r.kind = "tc29", r.ts <= navNow,
           heard' = Append(heard, r), navNow' = navNow, setTargetState(r)
    PROVE  NInv'
<1>1. /\ heard' \in Seq(Heard) /\ Len(heard') = Len(heard) + 1 /\ Len(heard) \in Nat
      /\ heard'[Len(heard) + 1] = r
      /\ \A j \in 1 .. Len(heard) : heard'[j] = heard[j]
  BY HeardMore DEF NInv, NavType
<1>2. /\ nav.mcp \in Taken /\ nav.fms \in Taken /\ nav.qnh \in Taken
      /\ nav.heading \in Taken /\ nav.modes \in Taken
      /\ r.mcp \in Int /\ r.fms \in Int /\ r.qnh \in Int /\ r.heading \in Int
      /\ r.modes \in Int /\ r.ts \in Int
  BY DEF NInv, NavType, Heard
<1>3. /\ nav'.fms = Take(nav.fms, r.fms)
      /\ nav'.mcp = IF r.fms = None THEN Take(nav.mcp, r.mcp) ELSE nav.mcp
      /\ nav'.qnh = Take(nav.qnh, r.qnh) /\ nav'.heading = Take(nav.heading, r.heading)
      /\ nav'.modes = Take(nav.modes, r.modes) /\ nav'.ts = r.ts
      /\ nav'.tc29TS = IF r.fms # None \/ r.mcp # None THEN r.ts ELSE nav.tc29TS
      /\ nav'.tc29SelAlt = IF r.fms # None THEN r.fms
                           ELSE IF r.mcp # None THEN r.mcp ELSE nav.tc29SelAlt
      /\ nav'.tc29FMS = IF r.fms # None THEN TRUE
                        ELSE IF r.mcp # None THEN FALSE ELSE nav.tc29FMS
      /\ nav'.last40 = nav.last40
      /\ nav' \in [mcp : {nav'.mcp}, fms : {nav'.fms}, qnh : {nav'.qnh},
                   heading : {nav'.heading}, modes : {nav'.modes}, ts : {nav'.ts},
                   tc29TS : {nav'.tc29TS}, tc29SelAlt : {nav'.tc29SelAlt},
                   tc29FMS : {nav'.tc29FMS}, last40 : {nav'.last40}]
  BY DEF setTargetState, NInv, NavType
<1>4. ASSUME NEW old \in Taken, NEW x \in Int PROVE Take(old, x) \in Taken
  BY <1>1 DEF Take, Taken
<1>5. NavType'
  <2>1. /\ nav'.mcp \in Taken /\ nav'.fms \in Taken /\ nav'.qnh \in Taken
        /\ nav'.heading \in Taken /\ nav'.modes \in Taken
    BY <1>2, <1>3, <1>4, ZenonT(60)
  <2>2. /\ nav'.ts \in Int /\ nav'.tc29TS \in Int /\ nav'.tc29SelAlt \in Int
        /\ nav'.tc29FMS \in BOOLEAN /\ nav'.last40 \in Nat
    BY <1>2, <1>3 DEF NInv, NavType
  <2>3. \A j \in 1 .. Len(heard') : heard'[j].ts <= navNow
    BY <1>1 DEF NInv, NavType
  <2> QED
    BY <1>1, <1>3, <2>1, <2>2, <2>3 DEF NInv, NavType
<1>6. /\ Sourced(heard', nav'.mcp) /\ Sourced(heard', nav'.fms)
      /\ Sourced(heard', nav'.qnh) /\ Sourced(heard', nav'.modes)
  <2>1. \A old \in Taken, x \in Int : Sourced(heard, old) =>
           Sourced(heard', old) /\ Sourced(heard', Take(old, x))
    BY TakeSourced, HeardMore DEF NInv, NavType
  <2> QED
    BY <1>2, <1>3, <2>1 DEF NInv
<1>7. TargetHeard' /\ ReplyHeard'
  <2>1. CASE r.fms = None /\ r.mcp = None
    BY <1>3, <2>1, MemoryKept
  <2>2. CASE r.fms # None \/ r.mcp # None
    <3>1. Len(heard) + 1 \in 1 .. Len(heard')
      BY <1>1
    <3>2. TargetHeard'
      BY <1>1, <1>3, <2>2, <3>1 DEF TargetHeard
    <3>3. ReplyHeard'
      BY <1>1, <1>3 DEF NInv, ReplyHeard
    <3> QED
      BY <3>2, <3>3
  <2> QED
    BY <2>1, <2>2
<1> QED
  BY <1>5, <1>6, <1>7 DEF NInv

(* What setBds40 accepts is backed by a message heard before.              *)
LEMMA AcceptedIsBacked ==
    ASSUME NInv, Skew <= NavExpiry, NEW r \in Heard, r.ts <= navNow,
           r.ts >= navNow - Skew, Accepted(r)
    PROVE  BackedIn(Append(heard, r), Len(heard) + 1)
<1> DEFINE k == Append(heard, r)
           n == Len(heard) + 1
<1>1. /\ k[n] = r /\ \A j \in 1 .. n - 1 : k[j] = heard[j] /\ heard[j] \in Heard
      /\ Len(heard) \in Nat /\ n - 1 = Len(heard)
  BY DEF NInv, NavType
<1>2. CASE /\ tc29Current(r.ts)
           /\ near(IF nav.tc29FMS THEN r.fms ELSE r.mcp, nav.tc29SelAlt)
  <2>1. PICK j \in 1 .. Len(heard) :
            /\ heard[j].kind = "tc29" /\ heard[j].ts = nav.tc29TS
            /\ IF nav.tc29FMS THEN heard[j].fms # None /\ heard[j].fms = nav.tc29SelAlt
               ELSE heard[j].mcp # None /\ heard[j].mcp = nav.tc29SelAlt
    BY <1>2 DEF NInv, TargetHeard, tc29Current
  <2>2. Away(r.ts, heard[j].ts) <= NavExpiry
    BY <1>2, <2>1 DEF tc29Current
  <2>3. \/ heard[j].fms # None /\ near(r.fms, heard[j].fms)
        \/ heard[j].mcp # None /\ near(r.mcp, heard[j].mcp)
    BY <1>2, <2>1
  <2>4. j \in 1 .. n - 1 /\ k[j] = heard[j]
    BY <1>1
  <2> HIDE DEF k, n
  <2> QED
    BY <1>1, <2>1, <2>2, <2>3, <2>4 DEF BackedIn, k, n
<1>3. CASE SeenTwice(r)
  <2> DEFINE j == nav.last40
  <2>1. /\ j \in 1 .. Len(heard) /\ heard[j].kind = "bds40"
        /\ r.ts - heard[j].ts <= NavExpiry /\ sameValues(heard[j], r)
    BY <1>3 DEF SeenTwice, NInv, ReplyHeard
  <2>2. Away(r.ts, heard[j].ts) <= NavExpiry
    <3>1. heard[j] \in Heard /\ heard[j].ts <= navNow
      BY <2>1 DEF NInv, NavType
    <3>2. /\ r.ts \in Int /\ heard[j].ts \in Int
          /\ navNow \in Int /\ Skew \in Int /\ NavExpiry \in Int
      BY <3>1, NavAssumption DEF NInv, NavType, Heard
    <3> HIDE DEF j
    <3> QED
      BY <2>1, <3>1, <3>2 DEF Away
  <2>3. sameValues(r, heard[j])
    BY <2>1 DEF sameValues
  <2>4. j \in 1 .. n - 1 /\ k[j] = heard[j]
    BY <1>1, <2>1
  <2> HIDE DEF k, n, j
  <2> QED
    BY <1>1, <2>1, <2>2, <2>3, <2>4 DEF BackedIn, k, n
<1> QED
  BY <1>2, <1>3 DEF Accepted

(* A reply: nav remembers it, and takes its values when it is accepted.    *)
LEMMA ReplyStep ==
    ASSUME NInv, Skew <= NavExpiry, NEW r \in Heard, r.kind = "bds40",
           r.ts <= navNow, r.ts >= navNow - Skew,
           heard' = Append(heard, r), navNow' = navNow, setBds40(r)
    PROVE  NInv'
<1>1. /\ heard' \in Seq(Heard) /\ Len(heard') = Len(heard) + 1 /\ Len(heard) \in Nat
      /\ heard'[Len(heard) + 1] = r
      /\ \A j \in 1 .. Len(heard) : heard'[j] = heard[j]
  BY HeardMore DEF NInv, NavType
<1>2. /\ nav.mcp \in Taken /\ nav.fms \in Taken /\ nav.qnh \in Taken
      /\ nav.heading \in Taken /\ nav.modes \in Taken
      /\ r.mcp \in Int /\ r.fms \in Int /\ r.qnh \in Int /\ r.modes \in Int
      /\ r.ts \in Int
  BY DEF NInv, NavType, Heard
<1>3. /\ Sourced(heard', nav.mcp) /\ Sourced(heard', nav.fms)
      /\ Sourced(heard', nav.qnh) /\ Sourced(heard', nav.modes)
  BY <1>2, HeardMore DEF NInv, NavType
<1>4. \A j \in 1 .. Len(heard') : heard'[j].ts <= navNow
  BY <1>1 DEF NInv, NavType
<1>5. CASE r.mcp = None /\ r.fms = None /\ r.qnh = None
  <2>1. nav' = nav
    BY <1>5 DEF setBds40
  <2>2. NavType'
    BY <1>1, <1>4, <2>1 DEF NInv, NavType
  <2>3. TargetHeard' /\ ReplyHeard'
    BY <2>1, MemoryKept
  <2> QED
    BY <1>3, <2>1, <2>2, <2>3 DEF NInv
<1> DEFINE n == [nav EXCEPT !.last40 = Len(heard) + 1]
<1>6. ASSUME ~(r.mcp = None /\ r.fms = None /\ r.qnh = None)
      PROVE  nav' = IF ~Accepted(r) THEN n
                    ELSE IF tc29Current(r.ts)
                    THEN [n EXCEPT !.fms = Take(@, r.fms), !.ts = r.ts]
                    ELSE [n EXCEPT !.fms = Take(@, r.fms), !.mcp = Take(@, r.mcp),
                                   !.qnh = Take(@, r.qnh), !.modes = Take(@, r.modes),
                                   !.ts = r.ts]
  BY <1>6, Zenon DEF setBds40
<1> HIDE DEF n
<1>n. /\ n.mcp = nav.mcp /\ n.fms = nav.fms /\ n.qnh = nav.qnh
      /\ n.heading = nav.heading /\ n.modes = nav.modes /\ n.ts = nav.ts
      /\ n.tc29TS = nav.tc29TS /\ n.tc29SelAlt = nav.tc29SelAlt
      /\ n.tc29FMS = nav.tc29FMS /\ n.last40 = Len(heard) + 1
      /\ n \in [mcp : {n.mcp}, fms : {n.fms}, qnh : {n.qnh}, heading : {n.heading},
                modes : {n.modes}, ts : {n.ts}, tc29TS : {n.tc29TS},
                tc29SelAlt : {n.tc29SelAlt}, tc29FMS : {n.tc29FMS}, last40 : {n.last40}]
  BY DEF n, NInv, NavType
<1>7. ASSUME ~(r.mcp = None /\ r.fms = None /\ r.qnh = None)
      PROVE  /\ nav'.fms = nav.fms \/ (Accepted(r) /\ nav'.fms = Take(nav.fms, r.fms))
             /\ nav'.mcp = nav.mcp \/ (Accepted(r) /\ nav'.mcp = Take(nav.mcp, r.mcp))
             /\ nav'.qnh = nav.qnh \/ (Accepted(r) /\ nav'.qnh = Take(nav.qnh, r.qnh))
             /\ nav'.modes = nav.modes \/ (Accepted(r) /\ nav'.modes = Take(nav.modes, r.modes))
             /\ nav'.heading = nav.heading /\ (nav'.ts = nav.ts \/ nav'.ts = r.ts)
             /\ nav'.tc29TS = nav.tc29TS /\ nav'.tc29SelAlt = nav.tc29SelAlt
             /\ nav'.tc29FMS = nav.tc29FMS /\ nav'.last40 = Len(heard) + 1
             /\ nav' \in [mcp : {nav'.mcp}, fms : {nav'.fms}, qnh : {nav'.qnh},
                          heading : {nav'.heading}, modes : {nav'.modes}, ts : {nav'.ts},
                          tc29TS : {nav'.tc29TS}, tc29SelAlt : {nav'.tc29SelAlt},
                          tc29FMS : {nav'.tc29FMS}, last40 : {nav'.last40}]
  <2>1. CASE ~Accepted(r)
    <3>1. nav' = n
      BY <1>6, <1>7, <2>1
    <3> QED
      BY <3>1, <1>n
  <2>2. CASE Accepted(r) /\ tc29Current(r.ts)
    <3>1. nav' = [n EXCEPT !.fms = Take(@, r.fms), !.ts = r.ts]
      BY <1>6, <1>7, <2>2
    <3> QED
      BY <2>2, <3>1, <1>n
  <2>3. CASE Accepted(r) /\ ~tc29Current(r.ts)
    <3>1. nav' = [n EXCEPT !.fms = Take(@, r.fms), !.mcp = Take(@, r.mcp),
                             !.qnh = Take(@, r.qnh), !.modes = Take(@, r.modes), !.ts = r.ts]
      BY <1>6, <1>7, <2>3
    <3> QED
      BY <2>3, <3>1, <1>n
  <2> QED
    BY <2>1, <2>2, <2>3
<1>8. ASSUME NEW old \in Taken, NEW x \in Int, Accepted(r), Sourced(heard, old)
      PROVE  Take(old, x) \in Taken /\ Sourced(heard', Take(old, x))
  <2>1. BackedIn(Append(heard, r), Len(heard) + 1)
    BY <1>8, AcceptedIsBacked
  <2> QED
    BY <1>8, <2>1, TakeSourced DEF NInv
<1>9. CASE ~(r.mcp = None /\ r.fms = None /\ r.qnh = None)
  <2>1. /\ nav'.mcp \in Taken /\ Sourced(heard', nav'.mcp)
        /\ nav'.fms \in Taken /\ Sourced(heard', nav'.fms)
        /\ nav'.qnh \in Taken /\ Sourced(heard', nav'.qnh)
        /\ nav'.modes \in Taken /\ Sourced(heard', nav'.modes)
    BY <1>2, <1>3, <1>7, <1>8, <1>9 DEF NInv
  <2>2. NavType'
    <3>1. /\ nav'.ts \in Int /\ nav'.tc29TS \in Int /\ nav'.tc29SelAlt \in Int
          /\ nav'.tc29FMS \in BOOLEAN /\ nav'.last40 \in Nat /\ nav'.heading \in Taken
      BY <1>1, <1>2, <1>7, <1>9 DEF NInv, NavType
    <3>2. nav' \in [mcp : Taken, fms : Taken, qnh : Taken, heading : Taken,
                    modes : Taken, ts : Int, tc29TS : Int, tc29SelAlt : Int,
                    tc29FMS : BOOLEAN, last40 : Nat]
      BY <1>7, <1>9, <2>1, <3>1
    <3> QED
      BY <1>1, <1>4, <3>2 DEF NInv, NavType
  <2>3. TargetHeard'
    BY <1>7, <1>9, MemoryKept
  <2>4. ReplyHeard'
    BY <1>1, <1>7, <1>9 DEF ReplyHeard
  <2> QED
    BY <2>1, <2>2, <2>3, <2>4 DEF NInv
<1> QED
  BY <1>5, <1>9

LEMMA HearNInv == ASSUME NInv, Skew <= NavExpiry, Hear PROVE NInv'
<1>1. PICK m \in NavMessages, late \in 0 .. Skew :
        LET r == [kind |-> m.kind, mcp |-> m.mcp, fms |-> m.fms, qnh |-> m.qnh,
                  heading |-> m.heading, modes |-> m.modes, ts |-> navNow - late]
        IN  /\ late <= navNow /\ navNow' = navNow
            /\ heard' = Append(heard, r)
            /\ \/ m.kind = "tc29" /\ setTargetState(r)
               \/ m.kind = "bds40" /\ setBds40(r)
               \/ UNCHANGED nav
  BY DEF Hear
<1> DEFINE r == [kind |-> m.kind, mcp |-> m.mcp, fms |-> m.fms, qnh |-> m.qnh,
                 heading |-> m.heading, modes |-> m.modes, ts |-> navNow - late]
<1>2. navNow \in Nat /\ Skew \in Nat /\ late \in 0 .. Skew /\ late <= navNow
  BY <1>1, NavAssumption DEF NInv, NavType
<1>3. navNow - late \in Nat /\ navNow - late <= navNow /\ navNow - late >= navNow - Skew
  BY <1>2
<1>4. m \in [kind : STRING, mcp : Int, fms : Int, qnh : Int, heading : Int, modes : Int]
  BY NavAssumption
<1>5. /\ r \in Heard /\ r.kind = m.kind /\ r.ts <= navNow /\ r.ts >= navNow - Skew
  BY <1>3, <1>4 DEF Heard
<1>6. /\ heard' = Append(heard, r) /\ navNow' = navNow
      /\ \/ r.kind = "tc29" /\ setTargetState(r)
         \/ r.kind = "bds40" /\ setBds40(r)
         \/ UNCHANGED nav
  BY <1>1
<1> HIDE DEF r
<1>7. CASE UNCHANGED nav
  <2>1. /\ heard' \in Seq(Heard) /\ Len(heard') = Len(heard) + 1 /\ Len(heard) \in Nat
        /\ heard'[Len(heard) + 1] = r
        /\ \A j \in 1 .. Len(heard) : heard'[j] = heard[j]
    BY <1>5, <1>6, HeardMore DEF NInv, NavType
  <2>2. \A j \in 1 .. Len(heard') : heard'[j].ts <= navNow
    BY <1>5, <2>1, SMTT(30) DEF NInv, NavType
  <2>3. NavType'
    BY <1>6, <1>7, <2>1, <2>2 DEF NInv, NavType
  <2>4. TargetHeard' /\ ReplyHeard'
    BY <1>5, <1>6, <1>7, MemoryKept
  <2>5. /\ nav.mcp \in Taken /\ nav.fms \in Taken /\ nav.qnh \in Taken
        /\ nav.modes \in Taken
    BY DEF NInv, NavType
  <2>6. /\ Sourced(heard', nav.mcp) /\ Sourced(heard', nav.fms)
        /\ Sourced(heard', nav.qnh) /\ Sourced(heard', nav.modes)
    BY <1>5, <1>6, <2>5, HeardMore DEF NInv, NavType
  <2> QED
    BY <1>7, <2>3, <2>4, <2>6 DEF NInv
<1> QED
  BY <1>5, <1>6, <1>7, TargetStep, ReplyStep

LEMMA StepNInv == ASSUME NInv, Skew <= NavExpiry, [NavNext]_navVars PROVE NInv'
<1>1. CASE Hear
  BY <1>1, HearNInv
<1>2. CASE NavTick
  <2>1. navNow' = navNow + 1 /\ nav' = nav /\ heard' = heard /\ navNow \in Nat
    BY <1>2 DEF NavTick, NInv, NavType
  <2>2. NavType'
    <3>1. \A j \in 1 .. Len(heard) : heard[j].ts <= navNow + 1
      <4> TAKE j \in 1 .. Len(heard)
      <4>1. heard[j] \in Heard /\ heard[j].ts <= navNow
        BY DEF NInv, NavType
      <4> QED
        BY <2>1, <4>1 DEF Heard
    <3> QED
      BY <2>1, <3>1 DEF NInv, NavType
  <2> QED
    BY <2>1, <2>2 DEF NInv, TargetHeard, ReplyHeard
<1>3. CASE UNCHANGED navVars
  BY <1>3 DEF navVars, NInv, NavType, TargetHeard, ReplyHeard
<1> QED
  BY <1>1, <1>2, <1>3 DEF NavNext

LEMMA CorroboratedHolds == ASSUME NInv PROVE Corroborated
<1>1. \A i : BackedIn(heard, i) => Backed(i)
  BY DEF BackedIn, Backed
<1>2. \A v : v # Absent /\ Sourced(heard, v) /\ heard[v.by].kind = "bds40" => Backed(v.by)
  BY <1>1 DEF Sourced
<1>3. \A f \in {"mcp", "fms", "qnh", "modes"} : Sourced(heard, nav[f])
  BY DEF NInv
<1> QED
  BY <1>2, <1>3 DEF Corroborated

-----------------------------------------------------------------------------
(* Sums.  FoldFunction takes the domain apart one element at a time; g is  *)
(* the function it defines on the sets of B.                               *)
FirstOf(s) == CHOOSE x \in s : TRUE

SumsOn(g, f, B) ==
    g = [s \in B |-> IF s = {} THEN 0 ELSE f[FirstOf(s)] + g[s \ {FirstOf(s)}]]

UpTo(S, n) == {s \in SUBSET S : Cardinality(s) <= n}

LEMMA FirstIn == \A s : s # {} => FirstOf(s) \in s
  BY DEF FirstOf

LEMMA Smaller ==
    ASSUME NEW S, IsFiniteSet(S), NEW s \in SUBSET S, s # {}
    PROVE  /\ s \ {FirstOf(s)} \in SUBSET S
           /\ Cardinality(s) \in Nat
           /\ Cardinality(s \ {FirstOf(s)}) = Cardinality(s) - 1
<1>1. IsFiniteSet(s) /\ FirstOf(s) \in s
  BY FirstIn, FS_Subset
<1>2. Cardinality(s) \in Nat /\ Cardinality(s \ {FirstOf(s)}) = Cardinality(s) - 1
  BY <1>1, FS_CardinalityType, FS_RemoveElement
<1> QED
  BY <1>2

LEMMA SumsExist ==
    ASSUME NEW S, IsFiniteSet(S), NEW f
    PROVE  \E g : SumsOn(g, f, SUBSET S)
<1> DEFINE Bad == {n \in Nat : ~ \E g : SumsOn(g, f, UpTo(S, n))}
<1>0. \A s \in SUBSET S : IsFiniteSet(s) /\ Cardinality(s) \in Nat /\ Cardinality(s) <= Cardinality(S)
  BY FS_Subset, FS_CardinalityType
<1>1. ASSUME NEW n \in Bad, \A m \in Bad : n <= m PROVE FALSE
  <2>1. CASE n = 0
    <3> DEFINE g == [s \in UpTo(S, 0) |-> 0]
    <3>1. \A s \in UpTo(S, 0) : s = {}
      <4>1. \A s \in UpTo(S, 0) : IsFiniteSet(s) /\ Cardinality(s) = 0
        BY <1>0 DEF UpTo
      <4> QED
        BY <4>1, FS_EmptySet
    <3>2. SumsOn(g, f, UpTo(S, 0))
      BY <3>1 DEF SumsOn
    <3> QED
      BY <2>1, <3>2
  <2>2. CASE n > 0
    <3>1. n - 1 \in Nat /\ n - 1 \notin Bad
      BY <1>1, <2>2
    <3>2. PICK g : SumsOn(g, f, UpTo(S, n - 1))
      BY <3>1
    <3> DEFINE h == [s \in UpTo(S, n) |-> IF s = {} THEN 0 ELSE f[FirstOf(s)] + g[s \ {FirstOf(s)}]]
    <3>3. ASSUME NEW s \in UpTo(S, n), s # {}
          PROVE  g[s \ {FirstOf(s)}] = h[s \ {FirstOf(s)}]
      <4> DEFINE t == s \ {FirstOf(s)}
      <4>1. t \in UpTo(S, n - 1) /\ t \in UpTo(S, n)
        BY <3>3, Smaller, <1>0 DEF UpTo
      <4> HIDE DEF t
      <4>2. g[t] = IF t = {} THEN 0 ELSE f[FirstOf(t)] + g[t \ {FirstOf(t)}]
        BY <3>2, <4>1 DEF SumsOn
      <4>3. h[t] = IF t = {} THEN 0 ELSE f[FirstOf(t)] + g[t \ {FirstOf(t)}]
        BY <4>1
      <4>4. g[t] = h[t]
        BY <4>2, <4>3
      <4> QED
        BY <4>4 DEF t
    <3>4. SumsOn(h, f, UpTo(S, n))
      BY <3>3 DEF SumsOn
    <3> QED
      BY <3>4
  <2> QED
    BY <2>1, <2>2
<1>2. Bad = {}
  BY <1>1, LeastExists
<1>3. UpTo(S, Cardinality(S)) = SUBSET S /\ Cardinality(S) \in Nat
  BY <1>0, FS_CardinalityType DEF UpTo
<1>4. \E g : SumsOn(g, f, UpTo(S, Cardinality(S)))
  BY <1>2, <1>3
<1> HIDE DEF Bad
<1> QED
  BY <1>3, <1>4, Zenon

LEMMA TotalIs ==
    ASSUME NEW f, IsFiniteSet(DOMAIN f)
    PROVE  \E g : SumsOn(g, f, SUBSET DOMAIN f) /\ TotalOf(f) = g[DOMAIN f]
<1> DEFINE g == CHOOSE g : SumsOn(g, f, SUBSET DOMAIN f)
<1>1. SumsOn(g, f, SUBSET DOMAIN f)
  BY SumsExist
<1>2. TotalOf(f) = g[DOMAIN f]
  BY DEF TotalOf, FoldFunction, FoldFunctionOnSet, MapThenFoldSet, SumsOn, FirstOf
<1> QED
  BY <1>1, <1>2

LEMMA TotalGrows ==
    ASSUME NEW S, IsFiniteSet(S), NEW f \in [S -> Nat], NEW a \in S
    PROVE  TotalOf([f EXCEPT ![a] = @ + 1]) = TotalOf(f) + 1
<1>1. PICK f2 : f2 = [f EXCEPT ![a] = @ + 1]
  OBVIOUS
<1>2. f2 \in [S -> Nat] /\ DOMAIN f = S /\ DOMAIN f2 = S
  BY <1>1
<1>3. PICK g : SumsOn(g, f, SUBSET S) /\ TotalOf(f) = g[S]
  BY <1>2, TotalIs
<1>4. PICK g2 : SumsOn(g2, f2, SUBSET S) /\ TotalOf(f2) = g2[S]
  BY <1>2, TotalIs
<1> DEFINE Fits(s) == g[s] \in Nat /\ g2[s] = g[s] + (IF a \in s THEN 1 ELSE 0)
           Bad == {n \in Nat : \E s \in SUBSET S : Cardinality(s) = n /\ ~ Fits(s)}
<1>5. \A s \in SUBSET S : Cardinality(s) \in Nat
  BY FS_Subset, FS_CardinalityType
<1>6. ASSUME NEW n \in Bad, \A m \in Bad : n <= m PROVE FALSE
  <2>1. PICK s \in SUBSET S : Cardinality(s) = n /\ ~ Fits(s)
    OBVIOUS
  <2>2. CASE s = {}
    <3>1. g[s] = 0 /\ g2[s] = 0
      BY <1>3, <1>4, <2>2 DEF SumsOn
    <3> QED
      BY <2>1, <2>2, <3>1
  <2>3. CASE s # {}
    <3> DEFINE x == FirstOf(s)
               t == s \ {x}
    <3>1. x \in s /\ t \in SUBSET S /\ Cardinality(t) = n - 1 /\ Cardinality(t) \in Nat
      BY <2>1, <2>3, FirstIn, Smaller, <1>5
    <3>2. Fits(t)
      <4>1. n - 1 \notin Bad
        BY <1>6, <3>1
      <4> QED
        BY <3>1, <4>1
    <3>3. g[s] = f[x] + g[t] /\ g2[s] = f2[x] + g2[t]
      BY <1>3, <1>4, <2>3 DEF SumsOn
    <3>4. f2[x] = f[x] + (IF x = a THEN 1 ELSE 0) /\ f[x] \in Nat /\ (a \in s <=> a \in t \/ x = a) /\ ~ (a \in t /\ x = a)
      BY <1>1, <3>1
    <3> HIDE DEF x, t
    <3>5. Fits(s)
      BY <3>2, <3>3, <3>4
    <3> QED
      BY <2>1, <3>5
  <2> QED
    BY <2>2, <2>3
<1>7. Bad \in SUBSET Nat
  OBVIOUS
<1>8. Bad = {}
  <2> HIDE DEF Bad
  <2> QED
    BY <1>6, <1>7, LeastExists
<1>9. Fits(S)
  BY <1>5, <1>8
<1> QED
  BY <1>1, <1>3, <1>4, <1>9

LEMMA TotalOfNone ==
    ASSUME NEW S, IsFiniteSet(S)
    PROVE  TotalOf([x \in S |-> 0]) = 0
<1> DEFINE f == [x \in S |-> 0]
<1>0. DOMAIN f = S
  OBVIOUS
<1>1. PICK g : SumsOn(g, f, SUBSET S) /\ TotalOf(f) = g[S]
  BY <1>0, TotalIs
<1> DEFINE Bad == {n \in Nat : \E s \in SUBSET S : Cardinality(s) = n /\ g[s] # 0}
<1>2. \A s \in SUBSET S : Cardinality(s) \in Nat
  BY FS_Subset, FS_CardinalityType
<1>3. ASSUME NEW n \in Bad, \A m \in Bad : n <= m PROVE FALSE
  <2>1. PICK s \in SUBSET S : Cardinality(s) = n /\ g[s] # 0
    OBVIOUS
  <2>2. s # {}
    BY <1>1, <2>1 DEF SumsOn
  <2> DEFINE t == s \ {FirstOf(s)}
  <2>3. FirstOf(s) \in S /\ t \in SUBSET S /\ Cardinality(t) = n - 1 /\ Cardinality(t) \in Nat
    BY <2>1, <2>2, FirstIn, Smaller, <1>2
  <2>4. g[s] = f[FirstOf(s)] + g[t]
    BY <1>1, <2>2 DEF SumsOn
  <2>5. g[t] = 0
    <3>1. n - 1 \notin Bad
      BY <1>3, <2>3
    <3> QED
      BY <2>3, <3>1
  <2> QED
    BY <2>1, <2>3, <2>4, <2>5
<1>4. Bad = {}
  BY <1>3, LeastExists
<1> QED
  BY <1>1, <1>2, <1>4

-----------------------------------------------------------------------------
(* Lists in order.                                                         *)

Increasing(l) == \A m, n \in 1 .. Len(l) : m < n => l[m] < l[n]

(* Where the last entry of s belongs when the ones before it increase.     *)
LEMMA PlaceExists ==
    ASSUME NEW L \in Nat, NEW s \in [1 .. L + 1 -> Nat],
           \A m, n \in 1 .. L : m < n => s[m] < s[n],
           \A n \in 1 .. L : s[n] # s[L + 1]
    PROVE  \E k \in 1 .. L + 1 :
              /\ \A n \in 1 .. L : n < k => s[n] < s[L + 1]
              /\ \A n \in 1 .. L : n >= k => s[L + 1] < s[n]
<1> DEFINE Above == {k \in 1 .. L + 1 : \A n \in 1 .. L : n >= k => s[L + 1] < s[n]}
<1>1. L + 1 \in Above
  OBVIOUS
<1>2. PICK k \in Above : \A j \in Above : k <= j
  <2>1. Above \in SUBSET Nat /\ Above # {}
    BY <1>1
  <2> HIDE DEF Above
  <2> QED
    BY <2>1, LeastExists
<1>3. ASSUME NEW n \in 1 .. L, n < k PROVE s[n] < s[L + 1]
  <2>1. ~ (s[L + 1] < s[n])
    <3> SUFFICES ASSUME s[L + 1] < s[n] PROVE FALSE
      OBVIOUS
    <3>1. \A m \in 1 .. L : m >= n => s[L + 1] < s[m]
      <4> TAKE m \in 1 .. L
      <4>1. s[m] \in Nat /\ s[n] \in Nat /\ s[L + 1] \in Nat
        OBVIOUS
      <4> QED
        BY <4>1
    <3> QED
      BY <1>2, <1>3, <3>1
  <2>2. s[n] \in Nat /\ s[L + 1] \in Nat
    OBVIOUS
  <2> QED
    BY <2>1, <2>2
<1> QED
  BY <1>2, <1>3

(* The order that puts it there.                                           *)
LEMMA OrderExists ==
    ASSUME NEW L \in Nat, NEW s \in [1 .. L + 1 -> Nat],
           \A m, n \in 1 .. L : m < n => s[m] < s[n],
           \A n \in 1 .. L : s[n] # s[L + 1]
    PROVE  \E p \in [1 .. L + 1 -> 1 .. L + 1] : Orders(p, s)
<1>1. PICK k \in 1 .. L + 1 :
         /\ \A n \in 1 .. L : n < k => s[n] < s[L + 1]
         /\ \A n \in 1 .. L : n >= k => s[L + 1] < s[n]
  BY PlaceExists
<1>2. PICK p : p = [n \in 1 .. L + 1 |-> IF n < k THEN n ELSE IF n = k THEN L + 1 ELSE n - 1]
  OBVIOUS
<1>3. /\ p \in [1 .. L + 1 -> 1 .. L + 1]
      /\ \A n \in 1 .. L + 1 : p[n] = IF n < k THEN n ELSE IF n = k THEN L + 1 ELSE n - 1
  BY <1>2
<1>4. ASSUME NEW m \in 1 .. L + 1 PROVE \E n \in 1 .. L + 1 : p[n] = m
  <2>1. CASE m < k
    <3>1. p[m] = m
      BY <1>3, <2>1
    <3> QED
      BY <3>1
  <2>2. CASE m = L + 1
    <3>1. p[k] = m
      BY <1>3, <2>2
    <3> QED
      BY <3>1
  <2>3. CASE m >= k /\ m <= L
    <3>1. m + 1 \in 1 .. L + 1 /\ p[m + 1] = m
      BY <1>3, <2>3
    <3> QED
      BY <3>1
  <2> QED
    BY <2>1, <2>2, <2>3
<1>5. ASSUME NEW m \in 1 .. L + 1, NEW n \in 1 .. L + 1, m < n PROVE s[p[m]] <= s[p[n]]
  <2>1. \A i \in 1 .. L + 1 : s[i] \in Nat
    OBVIOUS
  <2>2. /\ p[m] = IF m < k THEN m ELSE IF m = k THEN L + 1 ELSE m - 1
        /\ p[n] = IF n < k THEN n ELSE IF n = k THEN L + 1 ELSE n - 1
    BY <1>3
  <2>3. CASE n < k
    <3>1. p[m] = m /\ p[n] = n /\ m \in 1 .. L /\ n \in 1 .. L
      BY <2>2, <1>5, <2>3
    <3> QED
      BY <1>5, <2>1, <3>1
  <2>4. CASE n = k
    <3>1. p[m] = m /\ p[n] = L + 1 /\ m \in 1 .. L /\ m < k
      BY <2>2, <1>5, <2>4
    <3> QED
      BY <1>1, <2>1, <3>1
  <2>5. CASE n > k
    <3>1. n - 1 \in 1 .. L /\ p[n] = n - 1 /\ n - 1 >= k
      BY <2>2, <2>5
    <3>2. CASE m < k
      <4>1. p[m] = m /\ m \in 1 .. L /\ m < n - 1
        BY <2>2, <3>1, <3>2
      <4> QED
        BY <2>1, <3>1, <4>1
    <3>3. CASE m = k
      <4>1. p[m] = L + 1
        BY <2>2, <3>3
      <4> QED
        BY <1>1, <2>1, <3>1, <4>1
    <3>4. CASE m > k
      <4>1. p[m] = m - 1 /\ m - 1 \in 1 .. L /\ m - 1 < n - 1
        BY <2>2, <1>5, <3>4
      <4> QED
        BY <2>1, <3>1, <4>1
    <3> QED
      BY <3>2, <3>3, <3>4
  <2> QED
    BY <2>3, <2>4, <2>5
<1>6. DOMAIN s = 1 .. L + 1
  OBVIOUS
<1>7. Orders(p, s)
  BY <1>4, <1>5, <1>6, Zenon DEF Orders
<1> QED
  BY <1>3, <1>7

(* Ascending puts the last entry in its place.                             *)
LEMMA AscendingInserts ==
    ASSUME NEW L \in Nat, NEW s \in [1 .. L + 1 -> Nat],
           \A m, n \in 1 .. L : m < n => s[m] < s[n],
           \A n \in 1 .. L : s[n] # s[L + 1]
    PROVE  /\ Ascending(s) \in [1 .. L + 1 -> Nat]
           /\ \A m, n \in 1 .. L + 1 : m < n => Ascending(s)[m] < Ascending(s)[n]
           /\ Range(Ascending(s)) = Range(s)
<1> DEFINE D == 1 .. L + 1
<1>1. \A i, j \in D : i # j => s[i] # s[j]
  <2>1. \A i \in D : (i \in 1 .. L \/ i = L + 1) /\ s[i] \in Nat
    OBVIOUS
  <2>2. \A i, j \in 1 .. L : i # j => s[i] # s[j]
    <3> TAKE i \in 1 .. L, j \in 1 .. L
    <3>1. s[i] \in Nat /\ s[j] \in Nat
      BY <2>1
    <3>2. (i < j => s[i] < s[j]) /\ (j < i => s[j] < s[i])
      OBVIOUS
    <3> QED
      BY <3>1, <3>2
  <2> QED
    BY <2>1, <2>2
<1>2. DOMAIN s = D
  OBVIOUS
<1>3. PICK p \in [D -> D] : Orders(p, s) /\ Ascending(s) = [n \in D |-> s[p[n]]]
  <2> DEFINE order == CHOOSE p \in [DOMAIN s -> DOMAIN s] : Orders(p, s)
  <2>1. Ascending(s) = [n \in D |-> s[order[n]]]
    BY <1>2 DEF Ascending
  <2>2. PICK q \in [D -> D] : Orders(q, s)
    BY OrderExists
  <2> HIDE DEF D
  <2>3. order \in [D -> D] /\ Orders(order, s)
    BY <1>2, <2>2, Zenon
  <2> QED
    BY <2>1, <2>3, Zenon
<1>4. PICK t : t = Ascending(s)
  OBVIOUS
<1>5. t \in [D -> Nat] /\ DOMAIN t = D /\ \A n \in D : t[n] = s[p[n]] /\ p[n] \in D
  BY <1>3, <1>4
<1>6. \A m \in D : \E n \in D : p[n] = m
  BY <1>2, <1>3, Zenon DEF Orders
<1>7. Range(t) = Range(s)
  <2> HIDE DEF D
  <2>1. \A n \in D : \E m \in D : t[n] = s[m]
    BY <1>5
  <2>2. ASSUME NEW m \in D PROVE \E n \in D : t[n] = s[m]
    <3>1. PICK n \in D : p[n] = m
      BY <1>6, Zenon
    <3>2. t[n] = s[m]
      BY <1>5, <3>1, Zenon
    <3> QED
      BY <3>2
  <2>3. \A m \in D : \E n \in D : t[n] = s[m]
    BY <2>2, Zenon
  <2>4. \A y : y \in Range(t) <=> \E n \in D : t[n] = y
    BY <1>5, Zenon DEF Range
  <2>5. \A y : y \in Range(s) <=> \E n \in D : s[n] = y
    BY <1>2, Zenon DEF Range
  <2>6. \A y : y \in Range(t) <=> y \in Range(s)
    BY <2>1, <2>3, <2>4, <2>5, Zenon
  <2> QED
    BY <2>6, Zenon
<1>8. \A i, j \in D : p[i] = p[j] => i = j
  <2>1. p \in Surjection(D, D)
    BY <1>6 DEF Surjection
  <2>2. IsFiniteSet(D)
    BY FS_Interval
  <2>3. p \in Injection(D, D)
    BY <2>1, <2>2, FS_SurjSameCardinalityImpliesInj
  <2> QED
    BY <2>3 DEF Injection, IsInjective
<1>9. ASSUME NEW m \in D, NEW n \in D, m < n PROVE t[m] < t[n]
  <2>1. m # n
    BY <1>9
  <2>2. s[p[m]] # s[p[n]]
    BY <1>1, <1>5, <1>8, <2>1, Zenon
  <2>3. s[p[m]] <= s[p[n]]
    BY <1>2, <1>3, <1>9, Zenon DEF Orders
  <2>4. t[m] = s[p[m]] /\ t[n] = s[p[n]] /\ t[m] \in Nat /\ t[n] \in Nat
    BY <1>5
  <2> QED
    BY <2>2, <2>3, <2>4
<1> QED
  BY <1>4, <1>5, <1>7, <1>9, Zenon

LEMMA AppendedInOrder ==
    ASSUME NEW l \in Seq(Nat), Increasing(l), NEW x \in Nat, x \notin Range(l)
    PROVE  /\ Ascending(Append(l, x)) \in Seq(Nat)
           /\ Increasing(Ascending(Append(l, x)))
           /\ Range(Ascending(Append(l, x))) = Range(l) \cup {x}
<1>1. PICK L \in Nat : L = Len(l) /\ l \in [1 .. L -> Nat]
  OBVIOUS
<1>2. PICK s : s = Append(l, x)
  OBVIOUS
<1>3. /\ s \in [1 .. L + 1 -> Nat] /\ s[L + 1] = x
      /\ \A n \in 1 .. L : s[n] = l[n]
  <2>1. s \in Seq(Nat) /\ Len(s) = L + 1
    BY <1>1, <1>2
  <2>2. s \in [1 .. L + 1 -> Nat]
    BY <2>1, LenProperties
  <2>3. s[L + 1] = x /\ \A n \in 1 .. L : s[n] = l[n]
    BY <1>1, <1>2
  <2> QED
    BY <2>2, <2>3
<1>4. Range(s) = Range(l) \cup {x}
  <2>1. DOMAIN s = 1 .. L + 1 /\ DOMAIN l = 1 .. L
    BY <1>1, <1>3
  <2>2. \A n \in 1 .. L + 1 : n \in 1 .. L \/ n = L + 1
    BY <1>1
  <2>3. \A n \in 1 .. L : n \in 1 .. L + 1
    BY <1>1
  <2>4. \A y : (\E n \in 1 .. L + 1 : s[n] = y) <=> (\E m \in 1 .. L : l[m] = y) \/ y = x
    <3>1. L + 1 \in 1 .. L + 1
      OBVIOUS
    <3> QED
      BY <1>3, <2>2, <2>3, <3>1, Zenon
  <2> QED
    BY <2>1, <2>4, Zenon DEF Range
<1>5. \A m, n \in 1 .. L : m < n => s[m] < s[n]
  BY <1>1, <1>3, Zenon DEF Increasing
<1>6. \A n \in 1 .. L : s[n] # s[L + 1]
  BY <1>1, <1>3, Zenon DEF Range
<1>7. PICK t : t = Ascending(s)
  OBVIOUS
<1>8. t \in [1 .. L + 1 -> Nat] /\ (\A m, n \in 1 .. L + 1 : m < n => t[m] < t[n]) /\ Range(t) = Range(s)
  BY <1>3, <1>5, <1>6, <1>7, AscendingInserts, Zenon
<1>9. t \in Seq(Nat) /\ Len(t) = L + 1
  BY <1>8
<1>10. Increasing(t)
  BY <1>8, <1>9, Zenon DEF Increasing
<1> QED
  BY <1>2, <1>4, <1>7, <1>8, <1>9, <1>10, Zenon

-----------------------------------------------------------------------------
(* The tap program.                                                        *)

(* A source holds a position only of an aircraft it counted.               *)
InfoCounted ==
    /\ DOMAIN info = DataSources
    /\ \A s \in DataSources :
          /\ info[s].planes \subseteq Addresses /\ info[s].frames \in [Addresses -> Nat]
          /\ \A a \in info[s].planes : info[s].frames[a] > 0

(* Between the two reads of a row the position it has is still held.       *)
VInv ==
    /\ draw \in [at : {"idle", "first", "second"}, source : 0 .. WSHigh]
    /\ draw.at # "idle" => draw.source \in DataSources
    /\ rows = [s \in DataSources |-> [position |-> rows[s].position, count |-> rows[s].count]]
    /\ InfoCounted /\ PositionCounted /\ LogsFit
    /\ draw.at = "second" /\ rows[draw.source].position =>
          shown.selected \in info[draw.source].planes

LEMMA InitVInv == ViewInit => VInv
<1> SUFFICES ASSUME ViewInit PROVE VInv
  OBVIOUS
<1> USE DEF ViewInit, DataSources, Ingest, WSHigh
<1>1. draw = [at |-> "idle", source |-> 0]
  BY DEF AtRest
<1>2. \A s \in DataSources : rows[s] = [position |-> FALSE, count |-> 0]
  BY DEF BlankRow
<1>3. rows = [s \in DataSources |-> [position |-> rows[s].position, count |-> rows[s].count]]
  BY <1>2
<1>4. InfoCounted
  BY DEF InfoCounted, Empty
<1>5. LogsFit
  BY DEF LogsFit
<1> QED
  BY <1>1, <1>2, <1>3, <1>4, <1>5 DEF VInv, PositionCounted

(* A message only adds to the planes of a source and to their counts.      *)
LEMMA MessageKeepsVInv == ASSUME VInv, NEW b \in Busy, TapMessage(b) PROVE VInv'
<1>1. UNCHANGED <<draw, rows, shown, screen>>
  BY DEF TapMessage
<1>2. PICK a \in Addresses : info' = info \/ info' = [info EXCEPT ![b] = Updated(@, a)]
  BY DEF TapMessage, Locations
<1>3. ASSUME NEW s \in DataSources
      PROVE  /\ info'[s].planes \subseteq Addresses /\ info'[s].frames \in [Addresses -> Nat]
             /\ \A x \in info'[s].planes : info'[s].frames[x] > 0
             /\ info[s].planes \subseteq info'[s].planes
  <2>1. /\ info[s].planes \subseteq Addresses /\ info[s].frames \in [Addresses -> Nat]
        /\ \A x \in info[s].planes : info[s].frames[x] > 0
    BY DEF VInv, InfoCounted
  <2>0. info'[s] = info[s] \/ info'[s] = Updated(info[s], a)
    BY <1>2 DEF VInv, InfoCounted
  <2>2. CASE info'[s] = info[s]
    BY <2>1, <2>2
  <2>3. CASE info'[s].planes = info[s].planes \cup {a} /\ info'[s].frames = [info[s].frames EXCEPT ![a] = @ + 1]
    <3>1. info'[s].frames \in [Addresses -> Nat]
      BY <2>1, <2>3
    <3>2. info'[s].frames[a] = info[s].frames[a] + 1 /\ info[s].frames[a] \in Nat
      BY <2>1, <2>3
    <3>3. \A x \in Addresses : x # a => info'[s].frames[x] = info[s].frames[x]
      BY <2>1, <2>3
    <3> QED
      BY <2>1, <2>3, <3>1, <3>2, <3>3
  <2> QED
    <3>1. /\ Updated(info[s], a).planes = info[s].planes \cup {a}
          /\ Updated(info[s], a).frames = [info[s].frames EXCEPT ![a] = @ + 1]
      BY DEF Updated
    <3> QED
      BY <2>0, <2>2, <2>3, <3>1
<1>4. InfoCounted'
  BY <1>2, <1>3 DEF VInv, InfoCounted
<1>5. draw.at = "second" /\ rows[draw.source].position => shown.selected \in info'[draw.source].planes
  BY <1>3 DEF VInv
<1> QED
  BY <1>1, <1>4, <1>5 DEF VInv, PositionCounted, LogsFit

(* Drawing: the row that is between its two reads is left out.             *)
LEMMA DrawKeepsVInv == ASSUME VInv, DrawRow PROVE VInv'
<1> DEFINE s == draw.source
           sel == shown.selected
<1>1. UNCHANGED <<shown, screen, info>>
  BY DEF DrawRow, UnchangedData
<1>2. /\ draw \in [at : {"idle", "first", "second"}, source : 0 .. WSHigh]
      /\ draw.at \in {"first", "second"} => s \in DataSources
      /\ DOMAIN rows = DataSources
      /\ \A d \in DataSources : rows[d] = [position |-> rows[d].position, count |-> rows[d].count]
  BY DEF VInv
<1>3. CASE draw.at = "first" /\ Position(s) /\ draw' = [draw EXCEPT !.at = "second"]
  <2>1. draw' = [at |-> "second", source |-> s] /\ s \in DataSources /\ s \in 0 .. WSHigh
    BY <1>2, <1>3
  <2>2. /\ rows'[s] = [position |-> sel \in info[s].planes, count |-> 0]
        /\ \A d \in DataSources : d # s => rows'[d] = rows[d]
        /\ DOMAIN rows' = DataSources
    <3>1. PICK r : r = [position |-> sel \in info[s].planes, count |-> 0]
      BY Zenon
    <3>2. rows' = [rows EXCEPT ![s] = r]
      BY <1>3, <3>1, Zenon DEF Position
    <3>3. rows'[s] = r /\ (\A d \in DataSources : d # s => rows'[d] = rows[d]) /\ DOMAIN rows' = DataSources
      BY <1>2, <2>1, <3>2
    <3> QED
      BY <3>1, <3>3, Zenon
  <2>3. rows'[s].position <=> sel \in info[s].planes
    <3>1. PICK b : b = (sel \in info[s].planes)
      BY Zenon
    <3>2. rows'[s] = [position |-> b, count |-> 0]
      BY <2>2, <3>1, Zenon
    <3>3. rows'[s].position = b
      BY <3>2
    <3> QED
      BY <3>1, <3>3, Zenon
  <2>4. rows' = [d \in DataSources |-> [position |-> rows'[d].position, count |-> rows'[d].count]]
    <3>1. \A d \in DataSources : rows'[d] = [position |-> rows'[d].position, count |-> rows'[d].count]
      BY <1>2, <2>2
    <3> QED
      BY <1>3, <2>2, <3>1 DEF Position, VInv
  <2>5. PositionCounted'
    <3> SUFFICES ASSUME NEW d \in DataSources, rows'[d].position, draw' # [at |-> "second", source |-> d]
                 PROVE  rows'[d].count > 0
      BY DEF PositionCounted
    <3>1. d # s
      BY <2>1
    <3>2. draw # [at |-> "second", source |-> d] /\ rows'[d] = rows[d]
      BY <1>3, <2>2, <3>1
    <3> QED
      BY <3>2 DEF VInv, PositionCounted
  <2> QED
    BY <1>1, <2>1, <2>3, <2>4, <2>5 DEF VInv, InfoCounted, LogsFit
<1>4. CASE draw.at = "second" /\ Count(s) /\ RowDone
  <2>1. s \in DataSources /\ draw = [at |-> "second", source |-> s]
    BY <1>2, <1>4
  <2>2. /\ rows'[s] = [position |-> rows[s].position, count |-> info[s].frames[sel]]
        /\ \A d \in DataSources : d # s => rows'[d] = rows[d]
        /\ DOMAIN rows' = DataSources
    BY <1>2, <1>4, <2>1 DEF Count
  <2>3. /\ draw' \in [at : {"idle", "first", "second"}, source : 0 .. WSHigh]
        /\ draw'.at # "second" /\ (draw'.at # "idle" => draw'.source \in DataSources)
    BY <1>4, <2>1 DEF RowDone, AtRest, DataSources, Ingest, WSHigh
  <2>4. rows' = [d \in DataSources |-> [position |-> rows'[d].position, count |-> rows'[d].count]]
    <3>1. \A d \in DataSources : rows'[d] = [position |-> rows'[d].position, count |-> rows'[d].count]
      BY <1>2, <2>2
    <3>2. PICK c : c = info[s].frames[sel]
      BY Zenon
    <3>3. rows' = [rows EXCEPT ![s].count = c]
      BY <1>4, <3>2, Zenon DEF Count
    <3>4. rows' = [d \in DataSources |-> rows'[d]]
      BY <1>2, <3>3
    <3> QED
      BY <3>1, <3>4
  <2>5. ASSUME NEW d \in DataSources, rows'[d].position PROVE rows'[d].count > 0
    <3>1. CASE d = s
      <4>1. sel \in info[s].planes
        BY <2>1, <2>2, <2>5, <3>1 DEF VInv
      <4> QED
        BY <2>1, <2>2, <3>1, <4>1 DEF VInv, InfoCounted
    <3>2. CASE d # s
      <4>1. draw # [at |-> "second", source |-> d] /\ rows'[d] = rows[d]
        BY <2>1, <2>2, <3>2
      <4> QED
        BY <2>5, <4>1 DEF VInv, PositionCounted
    <3> QED
      BY <3>1, <3>2
  <2> QED
    BY <1>1, <2>3, <2>4, <2>5 DEF VInv, InfoCounted, LogsFit, PositionCounted
<1> QED
  BY <1>3, <1>4 DEF DrawRow

LEMMA SizedFits == ASSUME NEW h \in Nat, screen' = Sized(h) PROVE LogsFit'
<1> DEFINE top == StatsHeight + SelectedHeight
<1>1. PICK planes : planes = FitsOrNothing(20, top + 3 * HeadingHeight, h)
  OBVIOUS
<1>2. planes \in Int
  BY <1>1 DEF FitsOrNothing, StatsHeight, SelectedHeight, HeadingHeight
<1>3. PICK log : log = FitsOrNothing(15, top + planes + 4 * HeadingHeight, h)
  OBVIOUS
<1>4. screen' = [height |-> h, planes |-> planes, log |-> log]
  BY <1>1, <1>3 DEF Sized
<1>5. log > 0 => top + planes + 4 * HeadingHeight + log <= h
  BY <1>2, <1>3 DEF FitsOrNothing, StatsHeight, SelectedHeight, HeadingHeight
<1> QED
  BY <1>4, <1>5 DEF LogsFit

LEMMA StepVInv == VInv /\ [ViewNext]_viewVars => VInv'
<1> SUFFICES ASSUME VInv, [ViewNext]_viewVars PROVE VInv'
  OBVIOUS
<1>1. CASE UNCHANGED <<info, draw, rows, shown, screen>>
  BY <1>1 DEF VInv, InfoCounted, PositionCounted, LogsFit
<1>2. CASE UNCHANGED viewVars \/ ConnectTapper \/ OpenTap \/ IncomingFrame \/ KeyQuit
  BY <1>1, <1>2 DEF viewVars, ConnectTapper, OpenTap, IncomingFrame, KeyQuit, UnchangedData
<1>3. ASSUME NEW s \in Busy, ReaderSpins(s) PROVE VInv'
  BY <1>1, <1>3 DEF ReaderSpins
<1>4. CASE KeySource \/ KeySelect
  <2>1. UNCHANGED <<info, draw, rows, screen>> /\ draw.at = "idle"
    BY <1>4 DEF KeySource, KeySelect, AtLoop, UnchangedData
  <2> QED
    BY <2>1 DEF VInv, InfoCounted, PositionCounted, LogsFit
<1>5. CASE Resize
  <2>1. UNCHANGED <<info, draw, rows, shown>> /\ LogsFit'
    BY <1>5, SizedFits, ViewAssumption DEF Resize, UnchangedData
  <2> QED
    BY <2>1 DEF VInv, InfoCounted, PositionCounted
<1>6. CASE DrawList
  <2>1. UNCHANGED <<info, screen>> /\ draw.at = "idle"
    BY <1>6 DEF DrawList, AtLoop, UnchangedData
  <2>2. CASE rows' = [s \in DataSources |-> BlankRow] /\ draw' = draw
    <3>1. \A s \in DataSources : rows'[s] = [position |-> FALSE, count |-> 0]
      BY <2>2 DEF BlankRow
    <3>2. rows' = [s \in DataSources |-> [position |-> rows'[s].position, count |-> rows'[s].count]]
      BY <2>2, <3>1
    <3> QED
      BY <2>1, <2>2, <3>1, <3>2 DEF VInv, InfoCounted, PositionCounted, LogsFit
  <2>3. CASE draw' = [at |-> "first", source |-> Ingest] /\ rows' = rows
    <3>1. draw' \in [at : {"idle", "first", "second"}, source : 0 .. WSHigh] /\ draw'.source \in DataSources
      BY <2>3 DEF DataSources, Ingest, WSHigh
    <3>2. \A s \in DataSources : draw # [at |-> "second", source |-> s]
      BY <2>1
    <3> QED
      BY <2>1, <2>3, <3>1, <3>2 DEF VInv, InfoCounted, PositionCounted, LogsFit
  <2> QED
    BY <1>6, <2>2, <2>3 DEF DrawList
<1> QED
  BY <1>2, <1>3, <1>4, <1>5, <1>6, MessageKeepsVInv, DrawKeepsVInv DEF ViewNext

(* The books of the callbacks.                                             *)
SourceKept(i) ==
    /\ i \in [count : Nat, planes : SUBSET Addresses, frames : [Addresses -> Nat], icaos : Seq(Nat)]
    /\ Increasing(i.icaos) /\ Range(i.icaos) = i.planes
    /\ i.planes = {a \in Addresses : i.frames[a] > 0}
    /\ TotalOf(i.frames) = i.count

IncomingKept ==
    /\ incoming \in [feeders : SUBSET Tags, icaos : [{NoIcao} \cup Addresses -> Nat],
                     beast : Nat, avr : Nat, sbs1 : Nat]
    /\ TotalOf(incoming.icaos) = incoming.beast + incoming.avr + incoming.sbs1

(* What is listed, drawn and selected is a plane of some source.           *)
TInv ==
    /\ DOMAIN info = DataSources /\ shown.source \in DataSources
    /\ \A s \in DataSources : SourceKept(info[s])
    /\ IncomingKept
    /\ shown = [source |-> shown.source, list |-> shown.list, selected |-> shown.selected]
    /\ OnlyAsked

LEMMA EmptyKept == SourceKept(Empty)
<1>1. Empty.icaos = <<>> /\ Empty.planes = {} /\ Empty.count = 0 /\ Empty.frames = [a \in Addresses |-> 0]
  BY DEF Empty
<1>2. Empty \in [count : Nat, planes : SUBSET Addresses, frames : [Addresses -> Nat], icaos : Seq(Nat)]
  BY DEF Empty
<1>3. TotalOf(Empty.frames) = 0
  BY <1>1, TotalOfNone, ViewAssumption
<1>4. Range(Empty.icaos) = {} /\ Increasing(Empty.icaos)
  BY <1>1 DEF Range, Increasing
<1> QED
  BY <1>1, <1>2, <1>3, <1>4 DEF SourceKept

(* sourceInfo.update: an aircraft not counted before gets its place in the *)
(* list, and one frame more is one more in the total.                      *)
LEMMA UpdatedKept ==
    ASSUME NEW i, SourceKept(i), NEW a \in Addresses
    PROVE  SourceKept(Updated(i, a))
<1> DEFINE u == Updated(i, a)
           f == [i.frames EXCEPT ![a] = @ + 1]
<1>1. /\ i.count \in Nat /\ i.planes \in SUBSET Addresses
      /\ i.frames \in [Addresses -> Nat] /\ i.icaos \in Seq(Nat)
  BY DEF SourceKept
<1>2. u.count = i.count + 1 /\ u.planes = i.planes \cup {a} /\ u.frames = f
  BY DEF Updated
<1>3. u.icaos = IF i.frames[a] = 0 THEN Ascending(Append(i.icaos, a)) ELSE i.icaos
  BY DEF Updated
<1>4. f \in [Addresses -> Nat] /\ f[a] = i.frames[a] + 1 /\ \A x \in Addresses : x # a => f[x] = i.frames[x]
  BY <1>1
<1>5. u.planes = {x \in Addresses : u.frames[x] > 0}
  <2>1. i.planes = {x \in Addresses : i.frames[x] > 0}
    BY DEF SourceKept
  <2>2. i.frames[a] \in Nat
    BY <1>1
  <2> HIDE DEF u, f
  <2>3. f[a] > 0
    BY <1>4, <2>2
  <2> QED
    BY <1>2, <1>4, <2>1, <2>3
<1>6. TotalOf(u.frames) = u.count
  <2>1. TotalOf(f) = TotalOf(i.frames) + 1
    BY <1>1, TotalGrows, ViewAssumption
  <2> QED
    BY <1>2, <2>1 DEF SourceKept
<1>7. u.icaos \in Seq(Nat) /\ Increasing(u.icaos) /\ Range(u.icaos) = u.planes
  <2>1. Increasing(i.icaos) /\ Range(i.icaos) = i.planes /\ i.planes = {x \in Addresses : i.frames[x] > 0}
    BY DEF SourceKept
  <2>2. CASE i.frames[a] = 0
    <3>1. a \notin Range(i.icaos) /\ a \in Nat
      BY <2>1, <2>2, ViewAssumption
    <3>2. /\ Ascending(Append(i.icaos, a)) \in Seq(Nat)
          /\ Increasing(Ascending(Append(i.icaos, a)))
          /\ Range(Ascending(Append(i.icaos, a))) = Range(i.icaos) \cup {a}
      BY <1>1, <2>1, <3>1, AppendedInOrder
    <3>3. u.icaos = Ascending(Append(i.icaos, a))
      BY <1>3, <2>2, Zenon
    <3> HIDE DEF u
    <3> QED
      BY <1>2, <2>1, <3>2, <3>3, Zenon
  <2>3. CASE i.frames[a] # 0
    <3>1. a \in i.planes
      BY <1>1, <2>1, <2>3
    <3>2. u.icaos = i.icaos
      BY <1>3, <2>3, Zenon
    <3> HIDE DEF u
    <3> QED
      BY <1>1, <1>2, <2>1, <3>1, <3>2
  <2> QED
    BY <2>2, <2>3
<1>8. u \in [count : Nat, planes : SUBSET Addresses, frames : [Addresses -> Nat], icaos : Seq(Nat)]
  <2>1. PICK l : l = u.icaos
    OBVIOUS
  <2>2. u = [count |-> i.count + 1, planes |-> i.planes \cup {a}, frames |-> f, icaos |-> l]
    BY <1>3, <2>1 DEF Updated
  <2> HIDE DEF u, f
  <2> QED
    BY <1>1, <1>4, <1>7, <2>1, <2>2
<1> QED
  BY <1>5, <1>6, <1>7, <1>8 DEF SourceKept

LEMMA InitTInv == ViewInit => TInv
<1> SUFFICES ASSUME ViewInit PROVE TInv
  OBVIOUS
<1>1. /\ info = [s \in DataSources |-> Empty]
      /\ incoming = [feeders |-> {}, icaos |-> [a \in {NoIcao} \cup Addresses |-> 0], beast |-> 0, avr |-> 0, sbs1 |-> 0]
      /\ shown = [source |-> WSLow, list |-> <<>>, selected |-> NoIcao]
  BY DEF ViewInit, BuildTables
<1>2. \A s \in DataSources : info[s] = Empty
  BY <1>1
<1>3. IncomingKept
  <2>1. IsFiniteSet({NoIcao} \cup Addresses)
    BY FS_AddElement, ViewAssumption
  <2>2. TotalOf([a \in {NoIcao} \cup Addresses |-> 0]) = 0
    BY <2>1, TotalOfNone
  <2> QED
    BY <1>1, <2>2 DEF IncomingKept
<1>4. OnlyAsked
  <2>1. Empty.planes = {}
    BY DEF Empty
  <2>2. Range(shown.list) = {}
    BY <1>1 DEF Range
  <2> QED
    BY <1>1, <1>2, <2>1, <2>2 DEF OnlyAsked
<1> QED
  BY <1>1, <1>2, <1>3, <1>4, EmptyKept DEF TInv, DataSources, Ingest, WSLow, WSHigh

(* natsTap and maybeSend pass what the filter lets through.                *)
LEMMA MessageKeepsTInv == ASSUME TInv, NEW b \in Busy, TapMessage(b) PROVE TInv'
<1>1. UNCHANGED <<filter, incoming, shown>>
  BY DEF TapMessage
<1>2. PICK loc \in Locations :
         info' = IF Wanted(b, loc) THEN [info EXCEPT ![b] = Updated(@, loc.icao)] ELSE info
  BY DEF TapMessage
<1>3. PICK a \in Addresses : a = loc.icao
  BY DEF Locations
<1>4. CASE ~ Wanted(b, loc)
  <2>1. info' = info
    BY <1>2, <1>4
  <2> QED
    BY <1>1, <2>1 DEF TInv, IncomingKept, OnlyAsked
<1>5. CASE Wanted(b, loc)
  <2>1. info' = [info EXCEPT ![b] = Updated(@, a)]
    BY <1>2, <1>3, <1>5
  <2>2. filter.icao # NoIcao => a = filter.icao
    BY <1>3, <1>5 DEF Wanted
  <2>3. ASSUME NEW s \in DataSources
        PROVE  /\ SourceKept(info'[s])
               /\ filter.icao # NoIcao => info'[s].planes \subseteq {filter.icao}
    <3>1. SourceKept(info[s]) /\ (filter.icao # NoIcao => info[s].planes \subseteq {filter.icao})
      BY DEF TInv, OnlyAsked
    <3>2. CASE s = b
      <4>1. info'[s] = Updated(info[s], a)
        BY <2>1, <3>2 DEF TInv
      <4>2. Updated(info[s], a).planes = info[s].planes \cup {a}
        BY DEF Updated
      <4>3. SourceKept(Updated(info[s], a))
        BY <3>1, UpdatedKept
      <4> QED
        BY <2>2, <3>1, <4>1, <4>2, <4>3
    <3>3. CASE s # b
      <4>1. info'[s] = info[s]
        BY <2>1, <3>3 DEF TInv
      <4> QED
        BY <3>1, <4>1
    <3> QED
      BY <3>2, <3>3
  <2>4. DOMAIN info' = DataSources
    BY <2>1 DEF TInv
  <2>5. OnlyAsked'
    BY <1>1, <2>3 DEF TInv, OnlyAsked
  <2> QED
    BY <1>1, <2>3, <2>4, <2>5 DEF TInv, IncomingKept
<1> QED
  BY <1>4, <1>5

(* handleIncomingData counts by type what it counts by aircraft.           *)
LEMMA FrameKeepsTInv == ASSUME TInv, IncomingFrame PROVE TInv'
<1>1. UNCHANGED <<filter, info, shown>>
  BY DEF IncomingFrame
<1>2. PICK type \in {"beast", "avr", "sbs1"}, tag \in Tags, icao \in {NoIcao} \cup Addresses :
      \E decodes \in Outcomes(type) :
          incoming' = IF Counted(type, decodes)
                      THEN [[incoming EXCEPT !.feeders = @ \cup {tag}] EXCEPT !.icaos[icao] = @ + 1, ![type] = @ + 1]
                      ELSE [incoming EXCEPT !.feeders = @ \cup {tag}]
  BY DEF IncomingFrame
<1>3. PICK fs, f, b, v, c :
         /\ incoming = [feeders |-> fs, icaos |-> f, beast |-> b, avr |-> v, sbs1 |-> c]
         /\ fs \in SUBSET Tags /\ f \in [{NoIcao} \cup Addresses -> Nat]
         /\ b \in Nat /\ v \in Nat /\ c \in Nat
         /\ TotalOf(f) = b + v + c
  BY DEF TInv, IncomingKept
<1>4. PICK fs2 \in SUBSET Tags : fs2 = fs \cup {tag}
  BY <1>3
<1>5. CASE incoming' = [incoming EXCEPT !.feeders = @ \cup {tag}]
  <2>1. incoming' = [feeders |-> fs2, icaos |-> f, beast |-> b, avr |-> v, sbs1 |-> c]
    BY <1>3, <1>4, <1>5
  <2>2. IncomingKept'
    BY <1>3, <2>1 DEF IncomingKept
  <2> QED
    BY <1>1, <2>2 DEF TInv, OnlyAsked
<1>6. CASE incoming' = [[incoming EXCEPT !.feeders = @ \cup {tag}] EXCEPT !.icaos[icao] = @ + 1, ![type] = @ + 1]
  <2>1. PICK f2 : f2 = [f EXCEPT ![icao] = @ + 1]
    OBVIOUS
  <2>2. f2 \in [{NoIcao} \cup Addresses -> Nat]
    BY <1>3, <2>1
  <2>3. TotalOf(f2) = b + v + c + 1
    <3>1. IsFiniteSet({NoIcao} \cup Addresses)
      BY FS_AddElement, ViewAssumption
    <3>2. TotalOf(f2) = TotalOf(f) + 1
      BY <1>3, <2>1, <3>1, TotalGrows
    <3> QED
      BY <1>3, <3>2
  <2>4. ASSUME type = "beast" PROVE IncomingKept'
    <3>1. incoming' = [feeders |-> fs2, icaos |-> f2, beast |-> b + 1, avr |-> v, sbs1 |-> c]
      BY <1>3, <1>4, <1>6, <2>1, <2>4
    <3>2. TotalOf(f2) = (b + 1) + v + c
      BY <1>3, <2>3
    <3> QED
      BY <1>3, <2>2, <3>1, <3>2 DEF IncomingKept
  <2>5. ASSUME type = "avr" PROVE IncomingKept'
    <3>1. incoming' = [feeders |-> fs2, icaos |-> f2, beast |-> b, avr |-> v + 1, sbs1 |-> c]
      BY <1>3, <1>4, <1>6, <2>1, <2>5
    <3>2. TotalOf(f2) = b + (v + 1) + c
      BY <1>3, <2>3
    <3> QED
      BY <1>3, <2>2, <3>1, <3>2 DEF IncomingKept
  <2>6. ASSUME type = "sbs1" PROVE IncomingKept'
    <3>1. incoming' = [feeders |-> fs2, icaos |-> f2, beast |-> b, avr |-> v, sbs1 |-> c + 1]
      BY <1>3, <1>4, <1>6, <2>1, <2>6
    <3>2. TotalOf(f2) = b + v + (c + 1)
      BY <1>3, <2>3
    <3> QED
      BY <1>3, <2>2, <3>1, <3>2 DEF IncomingKept
  <2>7. IncomingKept'
    BY <2>4, <2>5, <2>6
  <2> QED
    BY <1>1, <2>7 DEF TInv, OnlyAsked
<1> QED
  BY <1>2, <1>5, <1>6

LEMMA StepTInv == TInv /\ [ViewNext]_viewVars => TInv'
<1> SUFFICES ASSUME TInv, [ViewNext]_viewVars PROVE TInv'
  OBVIOUS
<1>1. CASE UNCHANGED <<filter, info, incoming, shown>>
  BY <1>1 DEF TInv, IncomingKept, OnlyAsked
<1>2. CASE UNCHANGED viewVars \/ ConnectTapper \/ OpenTap \/ KeyQuit \/ Resize \/ DrawRow
  BY <1>1, <1>2 DEF viewVars, ConnectTapper, OpenTap, KeyQuit, Resize, DrawRow, UnchangedData
<1>3. ASSUME NEW s \in Busy, ReaderSpins(s) PROVE TInv'
  BY <1>1, <1>3 DEF ReaderSpins
<1>4. ASSUME UNCHANGED <<filter, info, incoming>>,
             shown' = [source |-> shown'.source, list |-> shown'.list, selected |-> shown'.selected],
             shown'.source \in DataSources,
             filter.icao # NoIcao => /\ Range(shown'.list) \subseteq {filter.icao}
                                     /\ shown'.selected \in {NoIcao, filter.icao}
      PROVE  TInv'
  BY <1>4 DEF TInv, IncomingKept, OnlyAsked
<1>5. PICK src, l, sel : shown = [source |-> src, list |-> l, selected |-> sel]
  BY DEF TInv
<1>6. /\ src \in DataSources
      /\ filter.icao # NoIcao => Range(l) \subseteq {filter.icao} /\ sel \in {NoIcao, filter.icao}
  BY <1>5 DEF TInv, OnlyAsked
<1>7. CASE KeySource
  <2>1. PICK src2 : src2 = IF src = WSHigh THEN Ingest ELSE src + 1
    OBVIOUS
  <2>2. src2 \in DataSources
    BY <1>6, <2>1 DEF DataSources, Ingest, WSHigh
  <2>3. shown' = [source |-> src2, list |-> l, selected |-> sel] /\ UNCHANGED <<filter, info, incoming>>
    BY <1>5, <1>7, <2>1 DEF KeySource, UnchangedData
  <2> QED
    BY <1>4, <1>6, <2>2, <2>3
<1>8. CASE KeySelect
  <2>1. UNCHANGED <<filter, info, incoming>>
    BY <1>8 DEF KeySelect, UnchangedData
  <2>2. CASE shown' = shown
    BY <1>1, <2>1, <2>2
  <2>3. ASSUME NEW a \in Range(shown.list), shown' = [shown EXCEPT !.selected = a] PROVE TInv'
    <3>1. shown' = [source |-> src, list |-> l, selected |-> a] /\ a \in Range(l)
      BY <1>5, <2>3
    <3> QED
      BY <1>4, <1>6, <2>1, <3>1
  <2> QED
    BY <1>8, <2>2, <2>3 DEF KeySelect
<1>9. CASE DrawList
  <2>1. shown' = [source |-> src, list |-> info[src].icaos, selected |-> sel] /\ UNCHANGED <<filter, info, incoming>>
    BY <1>5, <1>9 DEF DrawList, UnchangedData
  <2>2. Range(info[src].icaos) = info[src].planes
    BY <1>6 DEF TInv, SourceKept
  <2>3. filter.icao # NoIcao => info[src].planes \subseteq {filter.icao}
    BY <1>6 DEF TInv, OnlyAsked
  <2> QED
    BY <1>4, <1>6, <2>1, <2>2, <2>3
<1> QED
  BY <1>2, <1>3, <1>7, <1>8, <1>9, MessageKeepsTInv, FrameKeepsTInv DEF ViewNext

LEMMA TallyHolds == TInv => Tally /\ OnlyAsked
<1> SUFFICES ASSUME TInv PROVE Tally
  BY DEF TInv
<1>1. ASSUME NEW s \in DataSources
      PROVE  LET i == info[s]
             IN  /\ \A n \in 1 .. Len(i.icaos) - 1 : i.icaos[n] < i.icaos[n + 1]
                 /\ Range(i.icaos) = i.planes
                 /\ i.planes = {a \in Addresses : i.frames[a] > 0}
                 /\ TotalOf(i.frames) = i.count
  <2>1. SourceKept(info[s])
    BY DEF TInv
  <2>2. \A n \in 1 .. Len(info[s].icaos) - 1 : info[s].icaos[n] < info[s].icaos[n + 1]
    <3>1. PICK L \in Nat : L = Len(info[s].icaos)
      BY <2>1 DEF SourceKept
    <3>2. \A n \in 1 .. L - 1 : n \in 1 .. L /\ n + 1 \in 1 .. L /\ n < n + 1
      BY <3>1
    <3> QED
      BY <2>1, <3>1, <3>2 DEF SourceKept, Increasing
  <2> QED
    BY <2>1, <2>2 DEF SourceKept
<1> QED
  BY <1>1 DEF TInv, IncomingKept, Tally

-----------------------------------------------------------------------------
(* The parts are taken together.                                           *)
LEMMA Parts ==
    ASSUME [Next]_vars
    PROVE  [PlaneNext]_planeVars /\ [NavNext]_navVars /\ [LossyNext]_lossyVars /\ [ViewNext]_viewVars
  BY DEF Next, vars

(* What is kept of an aircraft comes from what was heard (plane.go,        *)
(* lossy_list.go): a position from two halves that were there, each half   *)
(* used once, and of the frames the newest.                                *)
THEOREM RecordsAreSound == Spec => []RecordsSound
<1>1. Init => PInv /\ LInv
  BY InitPInv, InitLInv DEF Init
<1>2. PInv /\ LInv /\ [Next]_vars => PInv' /\ LInv'
  BY Parts, StepPInv, StepLInv
<1>3. PInv /\ LInv => RecordsSound
  BY PlanesSound, ListSound DEF RecordsSound
<1> QED
  BY <1>1, <1>2, <1>3, PTL DEF Spec

(* Whatever a frame changed is announced when its handler ends (frame.go). *)
THEOREM ChangesAreAnnounced == Spec => []ChangesAnnounced
<1>1. Init => PInv
  BY InitPInv DEF Init
<1>2. PInv /\ [Next]_vars => PInv'
  BY Parts, StepPInv
<1>3. PInv => ChangesAnnounced
  BY PlanesSound
<1> QED
  BY <1>1, <1>2, <1>3, PTL DEF Spec

(* The history of a plane is a track (track.go): each step of a handler    *)
(* adds a point that fits or leaves the track alone.  It needs the check   *)
(* of the velocity to be on, as it is in every tracker the programs build. *)
THEOREM HistoryFollows == ASSUME VelocityCheck PROVE Spec => HistoryIsTrack
<1>1. Init => PInv /\ T!TInit
  BY InitPInv DEF Init, PlaneInit, NewPlane, T!TInit
<1>2. PInv /\ [Next]_vars => PInv'
  BY Parts, StepPInv
<1>3. PInv /\ PInv' /\ [Next]_vars => [T!TNext]_(plane.history)
  BY Parts, TrackStep
<1> QED
  BY <1>1, <1>2, <1>3, PTL DEF Spec, HistoryIsTrack, T!TSpec

(* A selected altitude, a pressure or a mode taken from an inferred 4,0    *)
(* reply was backed by another message of the last minute (nav.go), when   *)
(* no worker is as late as a minute.                                       *)
THEOREM ShownIsCorroborated ==
    ASSUME Skew <= NavExpiry PROVE Spec => []Corroborated
<1>1. Init => NInv
  BY InitNInv DEF Init
<1>2. NInv /\ [Next]_vars => NInv'
  BY Parts, StepNInv
<1>3. NInv => Corroborated
  BY CorroboratedHolds
<1> QED
  BY <1>1, <1>2, <1>3, PTL DEF Spec

(* What the tap program shows is what the taps brought: the books of its   *)
(* sources and of the incoming frames agree (update, handleIncomingData),  *)
(* only what was asked for is listed and selected (natsTap, maybeSend), a  *)
(* row with a position has updates for any that come between its two reads *)
(* (selectedTableRow), and the log is only where the screen has room for   *)
(* it (handleWindowSizing).                                                *)
THEOREM ViewIsTrue == Spec => []ViewTrue
<1>1. Init => VInv /\ TInv
  BY InitVInv, InitTInv DEF Init
<1>2. VInv /\ TInv /\ [Next]_vars => VInv' /\ TInv'
  BY Parts, StepVInv, StepTInv
<1>3. VInv /\ TInv => ViewTrue
  BY TallyHolds DEF VInv, ViewTrue
<1> QED
  BY <1>1, <1>2, <1>3, PTL DEF Spec
=============================================================================
