-------------------------- MODULE FeederAuthProofs --------------------------
(***************************************************************************)
(* TLAPS proofs about FeederAuth, for any number of feeders, connections   *)
(* and feeder lists.  What bounds the connections of a feeder is not the   *)
(* flag that Authenticate looks at but the counter the handler registers:  *)
(* it is in the registry for as long as the connection is served.          *)
(***************************************************************************)
EXTENDS FeederAuth, TLAPS

-----------------------------------------------------------------------------
(* The inductive invariant.                                                *)

(* The counter of a served connection is registered with Prometheus.       *)
ServedIsRegistered ==
    \A c \in Conns : Registered(c) => Counter(c) \in registry

(* Only the MLAT handler dials out.                                        *)
DialIsMlat == \A c \in Conns : pc[c] = "dial" => ProtoOf[c] = "MLAT"

IInv ==
    /\ TypeOK
    /\ DialIsMlat
    /\ ServedIsRegistered
    /\ OneServedPerCounter
    /\ FlagAccounted

-----------------------------------------------------------------------------
(* The initial state satisfies the inductive invariant.                    *)
LEMMA InitIInv == Init => IInv
<1> SUFFICES ASSUME Init PROVE IInv
  OBVIOUS
<1>1. TypeOK
  BY FeederAuthAssumption DEF Init, TypeOK, FeederLists, Places
<1>2. \A c \in Conns : ~ Registered(c)
  BY DEF Init, Registered
<1> QED
  BY <1>1, <1>2
  DEF Init, IInv, DialIsMlat, ServedIsRegistered, OneServedPerCounter,
      FlagAccounted

(* The shape of the state is preserved by every step.                      *)
LEMMA TypeStep ==
    ASSUME TypeOK, [Next]_vars
    PROVE  TypeOK'
<1> USE FeederAuthAssumption DEF cacheVars, muVars, refVars, connVars
<1>1. ASSUME NEW c \in Conns, NEW l \in Places, Goto(c, l),
             UNCHANGED <<cacheVars, muVars, now, refVars, label, pill,
                         registry>>
      PROVE  TypeOK'
  BY <1>1 DEF TypeOK, Goto
<1>2. ASSUME NEW c \in Conns
      PROVE  KeyOf[c] \in Keys /\ ProtoOf[c] \in Protocols
             /\ Slot(c) \in Keys \X Protocols
  BY <1>2 DEF Slot
<1>3. ASSUME NEW c \in Conns, \/ Handshake(c) \/ IsValid(c) \/ IsConnected(c)
                              \/ IsConnectingTooFrequently(c) \/ Dial(c)
                              \/ RegisterFails(c)
      PROVE  TypeOK'
  <2>1. PICK l \in Places : Goto(c, l)
    BY <1>3 DEF Handshake, IsValid, IsConnected, IsConnectingTooFrequently,
                Check, Dial, RegisterFails, Places, Goto
  <2>2. UNCHANGED <<cacheVars, muVars, now, refVars, label, pill, registry>>
    BY <1>3 DEF Handshake, IsValid, IsConnected, IsConnectingTooFrequently,
                Check, Dial, RegisterFails
  <2> QED
    BY <1>1, <2>1, <2>2
<1>4. ASSUME NEW c \in Conns, Get(c) PROVE TypeOK'
  <2>1. CASE feeders[KeyOf[c]] = None
    BY <1>4, <2>1 DEF Get, Goto, TypeOK, Places
  <2>2. CASE feeders[KeyOf[c]] # None
    <3>1. feeders[KeyOf[c]] \in Labels
      BY <1>2, <2>2 DEF TypeOK, FeederLists
    <3> QED
      BY <1>4, <2>2, <3>1 DEF Get, Goto, TypeOK, Places
  <2> QED
    BY <2>1, <2>2
<1>5. ASSUME NEW c \in Conns, LockConnectionTime(c) PROVE TypeOK'
  BY <1>5 DEF LockConnectionTime, Goto, TypeOK, Places
<1>6. ASSUME NEW c \in Conns, SetConnected(c) PROVE TypeOK'
  <2>1. /\ connTime' \in [Keys \X Protocols -> Nat \union {None}]
        /\ connected' \subseteq Keys \X Protocols
    BY <1>2, <1>6 DEF SetConnected, TypeOK
  <2> QED
    BY <1>6, <2>1 DEF SetConnected, Goto, TypeOK, Places
<1>7. ASSUME NEW c \in Conns, Register(c) PROVE TypeOK'
  <2>1. Counter(c) \in Keys \X Protocols \X (Labels \union {None})
    BY <1>2 DEF Counter, TypeOK
  <2> QED
    BY <1>7, <2>1 DEF Register, Goto, TypeOK, Places
<1>8. ASSUME NEW c \in Conns, TakePoisonPill(c) \/ EndServing(c) PROVE TypeOK'
  BY <1>8 DEF TakePoisonPill, EndServing, Goto, TypeOK, Places
<1>9. ASSUME NEW c \in Conns, SetDisconnected(c) \/ Unregister(c) PROVE TypeOK'
  BY <1>9 DEF SetDisconnected, Unregister, Goto, TypeOK, Places
<1>10. CASE Fetch
  BY <1>10 DEF Fetch, TypeOK
<1>11. CASE Refresh
  <2>1. CASE LockFeeders \/ LockConnected
    BY <2>1 DEF LockFeeders, LockConnected, TypeOK
  <2>2. CASE Populate
    BY <2>2 DEF Populate, TypeOK
  <2> QED
    BY <1>11, <2>1, <2>2 DEF Refresh
<1>12. CASE Tick
  BY <1>12 DEF Tick, TypeOK
<1>13. CASE UNCHANGED vars
  BY <1>13 DEF vars, TypeOK
<1> QED
  BY <1>3, <1>4, <1>5, <1>6, <1>7, <1>8, <1>9, <1>10, <1>11, <1>12, <1>13
  DEF Next, Advance

(* A step of one connection, seen by what it does to the registry: its own *)
(* counter may come or go, and no other connection moves.                  *)
LEMMA RegistryStep ==
    ASSUME IInv, [Next]_vars
    PROVE  ServedIsRegistered' /\ OneServedPerCounter'
<1> USE DEF cacheVars, muVars, refVars, connVars
<1>1. ASSUME NEW c \in Conns, ~ Registered(c)', registry' = registry,
             \A d \in Conns \ {c} : pc'[d] = pc[d] /\ label'[d] = label[d]
      PROVE  ServedIsRegistered' /\ OneServedPerCounter'
  BY <1>1 DEF IInv, ServedIsRegistered, OneServedPerCounter, Registered, Counter
<1>2. ASSUME registry' = registry, label' = label,
             \A d \in Conns : Registered(d)' => Registered(d)
      PROVE  ServedIsRegistered' /\ OneServedPerCounter'
  BY <1>2 DEF IInv, ServedIsRegistered, OneServedPerCounter, Counter
<1>3. ASSUME NEW c \in Conns,
             \/ Handshake(c) \/ IsValid(c) \/ IsConnected(c)
             \/ IsConnectingTooFrequently(c) \/ Get(c)
             \/ LockConnectionTime(c) \/ SetConnected(c) \/ Dial(c)
             \/ RegisterFails(c)
      PROVE  ServedIsRegistered' /\ OneServedPerCounter'
  <2> USE <1>3 DEF Handshake, IsValid, IsConnected, IsConnectingTooFrequently,
                   Check, Get, LockConnectionTime, SetConnected, Dial,
                   RegisterFails, Goto
  <2>1. registry' = registry
    OBVIOUS
  <2>2. \A d \in Conns \ {c} : pc'[d] = pc[d] /\ label'[d] = label[d]
    BY DEF IInv, TypeOK
  <2>3. ~ Registered(c)'
    BY FeederAuthAssumption DEF IInv, TypeOK, DialIsMlat, Registered, Protocols
  <2> QED
    BY <1>1, <2>1, <2>2, <2>3
<1>4. ASSUME NEW c \in Conns, Register(c)
      PROVE  ServedIsRegistered' /\ OneServedPerCounter'
  <2>1. /\ registry' = registry \union {Counter(c)} /\ label' = label
        /\ \A d \in Conns \ {c} : Registered(d)' <=> Registered(d)
        /\ Counter(c) \notin registry
    BY <1>4 DEF Register, Goto, IInv, TypeOK, Registered
  <2> QED
    BY <2>1 DEF IInv, ServedIsRegistered, OneServedPerCounter, Counter
<1>5. ASSUME NEW c \in Conns, Unregister(c)
      PROVE  ServedIsRegistered' /\ OneServedPerCounter'
  <2>1. /\ registry' = registry \ {Counter(c)} /\ label' = label
        /\ Registered(c)
        /\ \A d \in Conns \ {c} : Registered(d)' <=> Registered(d)
        /\ ~ Registered(c)'
    BY <1>5 DEF Unregister, Goto, IInv, TypeOK, Registered
  <2> QED
    BY <2>1 DEF IInv, ServedIsRegistered, OneServedPerCounter, Counter
<1>6. ASSUME NEW c \in Conns,
             TakePoisonPill(c) \/ EndServing(c) \/ SetDisconnected(c)
      PROVE  ServedIsRegistered' /\ OneServedPerCounter'
  <2>1. \A d \in Conns : Registered(d)' => Registered(d)
    BY <1>6, FeederAuthAssumption
    DEF TakePoisonPill, EndServing, SetDisconnected, Goto, IInv, TypeOK,
        Registered, Protocols
  <2> QED
    BY <1>2, <1>6, <2>1 DEF TakePoisonPill, EndServing, SetDisconnected
<1>7. CASE Fetch \/ Refresh \/ Tick \/ UNCHANGED vars
  BY <1>2, <1>7 DEF Fetch, Refresh, LockFeeders, LockConnected, Populate, Tick,
                    vars, Registered
<1> QED
  BY <1>3, <1>4, <1>5, <1>6, <1>7 DEF Next, Advance

(* A marked feeder keeps a connection that will unmark it.                 *)
LEMMA FlagStep ==
    ASSUME IInv, [Next]_vars
    PROVE  FlagAccounted'
<1> USE DEF cacheVars, muVars, refVars, connVars
<1>1. ASSUME connected' \subseteq connected,
             \A c \in Conns : Slot(c) \in connected' /\ WillUnmark(c)
                                  => WillUnmark(c)'
      PROVE  FlagAccounted'
  BY <1>1 DEF IInv, FlagAccounted, Slot
<1>2. ASSUME NEW c \in Conns,
             \/ Handshake(c) \/ IsValid(c) \/ IsConnected(c)
             \/ IsConnectingTooFrequently(c) \/ Get(c)
             \/ LockConnectionTime(c) \/ Dial(c) \/ RegisterFails(c)
             \/ Register(c) \/ TakePoisonPill(c) \/ EndServing(c)
             \/ SetDisconnected(c) \/ Unregister(c)
      PROVE  FlagAccounted'
  <2>1. connected' \subseteq connected
    BY <1>2 DEF Handshake, IsValid, IsConnected, IsConnectingTooFrequently,
                Check, Get, LockConnectionTime, Dial, RegisterFails, Register,
                TakePoisonPill, EndServing, SetDisconnected, Unregister
  <2>2. ASSUME NEW d \in Conns, Slot(d) \in connected', WillUnmark(d)
        PROVE  WillUnmark(d)'
    BY <1>2, <2>2, FeederAuthAssumption
    DEF Handshake, IsValid, IsConnected, IsConnectingTooFrequently, Check, Get,
        LockConnectionTime, Dial, RegisterFails, Register, TakePoisonPill,
        EndServing, SetDisconnected, Unregister, Goto, IInv, TypeOK,
        WillUnmark, Protocols, Slot
  <2> QED
    BY <1>1, <2>1, <2>2
<1>3. ASSUME NEW c \in Conns, SetConnected(c) PROVE FlagAccounted'
  <2>1. /\ connected' = connected \union {Slot(c)}
        /\ WillUnmark(c)'
        /\ \A d \in Conns \ {c} : WillUnmark(d)' <=> WillUnmark(d)
    BY <1>3 DEF SetConnected, Goto, IInv, TypeOK, WillUnmark
  <2> QED
    BY <2>1 DEF IInv, FlagAccounted, Slot
<1>4. CASE Fetch \/ Refresh \/ Tick \/ UNCHANGED vars
  BY <1>1, <1>4 DEF Fetch, Refresh, LockFeeders, LockConnected, Populate, Tick,
                    vars, WillUnmark
<1> QED
  BY <1>2, <1>3, <1>4 DEF Next, Advance

(* Every step preserves the inductive invariant.                           *)
LEMMA StepIInv == IInv /\ [Next]_vars => IInv'
<1> SUFFICES ASSUME IInv, [Next]_vars PROVE IInv'
  OBVIOUS
<1>1. TypeOK'
  BY TypeStep DEF IInv
<1>2. DialIsMlat'
  <2>1. ASSUME NEW c \in Conns, pc'[c] = "dial", pc[c] # "dial"
        PROVE  SetConnected(c)
    BY <2>1 DEF Next, vars, connVars, Handshake, Advance, IsValid, IsConnected,
       IsConnectingTooFrequently, Check, Get, LockConnectionTime, SetConnected,
       Dial, RegisterFails, Register, TakePoisonPill, EndServing,
       SetDisconnected, Unregister, Goto, Fetch, Refresh, LockFeeders,
       LockConnected, Populate, Tick, IInv, TypeOK
  <2> QED
    BY <2>1 DEF IInv, DialIsMlat, SetConnected, Goto, TypeOK
<1> QED
  BY <1>1, <1>2, RegistryStep, FlagStep DEF IInv

-----------------------------------------------------------------------------
(* The variables keep their types, for any instance.                       *)
THEOREM TypeCorrect == Spec => []TypeOK
<1>1. IInv => TypeOK
  BY DEF IInv
<1> QED
  BY InitIInv, StepIInv, <1>1, PTL DEF Spec

(* Runway never serves two connections of a feeder under one label set,    *)
(* however many connections overtake each other between Authenticate and   *)
(* SetConnected.                                                           *)
THEOREM ServedOnce == Spec => []OneServedPerCounter
<1>1. IInv => OneServedPerCounter
  BY DEF IInv
<1> QED
  BY InitIInv, StepIInv, <1>1, PTL DEF Spec

(* A failed BEAST registration is the only way in which a feeder stays     *)
(* marked connected with no connection left to unmark it.                  *)
THEOREM FlagsAccounted == Spec => []FlagAccounted
<1>1. IInv => FlagAccounted
  BY DEF IInv
<1> QED
  BY InitIInv, StepIInv, <1>1, PTL DEF Spec
=============================================================================
