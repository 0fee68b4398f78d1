----------------------------- MODULE MCServices -----------------------------
(***************************************************************************)
(* The services around the pipeline, each with goroutines of its own that  *)
(* come up, fail and end: the sink, the maps of HAProxy, the connection to *)
(* its socket, the bridges to the MLAT servers, the listeners of runway    *)
(* and its end, the filter with its sweeper, the regions of the feeders.   *)
(* They share nothing in this instance: a behaviour runs one of them,      *)
(* chosen at the start, and leaves the others alone.                       *)
(***************************************************************************)
EXTENDS Sink, HaproxyMaps, HaproxyClient, MlatBridge, Runway, BTreeFilter, FeederRegions

VARIABLE part

vars == <<part, sinkVars, haVars, hcVars, bridgeVars, runwayVars, treeVars, regionVars>>

Parts == {"sink", "haproxy", "client", "bridge", "runway", "filter", "regions"}

Somewhere == CHOOSE p \in Places : TRUE

Init ==
    /\ part \in Parts
    /\ SinkInit /\ HaInit /\ HcInit /\ BridgeInit /\ RunwayInit /\ TreeInit /\ RegionInit
    /\ (part # "sink" => collect) /\ (part # "client" => server)
    /\ part # "runway" => authenticator /\ disk = 1
    /\ part # "regions" => \A k \in RegionFeeders : place[k] = {Somewhere}

(* Two overlapping features, one of a region that is not known.            *)
Overlap == <<[fid |-> 7, region |-> "EUR", contains |-> {<<1, 2>>}],
             [fid |-> 8, region |-> "XXX", contains |-> {<<1, 2>>, <<2, 2>>}]>>

(* Only the variables of part p change.                                    *)
Only(p) ==
    /\ part = p /\ UNCHANGED part
    /\ p # "sink" => UNCHANGED sinkVars
    /\ p # "haproxy" => UNCHANGED haVars
    /\ p # "client" => UNCHANGED hcVars
    /\ p # "bridge" => UNCHANGED bridgeVars
    /\ p # "runway" => UNCHANGED runwayVars
    /\ p # "filter" => UNCHANGED treeVars
    /\ p # "regions" => UNCHANGED regionVars

Next ==
    \/ Only("sink") /\ SinkNext
    \/ Only("haproxy") /\ HaNext
    \/ Only("client") /\ HcNext
    \/ Only("bridge") /\ BridgeNext
    \/ Only("runway") /\ RunwayNext
    \/ Only("filter") /\ TreeNext
    \/ Only("regions") /\ RegionNext

(* Weak fairness of an action of a part, in the behaviours that run it.    *)
SinkFair == WF_sinkVars(part = "sink" /\ SendStep)
            /\ \A h \in Handlers : WF_sinkVars(part = "sink" /\ HandlerStep(h))

HaFair ==
    /\ WF_haVars(part = "haproxy" /\ FillStep) /\ WF_haVars(part = "haproxy" /\ LiveStep)
    /\ WF_haVars(part = "haproxy" /\ PointStep) /\ SF_haVars(part = "haproxy" /\ Swap)

HcFair ==
    /\ WF_hcVars(part = "client" /\ ServerReturns) /\ WF_hcVars(part = "client" /\ RunStep)
    /\ WF_hcVars(part = "client" /\ SessionDone) /\ WF_hcVars(part = "client" /\ CloseChannel)

BridgeFair ==
    /\ WF_bridgeVars(part = "bridge" /\ Poison)
    /\ \A s \in Sides : WF_bridgeVars(part = "bridge" /\ CopyStep(s))

RunwayFair ==
    /\ \A l \in Listeners : WF_runwayVars(part = "runway" /\ ListenerStep(l))
    /\ \A c \in Connections : WF_runwayVars(part = "runway" /\ ConnectionStep(c))
    /\ WF_runwayVars(part = "runway" /\ EndStep) /\ WF_runwayVars(part = "runway" /\ ForceExit)
    /\ WF_runwayVars(part = "runway" /\ MainStep)

TreeFair ==
    /\ WF_treeVars(part = "filter" /\ Sweep) /\ WF_treeVars(part = "filter" /\ TreeTick)
    /\ \A w \in TreeWorkers : WF_treeVars(part = "filter" /\ HandleStep(w))

Spec == Init /\ [][Next]_vars /\ SinkFair /\ HaFair /\ HcFair /\ BridgeFair /\ RunwayFair /\ TreeFair

(* The properties of the parts are properties of the behaviours that run   *)
(* them; where the start does not fulfil one, that is said here.           *)

(* Recovers of HaproxyClient: after the last absence of HAProxy the client *)
(* is connected again and no caller waits for an answer for ever.          *)
ClientRecovers == part = "client" => Recovers

(* Admitted of HaproxyMaps: every feeder of the list gets into both maps,  *)
(* also after a restart of HAProxy and after commands that failed.         *)
MapsAdmit == part = "haproxy" => Admitted

(* Nothing is lost or made up on the way through a service: the records    *)
(* the sink has sent, the bytes of a bridge, the certificate a listener    *)
(* serves, the frames the filter passes and the region of a feeder.        *)
NothingMadeUp ==
    /\ Settled /\ NoByteLost /\ ServedWhole
    /\ OnceWithinAge /\ AroundAPlaceItHad /\ OneFeature

(* What is owed comes about in spite of failures: changes are published,   *)
(* valid feeders admitted, invalid ones expelled, a lost connection made   *)
(* again, an old record forgotten.                                         *)
DueComesAbout == Delivered /\ MapsAdmit /\ Expelled /\ ClientRecovers /\ Forgotten

(* What is told to end ends, and takes with it what it started: the client *)
(* of HAProxy, the bridge of an invalid feeder, both listeners of runway   *)
(* if one fails, the reloading of certificates, the process on a signal.   *)
EndsWhenTold == CloseEnds /\ BridgeEnds /\ BothOrNone /\ ReloadingEnds /\ SignalEnds
=============================================================================
