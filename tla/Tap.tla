--------------------------------- MODULE Tap ---------------------------------
(***************************************************************************)
(* The ingest tap end to end: cmd/ingest_tap asks every pw_ingest over     *)
(* NATS to forward matching frames (IncomingDataTap), and takes the wish   *)
(* back when it goes (Disconnect); lib/middleware/ingest_tap.go keeps the  *)
(* wishes of one pw_ingest in a doubly linked list, which the goroutines   *)
(* of processQueue walk without a lock while the handler of requests links *)
(* and unlinks.                                                            *)
(*                                                                         *)
(* Every pw_ingest subscribes to the requests with a queue group of its    *)
(* own, so each gets every request, in the order of the tapper; a tapper   *)
(* takes the first answer.  The subject of a tap is random and stands for  *)
(* the tapper: one condition per tapper.  A reader sees one pointer at a   *)
(* time, as it was before or after an unlinking, so linking and unlinking  *)
(* are one step each.                                                      *)
(***************************************************************************)
EXTENDS Integers, Sequences, FiniteSets

CONSTANTS Tappers, Ingests,
          Nil,              \* the nil pointer
          Matches,          \* the sets of taps a frame may match
          MaxTapFrames,     \* bound on the frames queued
          MaxTimeouts       \* bound on requests that take longer than a second

ASSUME TapAssumption == Nil \notin Tappers

VARIABLES head, tail,       \* per pw_ingest: the ends of its list
          next, prev,       \* per pw_ingest and tapper: its condition's links
          inbox,            \* per pw_ingest: requests not handled yet
          fed,              \* frames queued so far
          queued,           \* per pw_ingest: frames in tap.queue, as the taps they match
          walk,             \* per pw_ingest: [frame, at] of a processQueue
          tapper,           \* per tapper: where IncomingDataTap and Disconnect are
          replies,          \* per tapper: answers to its current request
          noted,            \* per tapper: its headers are in pw.taps
          exit,             \* per tapper: its exit channel is registered
          reader,           \* per tapper: its goroutine, none, select, writing or ended
          channel,          \* per tapper: messages in its subscription
          timeouts

tapVars == <<head, tail, next, prev, inbox, fed, queued, walk,
             tapper, replies, noted, exit, reader, channel, timeouts>>
ingestVars == <<head, tail, next, prev, inbox, fed, queued, walk>>
listVars == <<head, tail, next, prev>>

Resting == [frame |-> {}, at |-> Nil, busy |-> FALSE]

TapInit ==
    /\ head = [i \in Ingests |-> Nil] /\ tail = [i \in Ingests |-> Nil]
    /\ next = [i \in Ingests |-> [t \in Tappers |-> Nil]]
    /\ prev = [i \in Ingests |-> [t \in Tappers |-> Nil]]
    /\ inbox = [i \in Ingests |-> <<>>] /\ queued = [i \in Ingests |-> <<>>]
    /\ fed = 0 /\ walk = [i \in Ingests |-> Resting]
    /\ tapper = [t \in Tappers |-> "out"]
    /\ replies = [t \in Tappers |-> 0] /\ channel = [t \in Tappers |-> 0]
    /\ noted = [t \in Tappers |-> FALSE] /\ exit = [t \in Tappers |-> FALSE]
    /\ reader = [t \in Tappers |-> "none"] /\ timeouts = 0

(* ------------------------------------------------- the side of a pw_ingest *)

(* append                                                                  *)
Linked(i, t) ==
    /\ head' = IF head[i] = Nil THEN [head EXCEPT ![i] = t] ELSE head
    /\ tail' = [tail EXCEPT ![i] = t]
    /\ prev' = IF head[i] = Nil THEN prev ELSE [prev EXCEPT ![i][t] = tail[i]]
    /\ next' = IF head[i] = Nil THEN next ELSE [next EXCEPT ![i][tail[i]] = t]

(* remove: the conditions that the loop meets, from the head on: the least *)
(* set with the head that nextItem does not lead out of.                   *)
Reaches(i) ==
    {t \in Tappers : \A S \in SUBSET Tappers :
        head[i] \in S \cup {Nil} /\ (\A x \in S : next[i][x] \in S \cup {Nil}) => t \in S}

(* Mutant: the tail is not moved back.                                     *)
UnlinkedTailKept(i, t) ==
    LET p == prev[i][t]
        n == next[i][t]
    IN  /\ head' = IF head[i] = t THEN [head EXCEPT ![i] = n] ELSE head
        /\ tail' = tail
        /\ next' = [next EXCEPT ![i] = [x \in Tappers |->
                       IF x = t THEN Nil ELSE IF x = p THEN n ELSE @[x]]]
        /\ prev' = [prev EXCEPT ![i] = [x \in Tappers |->
                       IF x = t THEN Nil ELSE IF x = n THEN p ELSE @[x]]]

Unlinked(i, t) ==
    LET p == prev[i][t]
        n == next[i][t]
    IN  /\ head' = IF head[i] = t THEN [head EXCEPT ![i] = n] ELSE head
        /\ tail' = IF tail[i] = t THEN [tail EXCEPT ![i] = p] ELSE tail
        /\ next' = [next EXCEPT ![i] = [x \in Tappers |->
                       IF x = t THEN Nil ELSE IF x = p THEN n ELSE @[x]]]
        /\ prev' = [prev EXCEPT ![i] = [x \in Tappers |->
                       IF x = t THEN Nil ELSE IF x = n THEN p ELSE @[x]]]

(* Mutant: the loop of remove ends at the first condition.                 *)
AppliedAtHead(i, rq) ==
    \/ rq.action = "add" /\ Linked(i, rq.tap)
    \/ rq.action = "remove" /\ rq.tap = head[i] /\ Unlinked(i, rq.tap)
    \/ rq.action = "remove" /\ rq.tap # head[i] /\ UNCHANGED listVars

Applied(i, rq) ==
    \/ rq.action = "add" /\ Linked(i, rq.tap)
    \/ rq.action = "remove" /\ rq.tap \in Reaches(i) /\ Unlinked(i, rq.tap)
    \/ rq.action = "remove" /\ rq.tap \notin Reaches(i) /\ UNCHANGED listVars

(* requestHandler: one request after the other, each is acknowledged.      *)
HandleRequest(i) ==
    /\ inbox[i] # <<>>
    /\ LET rq == Head(inbox[i])
       IN  /\ Applied(i, rq)
           /\ replies' = IF tapper[rq.tap] = rq.action
                         THEN [replies EXCEPT ![rq.tap] = @ + 1] ELSE replies
    /\ inbox' = [inbox EXCEPT ![i] = Tail(@)]
    /\ UNCHANGED <<fed, queued, walk, tapper, noted, exit, reader, channel, timeouts>>

(* Handle: frames are queued while there is a condition.                   *)
QueueFrame(i) ==
    /\ fed < MaxTapFrames /\ head[i] # Nil
    /\ fed' = fed + 1
    /\ \E match \in Matches : queued' = [queued EXCEPT ![i] = Append(@, match)]
    /\ UNCHANGED <<listVars, inbox, walk, tapper, replies, noted, exit, reader, channel, timeouts>>

(* processQueue takes a frame and reads the head of the list;              *)
StartWalk(i) ==
    /\ ~walk[i].busy /\ queued[i] # <<>>
    /\ walk' = [walk EXCEPT ![i] = [frame |-> Head(queued[i]), at |-> head[i], busy |-> TRUE]]
    /\ queued' = [queued EXCEPT ![i] = Tail(@)]
    /\ UNCHANGED <<listVars, inbox, fed, tapper, replies, noted, exit, reader, channel, timeouts>>

(* it publishes what matches the condition it stands at and reads its      *)
(* nextItem, which is nil when the condition was unlinked meanwhile: the   *)
(* conditions behind it miss the frame.                                    *)
WalkOn(i) ==
    /\ walk[i].busy
    /\ LET t == walk[i].at
       IN  IF t = Nil
           THEN walk' = [walk EXCEPT ![i] = Resting] /\ UNCHANGED channel
           ELSE /\ walk' = [walk EXCEPT ![i].at = next[i][t]]
                /\ channel' = IF t \in walk[i].frame /\ reader[t] \in {"select", "writing"}
                              THEN [channel EXCEPT ![t] = @ + 1] ELSE channel
    /\ UNCHANGED <<listVars, inbox, fed, queued, tapper, replies, noted, exit, reader, timeouts>>

(* --------------------------------------------------- the side of a tapper *)

(* Request: published to every pw_ingest.                                  *)
AskAll(t, action) == inbox' = [i \in Ingests |-> Append(inbox[i], [action |-> action, tap |-> t])]

(* Mutant: the exit channel is registered before the subscription is made. *)
SubscribeRegistersFirst(t) ==
    /\ tapper[t] = "out"
    /\ exit' = [exit EXCEPT ![t] = TRUE]
    /\ \/ /\ tapper' = [tapper EXCEPT ![t] = "closing"]
          /\ UNCHANGED <<inbox, reader>>
       \/ /\ tapper' = [tapper EXCEPT ![t] = "add"]
          /\ reader' = [reader EXCEPT ![t] = "select"]
          /\ AskAll(t, "add")
    /\ UNCHANGED <<listVars, fed, queued, walk, replies, noted, channel, timeouts>>

(* IncomingDataTap: subscribes, which may fail and leads to Disconnect,    *)
(* registers the exit channel, starts the reader and asks.                 *)
Subscribe(t) ==
    /\ tapper[t] = "out"
    /\ \/ /\ tapper' = [tapper EXCEPT ![t] = "closing"]
          /\ UNCHANGED <<inbox, exit, reader>>
       \/ /\ tapper' = [tapper EXCEPT ![t] = "add"]
          /\ exit' = [exit EXCEPT ![t] = TRUE]
          /\ reader' = [reader EXCEPT ![t] = "select"]
          /\ AskAll(t, "add")
    /\ UNCHANGED <<listVars, fed, queued, walk, replies, noted, channel, timeouts>>

(* The first answer: the headers go into pw.taps, to be taken back later.  *)
Added(t) ==
    /\ tapper[t] = "add" /\ replies[t] > 0
    /\ tapper' = [tapper EXCEPT ![t] = "on"]
    /\ noted' = [noted EXCEPT ![t] = TRUE]
    /\ replies' = [replies EXCEPT ![t] = 0]
    /\ UNCHANGED <<ingestVars, exit, reader, channel, timeouts>>

(* No answer within a second: the error ends the program, by Disconnect.   *)
TimedOut(t) ==
    /\ tapper[t] \in {"add", "remove"} /\ replies[t] = 0 /\ timeouts < MaxTimeouts
    /\ timeouts' = timeouts + 1
    /\ tapper' = [tapper EXCEPT ![t] = "closing"]
    /\ UNCHANGED <<ingestVars, replies, noted, exit, reader, channel>>

(* Disconnect, RemoveIncomingTap: the user quits; the tap is taken back.   *)
RemoveTap(t) ==
    /\ tapper[t] = "on" /\ noted[t]
    /\ tapper' = [tapper EXCEPT ![t] = "remove"]
    /\ AskAll(t, "remove")
    /\ UNCHANGED <<listVars, fed, queued, walk, replies, noted, exit, reader, channel, timeouts>>

Removed(t) ==
    /\ tapper[t] = "remove" /\ replies[t] > 0
    /\ tapper' = [tapper EXCEPT ![t] = "closing"]
    /\ replies' = [replies EXCEPT ![t] = 0]
    /\ UNCHANGED <<ingestVars, noted, exit, reader, channel, timeouts>>

(* Disconnect ends by handing true to every exit channel there is: the     *)
(* channel has no buffer, its reader must be at the select.                *)
SendExit(t) ==
    /\ tapper[t] = "closing" /\ (exit[t] => reader[t] = "select")
    /\ tapper' = [tapper EXCEPT ![t] = "gone"]
    /\ reader' = IF exit[t] THEN [reader EXCEPT ![t] = "ended"] ELSE reader
    /\ channel' = [channel EXCEPT ![t] = 0]
    /\ UNCHANGED <<ingestVars, replies, noted, exit, timeouts>>

(* The goroutine of IncomingDataTap: a message goes to the writer.         *)
ReadTap(t) ==
    /\ \/ /\ reader[t] = "select" /\ channel[t] > 0
          /\ reader' = [reader EXCEPT ![t] = "writing"]
          /\ channel' = [channel EXCEPT ![t] = @ - 1]
       \/ /\ reader[t] = "writing"
          /\ reader' = [reader EXCEPT ![t] = "select"]
          /\ UNCHANGED channel
    /\ UNCHANGED <<ingestVars, tapper, replies, noted, exit, timeouts>>

IngestStep(i) == HandleRequest(i) \/ StartWalk(i) \/ WalkOn(i)
TapperStep(t) == Added(t) \/ Removed(t) \/ SendExit(t)

TapNext ==
    \/ \E i \in Ingests : IngestStep(i) \/ QueueFrame(i)
    \/ \E t \in Tappers : TapperStep(t) \/ ReadTap(t) \/ Subscribe(t) \/ TimedOut(t) \/ RemoveTap(t)

(* ------------------------------------------------------------ properties *)

(* From the head along nextItem and from the tail along prevItem the list  *)
(* of a pw_ingest holds the same conditions, and its ends are nil together *)
(* and have nothing before and behind them: no order of requests of        *)
(* several tappers cuts a tap off or leaves one that was taken back.       *)
ListIntact ==
    \A i \in Ingests :
        LET in == Reaches(i)
        IN  /\ (head[i] = Nil) = (tail[i] = Nil)
            /\ head[i] # Nil => tail[i] \in in /\ prev[i][head[i]] = Nil /\ next[i][tail[i]] = Nil
            /\ \A t \in in : next[i][t] # Nil => prev[i][next[i][t]] = t
            /\ \A t \in Tappers \ in : next[i][t] = Nil /\ prev[i][t] = Nil

(* A tapper that went, and whose requests were all answered in time, is    *)
(* forgotten by every pw_ingest, also by those whose answer came second.   *)
TapTakenBack ==
    \A t \in Tappers :
        (tapper[t] = "gone" /\ timeouts = 0) ~> (\A i \in Ingests : t \notin Reaches(i))

(* Disconnect ends, whatever failed before: every exit channel it hands    *)
(* its true to has a goroutine that reads it.                              *)
DisconnectEnds == \A t \in Tappers : tapper[t] = "closing" ~> tapper[t] = "gone"
=============================================================================
