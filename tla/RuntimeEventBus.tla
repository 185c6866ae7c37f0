-------------------------- MODULE RuntimeEventBus --------------------------
(***************************************************************************)
(* The event bus of the runtime (packages/amadeus/runtime_events.py) and    *)
(* one stream of GET /runtime/events (server.py) on it.  The threads of     *)
(* workers and requests publish; the bus' lock covers the list of           *)
(* subscribers only, so that two publishers meet at a subscriber's queue.   *)
(***************************************************************************)
EXTENDS Naturals, Sequences, FiniteSets

CONSTANTS
  Publishers,
  Size,       \* subscriber_queue_size, 200 in the code
  MaxEvents,  \* bound: events of one publisher
  None

BusAssumption == Size \in Nat \ {0} /\ MaxEvents \in Nat

VARIABLES
  stream,     \* the stream: before, open (with its queue registered) or over
  queued,     \* its queue
  got,        \* what it wrote to its client
  sent,       \* how many events each publisher has published or is publishing
  publishing, \* what a publisher is about to do with the queue
  missed,     \* history: events of a publish that began when the stream was open ...
  wasFull     \* history: ... and whether one of them found the queue full

vars == <<stream, queued, got, sent, publishing, missed, wasFull>>

Event(p) == <<p, sent[p]>>

TypeOK ==
  /\ stream \in {"before", "open", "over"}
  /\ Len(queued) <= Size
  /\ sent \in [Publishers -> 0 .. MaxEvents]
  /\ publishing \in [Publishers -> {"idle", "put", "drop", "again", "raised"}]
  /\ wasFull \in BOOLEAN

Init ==
  /\ stream = "before" /\ queued = <<>> /\ got = <<>>
  /\ sent = [p \in Publishers |-> 0]
  /\ publishing = [p \in Publishers |-> "idle"]
  /\ missed = {} /\ wasFull = FALSE

\* subscribe, unsubscribe.  The stream ends at its idle timeout, at its number of
\* events, or when the client is gone: at any time.
Subscribe ==
  /\ stream = "before" /\ stream' = "open"
  /\ UNCHANGED <<queued, got, sent, publishing, missed, wasFull>>

Unsubscribe ==
  /\ stream = "open" /\ stream' = "over"
  /\ UNCHANGED <<queued, got, sent, publishing, missed, wasFull>>

\* handle_runtime_events.
Deliver ==
  /\ stream = "open" /\ queued # <<>>
  /\ got' = Append(got, Head(queued)) /\ queued' = Tail(queued)
  /\ UNCHANGED <<stream, sent, publishing, missed, wasFull>>

----------------------------------------------------------------------------
(* publish.                                                                *)

Goes(p, step) == publishing' = [publishing EXCEPT ![p] = step]

\* The event is made, and the subscribers are copied in the lock.
Publish(p) ==
  /\ publishing[p] = "idle" /\ sent[p] < MaxEvents
  /\ sent' = [sent EXCEPT ![p] = @ + 1]
  /\ IF stream = "open"
       THEN Goes(p, "put") /\ missed' = missed \union {<<p, sent[p] + 1>>}
       ELSE UNCHANGED <<publishing, missed>>
  /\ UNCHANGED <<stream, queued, got, wasFull>>

\* Mutant of Put: a publisher that finds the queue full stores its event in place
\* of the newest.
PutInPlace(p) ==
  /\ publishing[p] = "put" /\ Goes(p, "idle")
  /\ queued' = IF Len(queued) < Size THEN Append(queued, Event(p))
                                      ELSE [queued EXCEPT ![Size] = Event(p)]
  /\ UNCHANGED <<stream, got, sent, missed, wasFull>>

\* put_nowait.
Put(p) ==
  /\ publishing[p] = "put"
  /\ IF Len(queued) < Size
       THEN queued' = Append(queued, Event(p)) /\ Goes(p, "idle") /\ UNCHANGED wasFull
       ELSE Goes(p, "drop") /\ wasFull' = TRUE /\ UNCHANGED queued
  /\ UNCHANGED <<stream, got, sent, missed>>

\* get_nowait; the event itself is lost when the queue is empty by now.
Drop(p) ==
  /\ publishing[p] = "drop"
  /\ IF queued = <<>> THEN Goes(p, "idle") /\ UNCHANGED queued
                      ELSE Goes(p, "again") /\ queued' = Tail(queued)
  /\ UNCHANGED <<stream, got, sent, missed, wasFull>>

\* put_nowait again: when another publisher took the place, queue.Full is raised
\* in the thread that publishes.
Again(p) ==
  /\ publishing[p] = "again"
  /\ IF Len(queued) < Size
       THEN queued' = Append(queued, Event(p)) /\ Goes(p, "idle")
       ELSE Goes(p, "raised") /\ UNCHANGED queued
  /\ UNCHANGED <<stream, got, sent, missed, wasFull>>

\* What becomes of the exception is up to the caller, who goes on.
Raised(p) ==
  /\ publishing[p] = "raised" /\ Goes(p, "idle")
  /\ UNCHANGED <<stream, queued, got, sent, missed, wasFull>>

Next ==
  \/ Subscribe \/ Unsubscribe \/ Deliver
  \/ \E p \in Publishers : Publish(p) \/ Put(p) \/ Drop(p) \/ Again(p) \/ Raised(p)

Spec == Init /\ [][Next]_vars

----------------------------------------------------------------------------
(***************************************************************************)
(* A client sees the events of a publisher in their order and none twice,   *)
(* and while its stream is open it misses an event only after its queue was *)
(* full.                                                                   *)
(***************************************************************************)
Stream == got \o queued

InOrder ==
  \A m, n \in DOMAIN Stream :
    m < n /\ Stream[m][1] = Stream[n][1] => Stream[m][2] < Stream[n][2]

OnItsWay(e) == publishing[e[1]] # "idle" /\ Event(e[1]) = e

StreamFaithful ==
  /\ InOrder
  /\ ~wasFull =>
       \A e \in missed : (\E n \in DOMAIN Stream : e = Stream[n]) \/ OnItsWay(e)
=============================================================================
