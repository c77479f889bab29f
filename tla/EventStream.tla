----------------------------- MODULE EventStream -----------------------------
(***************************************************************************)
(* The event bus (supervisor/events.go) and GET /v1/apps/{id}/events.      *)
(* Goroutines of the supervisor publish while streams subscribe, read and  *)
(* leave.  Publish walks the subscribers under the read lock and never     *)
(* waits for one; Unsubscribe closes the channel under the write lock.     *)
(*                                                                         *)
(* An event is its publisher and its number there: a goroutine publishes   *)
(* for one app.  The streams are all of one app, and subscribe once.       *)
(***************************************************************************)
EXTENDS Integers, Sequences

CONSTANTS
  Publishers,  \* goroutines that publish
  OfTheApp,    \* those of the app the streams are for
  Watchers,    \* streams
  EventBuffer, \* Subscribe(64): the buffer of a channel
  EventMax     \* bound on the events of a publisher

ASSUME EventAssumption == OfTheApp \subseteq Publishers /\ EventBuffer \in Nat \ {0} /\ EventMax \in Nat

VARIABLES
  busReaders,  \* publishers that hold EventBus.mu for reading
  channel,     \* the channel of each stream
  open,        \* EventBus.subs
  sending,     \* whom each publisher has still to send its event to
  sent,        \* events each publisher has begun
  watcher,     \* where each stream is
  got,         \* history: what each stream wrote to its client
  missed,      \* history: <<stream, event>> that found the buffer full
  joined       \* history: the events begun before each stream subscribed

eventVars == <<busReaders, channel, open, sending, sent, watcher, got, missed, joined>>

Events == [by : Publishers, n : 1 .. EventMax]

\* The bus and the streams have their types.
EventsTypeOK ==
  /\ busReaders \subseteq Publishers
  /\ open \subseteq Watchers
  /\ \A w \in Watchers : /\ Len(channel[w]) <= EventBuffer
                         /\ \A k \in DOMAIN channel[w] : channel[w][k] \in Events
                         /\ watcher[w] \in {"new", "reading", "leaving", "gone"}

(***************************************************************************)
(* Publish                                                                 *)
(***************************************************************************)
emit(p) ==
  /\ p \notin busReaders
  /\ sent[p] < EventMax
  /\ sent' = [sent EXCEPT ![p] = @ + 1]
  /\ busReaders' = busReaders \cup {p}
  /\ sending' = [sending EXCEPT ![p] = open]
  /\ UNCHANGED <<channel, open, watcher, got, missed, joined>>

\* select with a default: a full buffer keeps what it has.
offer(w, e) == IF Len(channel[w]) < EventBuffer THEN Append(channel[w], e) ELSE channel[w]

Publish(p, w) ==
  LET e == [by |-> p, n |-> sent[p]]
  IN  /\ w \in sending[p]
      /\ sending' = [sending EXCEPT ![p] = @ \ {w}]
      /\ channel' = [channel EXCEPT ![w] = offer(w, e)]
      /\ missed' = IF Len(channel[w]) < EventBuffer THEN missed ELSE missed \cup {<<w, e>>}
      /\ UNCHANGED <<busReaders, open, sent, watcher, got, joined>>

PublishEnds(p) ==
  /\ p \in busReaders
  /\ sending[p] = {}
  /\ busReaders' = busReaders \ {p}
  /\ UNCHANGED <<channel, open, sending, sent, watcher, got, missed, joined>>

(***************************************************************************)
(* GetAppEvents                                                            *)
(***************************************************************************)
Subscribe(w) ==
  /\ watcher[w] = "new"
  /\ busReaders = {}
  /\ open' = open \cup {w}
  /\ watcher' = [watcher EXCEPT ![w] = "reading"]
  /\ joined' = [joined EXCEPT ![w] = sent]
  /\ UNCHANGED <<busReaders, channel, sending, sent, got, missed>>

\* Events of other apps are skipped; a write that fails ends the stream.
GetAppEvents(w) ==
  /\ watcher[w] = "reading"
  /\ channel[w] # <<>>
  /\ channel' = [channel EXCEPT ![w] = Tail(@)]
  /\ \/ Head(channel[w]).by \notin OfTheApp /\ UNCHANGED <<watcher, got>>
     \/ /\ Head(channel[w]).by \in OfTheApp
        /\ \/ got' = [got EXCEPT ![w] = Append(@, Head(channel[w]))] /\ UNCHANGED watcher
           \/ watcher' = [watcher EXCEPT ![w] = "leaving"] /\ UNCHANGED got
  /\ UNCHANGED <<busReaders, open, sending, sent, missed, joined>>

\* The client disconnects.
StreamDone(w) ==
  /\ watcher[w] = "reading"
  /\ watcher' = [watcher EXCEPT ![w] = "leaving"]
  /\ UNCHANGED <<busReaders, channel, open, sending, sent, got, missed, joined>>

\* faulty: the channel is closed without the lock
Unsubscribe_Unlocked(w) ==
  /\ watcher[w] = "leaving"
  /\ open' = open \ {w}
  /\ watcher' = [watcher EXCEPT ![w] = "gone"]
  /\ UNCHANGED <<busReaders, channel, sending, sent, got, missed, joined>>

Unsubscribe(w) ==
  /\ watcher[w] = "leaving"
  /\ busReaders = {}
  /\ open' = open \ {w}
  /\ watcher' = [watcher EXCEPT ![w] = "gone"]
  /\ UNCHANGED <<busReaders, channel, sending, sent, got, missed, joined>>

EventsInit ==
  /\ busReaders = {}
  /\ channel = [w \in Watchers |-> <<>>]
  /\ open = {}
  /\ sending = [p \in Publishers |-> {}]
  /\ sent = [p \in Publishers |-> 0]
  /\ watcher = [w \in Watchers |-> "new"]
  /\ got = [w \in Watchers |-> <<>>]
  /\ missed = {}
  /\ joined = [w \in Watchers |-> sent]

EventsNext ==
  \/ \E p \in Publishers : \/ emit(p)
                           \/ \E w \in Watchers : Publish(p, w)
                           \/ PublishEnds(p)
  \/ \E w \in Watchers : Subscribe(w) \/ GetAppEvents(w) \/ StreamDone(w) \/ Unsubscribe(w)

EventsSpec == EventsInit /\ [][EventsNext]_eventVars

(***************************************************************************)
(* Nothing is sent on a closed channel, which would end the daemon.  And a *)
(* stream has, once and in order, every event of its app whose publication *)
(* began after it subscribed: written, buffered, still to be sent, or      *)
(* dropped because the buffer was full.                                    *)
(***************************************************************************)
EventsReachOpenStreams ==
  /\ \A p \in Publishers : sending[p] \subseteq open
  /\ \A w \in Watchers, p \in OfTheApp : watcher[w] = "reading" =>
       LET seen == got[w] \o channel[w]
           its == {k \in DOMAIN seen : seen[k].by = p}
           due == IF w \in sending[p] THEN {sent[p]} ELSE {}
           lost == {n \in 1 .. sent[p] : <<w, [by |-> p, n |-> n]>> \in missed}
       IN  /\ \A j, k \in its : j < k => seen[j].n < seen[k].n
           /\ {seen[k].n : k \in its} = ((joined[w][p] + 1) .. sent[p]) \ (due \cup lost)
=============================================================================
