------------------------------- MODULE EventRelay -------------------------------
(***************************************************************************)
(* The way of a company's events from the transaction that causes them to  *)
(* a durable consumer: the outbox table and its gap-free seq               *)
(* (packages/db/src/outbox.ts, sequences.ts), the relays that publish it   *)
(* (apps/server/src/modules/events/relay.ts), the JetStream stream with    *)
(* its deduplication window (jetstream.ts), the circuit breaker's consumer *)
(* with its high-water mark (modules/costs/breaker-consumer.ts) and the    *)
(* dead letters (modules/events/dlq.ts).                                   *)
(*                                                                         *)
(* Events are their seq.  One server consumes; any may relay.  Messages    *)
(* are kept: the stream's 72 hours are not modelled.                       *)
(***************************************************************************)
EXTENDS Integers, Sequences, FiniteSetsExt

CONSTANTS
    Writer,      \* database sessions that emit events
    Relay,       \* the servers' OutboxRelay objects
    Nobody,
    BatchSize,
    MaxDeliver,  \* max_deliver of the durable consumer
    MaxEvents,   \* events emitted: a bound
    MaxUpsets    \* lost sessions, deaths, failed calls, long delays: a bound

ASSUME RelayAssumption ==
    /\ Nobody \notin Relay
    /\ {BatchSize, MaxDeliver} \subseteq Nat \ {0}
    /\ {MaxEvents, MaxUpsets} \subseteq Nat

VARIABLES
    writing,     \* [Writer -> 0..MaxEvents], the seq a transaction holds, or 0
    committed,   \* the events' seqs
    marked,      \* events with published_at
    lock,        \* the relay whose session holds the advisory lock, or Nobody
    mode,        \* [Relay -> {"follower", "leader", "publishing"}]
    batch,       \* [Relay -> SUBSET seqs], read and not published
    sent,        \* [Relay -> SUBSET seqs], published and not marked
    stream,      \* the seqs the broker stored, in its order
    recent,      \* the message ids inside duplicate_window
    fate,        \* per message of the stream: where its delivery stands
    tries,       \* per message: deliveries
    inbox,       \* the messages the consumer has pulled and not handled
    mark,        \* lastSeq of the consumer, in memory
    dead,        \* dead_events, by message
    upsets,
    handled,     \* history: [Seqs -> Nat], the handlings that succeeded
    deaths       \* history: how often the consumer's server died

outbox == <<writing, committed>>
relays == <<marked, lock, mode, batch, sent>>
broker == <<stream, recent>>
consumer == <<fate, tries, inbox, mark, dead, handled, deaths>>
vars == <<outbox, relays, broker, consumer, upsets>>

Seqs == 1..MaxEvents
Message == DOMAIN stream
Fate == {"new", "pulled", "pending", "acked", "exhausted"}
Upset == upsets < MaxUpsets /\ upsets' = upsets + 1

-----------------------------------------------------------------------------
(* The outbox                                                              *)

\* The seqs drawn so far: an aborted transaction gives its own back.
Drawn == committed \cup {writing[w] : w \in Writer} \cup {0}

\* Mutant: the counter is not locked by the transaction that draws from it.
DrawUnlocked(w) ==
    /\ writing[w] = 0
    /\ Max(Drawn) < MaxEvents
    /\ writing' = [writing EXCEPT ![w] = Max(Drawn) + 1]
    /\ UNCHANGED <<committed, relays, broker, consumer, upsets>>

\* nextSequenceBlock: the counter's row is locked until the transaction ends.
Draw(w) ==
    /\ \A v \in Writer : writing[v] = 0
    /\ Max(Drawn) < MaxEvents
    /\ writing' = [writing EXCEPT ![w] = Max(Drawn) + 1]
    /\ UNCHANGED <<committed, relays, broker, consumer, upsets>>

Commit(w) ==
    /\ writing[w] # 0
    /\ committed' = committed \cup {writing[w]}
    /\ writing' = [writing EXCEPT ![w] = 0]
    /\ UNCHANGED <<relays, broker, consumer, upsets>>

Abort(w) ==
    /\ writing[w] # 0
    /\ Upset
    /\ writing' = [writing EXCEPT ![w] = 0]
    /\ UNCHANGED <<committed, relays, broker, consumer>>

-----------------------------------------------------------------------------
(* The relay                                                               *)

\* pg_try_advisory_lock on the relay's own session.
Elect(r) ==
    /\ mode[r] = "follower"
    /\ lock = Nobody
    /\ lock' = r
    /\ mode' = [mode EXCEPT ![r] = "leader"]
    /\ UNCHANGED <<outbox, marked, batch, sent, broker, consumer, upsets>>

\* The relay's session is gone, and with it the lock: it starts over.
Resign(r) ==
    /\ mode' = [mode EXCEPT ![r] = "follower"]
    /\ batch' = [batch EXCEPT ![r] = {}]
    /\ sent' = [sent EXCEPT ![r] = {}]
    /\ lock' = IF lock = r THEN Nobody ELSE lock

Unmarked == committed \ marked
NextOnes == {n \in Unmarked : Cardinality({k \in Unmarked : k < n}) < BatchSize}

\* publishBatch's SELECT; a relay whose session was lost learns it here.
ReadBatch(r) ==
    /\ mode[r] = "leader"
    /\ IF lock = r
       THEN /\ NextOnes # {}
            /\ batch' = [batch EXCEPT ![r] = NextOnes]
            /\ mode' = [mode EXCEPT ![r] = "publishing"]
            /\ UNCHANGED <<lock, sent>>
       ELSE Resign(r)
    /\ UNCHANGED <<outbox, marked, broker, consumer, upsets>>

\* The broker stores a message unless its id is inside the window.
Store(n) ==
    IF n \in recent
    THEN UNCHANGED <<broker, fate, tries>>
    ELSE /\ stream' = Append(stream, n)
         /\ recent' = recent \cup {n}
         /\ fate' = Append(fate, "new")
         /\ tries' = Append(tries, 0)

Publish(r) ==
    /\ mode[r] = "publishing"
    /\ batch[r] # {}
    /\ Store(Min(batch[r]))
    /\ batch' = [batch EXCEPT ![r] = @ \ {Min(@)}]
    /\ sent' = [sent EXCEPT ![r] = @ \cup {Min(batch[r])}]
    /\ UNCHANGED <<outbox, marked, lock, mode, inbox, mark, dead, handled, deaths, upsets>>

\* The one UPDATE after the batch; the SELECT of the next batch follows.
Mark(r) ==
    /\ mode[r] = "publishing"
    /\ batch[r] = {}
    /\ IF lock = r
       THEN /\ marked' = marked \cup sent[r]
            /\ sent' = [sent EXCEPT ![r] = {}]
            /\ mode' = [mode EXCEPT ![r] = "leader"]
            /\ UNCHANGED <<lock, batch>>
       ELSE Resign(r) /\ UNCHANGED marked
    /\ UNCHANGED <<outbox, broker, consumer, upsets>>

\* Mutant: the failure leaves the session, which holds the lock, open.
KeepsTheSession(r) ==
    /\ mode[r] = "publishing"
    /\ batch[r] # {}
    /\ Upset
    /\ mode' = [mode EXCEPT ![r] = "follower"]
    /\ batch' = [batch EXCEPT ![r] = {}]
    /\ sent' = [sent EXCEPT ![r] = {}]
    /\ UNCHANGED <<outbox, marked, lock, broker, consumer>>

\* A publish rejects, whether or not the broker stored the message: the finally
\* marks what was published before it, and the catch ends the session.
PublishFails(r) ==
    /\ mode[r] = "publishing"
    /\ batch[r] # {}
    /\ Upset
    /\ Store(Min(batch[r])) \/ UNCHANGED <<broker, fate, tries>>
    /\ marked' = IF lock = r THEN marked \cup sent[r] ELSE marked
    /\ Resign(r)
    /\ UNCHANGED <<outbox, inbox, mark, dead, handled, deaths>>

\* The database drops the session: the lock is free, the relay reads on.
LoseSession(r) ==
    /\ lock = r
    /\ Upset
    /\ lock' = Nobody
    /\ UNCHANGED <<outbox, marked, mode, batch, sent, broker, consumer>>

\* The relay's process dies.
RelayDies(r) ==
    /\ mode[r] # "follower"
    /\ Upset
    /\ Resign(r)
    /\ UNCHANGED <<outbox, marked, broker, consumer>>

\* Two minutes pass between two publishes of one id.
WindowPasses ==
    /\ recent # {}
    /\ Upset
    /\ recent' = {}
    /\ UNCHANGED <<outbox, relays, stream, consumer>>

-----------------------------------------------------------------------------
(* The consumer                                                            *)

SetFate(m, f) == fate' = [fate EXCEPT ![m] = f]

\* A message that was delivered and not acknowledged comes again when its
\* ack_wait or the delay of its nak is over: other messages may come first.
MayPull(m) ==
    \/ fate[m] = "new" /\ \A k \in Message : k < m => fate[k] # "new"
    \/ fate[m] = "pending" /\ tries[m] < MaxDeliver

Pull(m) ==
    /\ MayPull(m)
    /\ SetFate(m, "pulled")
    /\ tries' = [tries EXCEPT ![m] = @ + 1]
    /\ inbox' = Append(inbox, m)
    /\ UNCHANGED <<outbox, relays, broker, mark, dead, handled, deaths, upsets>>

\* Mutant: a seq that was handled counts as new.
NotOlder(n) == n >= mark

\* The high-water mark: only what is newer than everything handled so far.
IsNew(n) == n > mark

\* handle, then the mark, then the acknowledgement.
Handle ==
    LET m == Head(inbox)
        n == stream[m]
    IN  /\ inbox # <<>>
        /\ inbox' = Tail(inbox)
        /\ IF IsNew(n)
           THEN /\ handled' = [handled EXCEPT ![n] = @ + 1]
                /\ mark' = IF n > mark THEN n ELSE mark
           ELSE UNCHANGED <<handled, mark>>
        /\ SetFate(m, "acked")
        /\ UNCHANGED <<outbox, relays, broker, tries, dead, deaths, upsets>>

\* The handling throws: nak, and the next message.
HandleFails ==
    /\ inbox # <<>>
    /\ IsNew(stream[Head(inbox)])
    /\ Upset
    /\ SetFate(Head(inbox), "pending")
    /\ inbox' = Tail(inbox)
    /\ UNCHANGED <<outbox, relays, broker, tries, mark, dead, handled, deaths>>

\* The consumer's server dies, after a handling it did not acknowledge or
\* between two: what it pulled is pending, what it remembered is gone.
ConsumerDies ==
    /\ Upset
    /\ handled' = IF inbox # <<>> /\ IsNew(stream[Head(inbox)])
                  THEN [handled EXCEPT ![stream[Head(inbox)]] = @ + 1] ELSE handled
    /\ fate' = [m \in Message |-> IF fate[m] = "pulled" THEN "pending" ELSE fate[m]]
    /\ inbox' = <<>>
    /\ mark' = 0
    /\ deaths' = deaths + 1
    /\ UNCHANGED <<outbox, relays, broker, tries, dead>>

\* The last delivery is over: the broker gives the message up and says so.
GiveUp(m) ==
    /\ fate[m] = "pending"
    /\ tries[m] = MaxDeliver
    /\ SetFate(m, "exhausted")
    /\ dead' = dead \cup {m}
    /\ UNCHANGED <<outbox, relays, broker, tries, inbox, mark, handled, deaths, upsets>>

\* ... and nobody hears it: the advisory is a plain message, and an error in
\* its handler is swallowed. (No upset of its own: MaxDeliver came before it.)
GiveUpUnheard(m) ==
    /\ fate[m] = "pending"
    /\ tries[m] = MaxDeliver
    /\ SetFate(m, "exhausted")
    /\ UNCHANGED <<outbox, relays, broker, tries, inbox, mark, dead, handled, deaths, upsets>>

-----------------------------------------------------------------------------
Init ==
    /\ writing = [w \in Writer |-> 0]
    /\ committed = {} /\ marked = {}
    /\ lock = Nobody
    /\ mode = [r \in Relay |-> "follower"]
    /\ batch = [r \in Relay |-> {}] /\ sent = [r \in Relay |-> {}]
    /\ stream = <<>> /\ recent = {}
    /\ fate = <<>> /\ tries = <<>> /\ inbox = <<>>
    /\ handled = [n \in Seqs |-> 0]
    /\ mark = 0
    /\ dead = {}
    /\ upsets = 0 /\ deaths = 0

RelayStep(r) == ReadBatch(r) \/ Publish(r) \/ Mark(r)
Deliver == Handle \/ \E m \in Message : Pull(m) \/ GiveUp(m)

Next ==
    \/ \E w \in Writer : Draw(w) \/ Commit(w) \/ Abort(w)
    \/ \E r \in Relay :
        \/ Elect(r) \/ RelayStep(r)
        \/ PublishFails(r) \/ LoseSession(r) \/ RelayDies(r)
    \/ WindowPasses
    \/ Deliver \/ HandleFails \/ ConsumerDies
    \/ \E m \in Message : GiveUpUnheard(m)

\* The relay's loop and its five-second retry; the broker's delivery and the
\* consumer's loop.
Fairness ==
    /\ \A r \in Relay : WF_vars(Elect(r)) /\ WF_vars(RelayStep(r))
    /\ WF_vars(Deliver)

Spec == Init /\ [][Next]_vars /\ Fairness

-----------------------------------------------------------------------------
(* Properties                                                              *)

\* The types; what the broker counts as pulled is in the consumer's hands.
TypeOK ==
    /\ writing \in [Writer -> 0..MaxEvents]
    /\ committed \subseteq Seqs /\ marked \subseteq committed
    /\ lock \in Relay \cup {Nobody}
    /\ mode \in [Relay -> {"follower", "leader", "publishing"}]
    /\ batch \in [Relay -> SUBSET committed] /\ sent \in [Relay -> SUBSET committed]
    /\ stream \in Seq(committed) /\ recent \subseteq committed
    /\ fate \in [Message -> Fate] /\ tries \in [Message -> 0..MaxDeliver]
    /\ handled \in [Seqs -> Nat]
    /\ inbox \in Seq(Message) /\ dead \subseteq Message
    /\ \A m \in Message : fate[m] = "pulled" <=> (\E k \in DOMAIN inbox : inbox[k] = m)
    /\ mark \in 0..MaxEvents
    /\ upsets \in 0..MaxUpsets /\ deaths \in 0..upsets

\* Relays that take over from one another, publish one batch twice or fail in
\* the middle never put an event before one of a lower seq: what the stream
\* repeats is old.
StreamFollowsTheSeq ==
    \A m \in Message, n \in Seqs :
        n < stream[m] => \E k \in Message : k < m /\ stream[k] = n

\* Whatever the relays publish twice, and whatever the broker delivers again, an
\* event is handled once in the life of its consumer's process.
HandledOncePerLife == \A n \in Seqs : handled[n] <= 1 + deaths

\* Every committed event reaches the consumer and is acknowledged or given up
\* there, whatever dies, as long as deaths end.
Settled(n) == \E m \in Message : stream[m] = n /\ fate[m] \in {"acked", "exhausted"}
EveryEventArrives == \A n \in Seqs : (n \in committed) ~> Settled(n)

\* What dlq.ts and the nak of the breaker's consumer say: a message that cannot
\* be handled is delivered again and ends among the dead letters.
NothingIsSilentlyDropped ==
    \A n \in Seqs :
        LET copies == {m \in Message : stream[m] = n}
        IN  copies # {} /\ (\A m \in copies : fate[m] \in {"acked", "exhausted"})
                => handled[n] > 0 \/ copies \cap dead # {}
================================================================================
