----------------------------- MODULE Events_proof -----------------------------
(***************************************************************************)
(* The events and what is remembered of them: the stream follows the seqs  *)
(* and an event is handled once in a life of its consumer, for any number  *)
(* of writers, relays, events and mishaps; no memory stacks on one that    *)
(* was known and every proposal rests on several incidents, for any        *)
(* windows, events and texts.                                              *)
(***************************************************************************)
EXTENDS EventRelay, MemoryLifecycle, FiniteSetTheorems, SequenceTheorems, TLAPS

-----------------------------------------------------------------------------
(* The inductive invariant                                                 *)

Streamed == {stream[m] : m \in Message}
Below(n) == 1..(n - 1)

\* The events commit in the order of their seqs: what is drawn comes right after
\* what is committed.
Outboxed ==
    /\ writing \in [Writer -> 0..MaxEvents]
    /\ committed \subseteq Seqs
    /\ \A n \in committed : Below(n) \subseteq committed
    /\ \A w \in Writer : Below(writing[w]) \subseteq committed

\* Before an event of its batch a relay has published, or has still to publish
\* from the batch, everything that is older; it marks what is in the stream.
Relayed ==
    /\ lock \in Relay \cup {Nobody}
    /\ mode \in [Relay -> {"follower", "leader", "publishing"}]
    /\ batch \in [Relay -> SUBSET committed]
    /\ sent \in [Relay -> SUBSET committed]
    /\ marked \subseteq Streamed
    /\ \A r \in Relay : sent[r] \subseteq Streamed
    /\ \A r \in Relay : \A n \in batch[r] : Below(n) \subseteq Streamed \cup batch[r]

Brokered ==
    /\ stream \in Seq(committed)
    /\ recent \subseteq Streamed
    /\ StreamFollowsTheSeq

Delivered ==
    /\ fate \in [Message -> Fate] /\ tries \in [Message -> 0..MaxDeliver]
    /\ inbox \in Seq(Message) /\ dead \subseteq Message
    /\ \A m \in Message : fate[m] = "pulled" <=> (\E k \in DOMAIN inbox : inbox[k] = m)
    /\ \A k, l \in DOMAIN inbox : inbox[k] = inbox[l] => k = l
    /\ \A m \in Message : fate[m] = "new" => tries[m] = 0

\* In the running life of the consumer's process an event is handled once, and
\* then the mark is not below it.
Remembered ==
    /\ handled \in [Seqs -> Nat]
    /\ mark \in 0..MaxEvents
    /\ upsets \in 0..MaxUpsets /\ deaths \in 0..upsets
    /\ \A n \in Seqs : handled[n] <= deaths + (IF n <= mark THEN 1 ELSE 0)

IInv == Outboxed /\ Relayed /\ Brokered /\ Delivered /\ Remembered

-----------------------------------------------------------------------------
(* The smallest and the greatest of some numbers                           *)

LEMMA SomeLeast ==
    ASSUME NEW S \in SUBSET Nat, S # {}
    PROVE  /\ Min(S) \in S
           /\ \A n \in S : Min(S) <= n
  <1>1. PICK m \in S : \A n \in S : ~ (<<n, m>> \in OpToRel(<, Nat))
    BY NatLessThanWellFounded, WFMin
  <1>2. \A n \in S : ~ (n < m)
    BY <1>1 DEF OpToRel
  <1>3. \A n \in S : m <= n
    BY <1>2
  <1>4. QED
    BY <1>3 DEF Min

LEMMA SomeGreatest ==
    ASSUME NEW b \in Nat, NEW S \in SUBSET (0..b), S # {}
    PROVE  /\ Max(S) \in S
           /\ \A n \in S : n <= Max(S)
  <1> DEFINE D == {b - n : n \in S}
  <1>1. D \in SUBSET Nat /\ D # {}
    <2>1. \A n \in S : b - n \in Nat
      OBVIOUS
    <2>2. PICK n \in S : TRUE
      OBVIOUS
    <2>3. b - n \in D
      BY <2>2
    <2>4. QED
      BY <2>1, <2>3
  <1>2. PICK d \in D : \A e \in D : d <= e
    <2> HIDE DEF D
    <2>1. Min(D) \in D /\ \A e \in D : Min(D) <= e
      BY <1>1, SomeLeast
    <2>2. QED
      BY <2>1
  <1>3. PICK m \in S : d = b - m
    OBVIOUS
  <1>4. \A n \in S : n <= m
    <2>1. SUFFICES ASSUME NEW n \in S
                   PROVE  n <= m
      OBVIOUS
    <2>2. b - n \in D
      OBVIOUS
    <2>3. b - m <= b - n
      BY <1>2, <1>3, <2>2
    <2>4. QED
      BY <2>3
  <1>5. \A n \in S : m >= n
    BY <1>4
  <1>6. \E x \in S : \A n \in S : x >= n
    BY <1>5
  <1>7. QED
    BY <1>6 DEF Max

LEMMA Numbers ==
    /\ MaxEvents \in Nat /\ MaxUpsets \in Nat
    /\ BatchSize \in Nat \ {0} /\ MaxDeliver \in Nat \ {0}
  <1>1. MaxEvents \in {MaxEvents, MaxUpsets} /\ MaxUpsets \in {MaxEvents, MaxUpsets}
    OBVIOUS
  <1>2. BatchSize \in {BatchSize, MaxDeliver} /\ MaxDeliver \in {BatchSize, MaxDeliver}
    OBVIOUS
  <1>3. QED
    BY <1>1, <1>2, RelayAssumption

LEMMA SeqsAreNumbers == Seqs \subseteq Nat \ {0} /\ \A n \in Seqs : n <= MaxEvents
  BY Numbers DEF Seqs

LEMMA MessagesAreNumbers ==
    ASSUME Brokered
    PROVE  Len(stream) \in Nat /\ Message = 1..Len(stream)
  BY LenProperties DEF Brokered, Message

LEMMA StreamedType ==
    ASSUME Outboxed, Brokered
    PROVE  /\ Streamed \subseteq committed /\ Streamed \subseteq Seqs
           /\ \A m \in Message : stream[m] \in committed /\ stream[m] \in Seqs
  <1>1. \A m \in Message : stream[m] \in committed
    BY MessagesAreNumbers, ElementOfSeq DEF Brokered
  <1>2. QED
    BY <1>1 DEF Streamed, Outboxed

-----------------------------------------------------------------------------
(* What a step leaves alone                                                *)

LEMMA Remembering ==
    ASSUME Remembered, Upset \/ upsets' = upsets, UNCHANGED <<handled, mark, deaths>>
    PROVE  Remembered'
  <1>1. MaxUpsets \in Nat
    BY Numbers
  <1>2. upsets' \in 0..MaxUpsets /\ deaths \in 0..upsets'
    BY <1>1 DEF Remembered, Upset
  <1>3. QED
    BY <1>2 DEF Remembered

LEMMA DeliveredStays ==
    ASSUME Delivered, UNCHANGED <<stream, fate, tries, inbox, dead>>
    PROVE  Delivered'
  BY DEF Delivered, Message

LEMMA BrokeredStays ==
    ASSUME Brokered, committed \subseteq committed', UNCHANGED broker
    PROVE  Brokered'
  <1>1. stream \in Seq(committed')
    BY SeqMonotonic DEF Brokered
  <1>2. stream' = stream /\ recent' = recent
    BY DEF broker
  <1>3. QED
    BY <1>1, <1>2 DEF Brokered, StreamFollowsTheSeq, Streamed, Message

LEMMA RelayedStays ==
    ASSUME Relayed, committed \subseteq committed', Streamed \subseteq Streamed',
           UNCHANGED relays
    PROVE  Relayed'
  <1>1. UNCHANGED <<marked, lock, mode, batch, sent>>
    BY DEF relays
  <1>2. batch \in [Relay -> SUBSET committed'] /\ sent \in [Relay -> SUBSET committed']
    BY DEF Relayed
  <1>3. QED
    BY <1>1, <1>2 DEF Relayed

-----------------------------------------------------------------------------
(* The outbox                                                              *)

LEMMA DrawnNext ==
    ASSUME Outboxed, NEW w \in Writer, Draw(w)
    PROVE  /\ Max(Drawn) + 1 \in 0..MaxEvents
           /\ Below(Max(Drawn) + 1) \subseteq committed
  <1>1. MaxEvents \in Nat
    BY Numbers
  <1>2. Drawn = committed \cup {0}
    BY DEF Draw, Drawn
  <1>3. Drawn \in SUBSET (0..MaxEvents) /\ Drawn # {}
    BY <1>1, <1>2 DEF Outboxed, Seqs
  <1>4. Max(Drawn) \in Drawn /\ \A n \in Drawn : n <= Max(Drawn)
    BY <1>1, <1>3, SomeGreatest
  <1>5. Max(Drawn) < MaxEvents
    BY DEF Draw
  <1>6. CASE Max(Drawn) = 0
    BY <1>1, <1>5, <1>6 DEF Below
  <1>7. CASE Max(Drawn) # 0
    <2>1. Max(Drawn) \in committed /\ Max(Drawn) \in 0..MaxEvents
      BY <1>2, <1>3, <1>4, <1>7
    <2>2. Below(Max(Drawn)) \subseteq committed
      BY <2>1 DEF Outboxed
    <2>3. \A k \in Below(Max(Drawn) + 1) : k = Max(Drawn) \/ k \in Below(Max(Drawn))
      BY <2>1 DEF Below
    <2>4. QED
      BY <1>1, <1>5, <2>1, <2>2, <2>3
  <1>8. QED
    BY <1>6, <1>7

LEMMA OutboxStep ==
    ASSUME Outboxed, NEW w \in Writer, Draw(w) \/ Commit(w) \/ Abort(w)
    PROVE  Outboxed' /\ committed \subseteq committed'
  <1>1. 0 \in 0..MaxEvents /\ Below(0) = {}
    BY Numbers DEF Below
  <1>2. CASE Draw(w)
    <2>1. committed' = committed /\ writing' = [writing EXCEPT ![w] = Max(Drawn) + 1]
      BY <1>2 DEF Draw
    <2>2. /\ Max(Drawn) + 1 \in 0..MaxEvents
          /\ Below(Max(Drawn) + 1) \subseteq committed
      BY <1>2, DrawnNext
    <2>3. QED
      BY <2>1, <2>2 DEF Outboxed
  <1>3. CASE Commit(w)
    <2>1. /\ committed' = committed \cup {writing[w]}
          /\ writing' = [writing EXCEPT ![w] = 0] /\ writing[w] # 0
      BY <1>3 DEF Commit
    <2>2. writing[w] \in Seqs /\ Below(writing[w]) \subseteq committed
      <3>1. writing[w] \in 0..MaxEvents
        BY DEF Outboxed
      <3>2. writing[w] \in 1..MaxEvents
        BY <2>1, <3>1, Numbers
      <3>3. QED
        BY <3>2 DEF Outboxed, Seqs
    <2>3. writing' \in [Writer -> 0..MaxEvents]
      BY <1>1, <2>1 DEF Outboxed
    <2>4. \A n \in committed' : Below(n) \subseteq committed'
      BY <2>1, <2>2 DEF Outboxed
    <2>5. \A v \in Writer : Below(writing'[v]) \subseteq committed'
      BY <1>1, <2>1 DEF Outboxed
    <2>6. QED
      BY <2>1, <2>2, <2>3, <2>4, <2>5 DEF Outboxed
  <1>4. CASE Abort(w)
    <2>1. committed' = committed /\ writing' = [writing EXCEPT ![w] = 0]
      BY <1>4 DEF Abort
    <2>2. QED
      BY <1>1, <2>1 DEF Outboxed
  <1>5. QED
    BY <1>2, <1>3, <1>4

-----------------------------------------------------------------------------
(* The relay                                                               *)

\* The oldest unmarked events: what is older than one of them is marked, and so
\* in the stream, or one of them too.
LEMMA NextOnesAreOldest ==
    ASSUME Outboxed, Relayed, NEW n \in NextOnes
    PROVE  /\ NextOnes \subseteq committed
           /\ Below(n) \subseteq Streamed \cup NextOnes
  <1>1. NextOnes \subseteq Unmarked /\ Unmarked \subseteq committed
    BY DEF NextOnes, Unmarked
  <1>2. SUFFICES ASSUME NEW k \in Below(n), k \notin Streamed
                 PROVE  k \in NextOnes
    BY <1>1
  <1>3. n \in Nat /\ k \in Nat /\ k < n
    BY <1>1, SeqsAreNumbers DEF Outboxed, Below
  <1>4. k \in Unmarked
    BY <1>1, <1>2 DEF Outboxed, Relayed, Unmarked
  <1>5. IsFiniteSet({j \in Unmarked : j < n})
    <2>1. IsFiniteSet(Seqs)
      BY Numbers, FS_Interval DEF Seqs
    <2>2. {j \in Unmarked : j < n} \in SUBSET Seqs
      BY <1>1 DEF Outboxed
    <2>3. QED
      BY <2>1, <2>2, FS_Subset
  <1>6. {j \in Unmarked : j < k} \in SUBSET {j \in Unmarked : j < n}
    <2>1. \A j \in Unmarked : j \in Nat
      BY <1>1, SeqsAreNumbers DEF Outboxed
    <2>2. QED
      BY <1>3, <2>1
  <1>7. /\ IsFiniteSet({j \in Unmarked : j < k})
        /\ Cardinality({j \in Unmarked : j < k}) <= Cardinality({j \in Unmarked : j < n})
    BY <1>5, <1>6, FS_Subset
  <1>8. /\ Cardinality({j \in Unmarked : j < k}) \in Nat
        /\ Cardinality({j \in Unmarked : j < n}) \in Nat
    BY <1>5, <1>7, FS_CardinalityType
  <1>9. Cardinality({j \in Unmarked : j < n}) < BatchSize
    BY DEF NextOnes
  <1>10. Cardinality({j \in Unmarked : j < k}) < BatchSize
    BY <1>7, <1>8, <1>9, Numbers
  <1>11. QED
    BY <1>4, <1>10 DEF NextOnes

LEMMA Resigned ==
    ASSUME Relayed, NEW r \in Relay, Resign(r), committed' = committed,
           Streamed \subseteq Streamed', marked' \subseteq Streamed'
    PROVE  Relayed'
  <1>1. /\ mode' = [mode EXCEPT ![r] = "follower"] /\ batch' = [batch EXCEPT ![r] = {}]
        /\ sent' = [sent EXCEPT ![r] = {}]
        /\ lock' = IF lock = r THEN Nobody ELSE lock
    BY DEF Resign
  <1>2. /\ lock' \in Relay \cup {Nobody}
        /\ mode' \in [Relay -> {"follower", "leader", "publishing"}]
    BY <1>1 DEF Relayed
  <1>3. batch' \in [Relay -> SUBSET committed'] /\ sent' \in [Relay -> SUBSET committed']
    BY <1>1 DEF Relayed
  <1>4. \A s \in Relay : sent'[s] \subseteq Streamed'
    BY <1>1 DEF Relayed
  <1>5. \A s \in Relay : \A n \in batch'[s] : Below(n) \subseteq Streamed' \cup batch'[s]
    BY <1>1 DEF Relayed
  <1>6. QED
    BY <1>2, <1>3, <1>4, <1>5 DEF Relayed

LEMMA RelayStepHolds ==
    ASSUME Outboxed, Relayed, NEW r \in Relay,
           UNCHANGED <<outbox, stream>>,
           Elect(r) \/ ReadBatch(r) \/ Mark(r) \/ LoseSession(r) \/ RelayDies(r)
    PROVE  Relayed'
  <1>1. committed' = committed /\ Streamed' = Streamed
    BY DEF outbox, Streamed, Message
  <1>2. CASE Elect(r)
    BY <1>1, <1>2 DEF Elect, Relayed
  <1>3. CASE ReadBatch(r)
    <2>1. marked' = marked
      BY <1>3 DEF ReadBatch
    <2>2. CASE Resign(r)
      BY <1>1, <2>1, <2>2, Resigned DEF Relayed
    <2>3. CASE ~ Resign(r)
      <3>1. /\ batch' = [batch EXCEPT ![r] = NextOnes]
            /\ mode' = [mode EXCEPT ![r] = "publishing"]
            /\ lock' = lock /\ sent' = sent /\ NextOnes # {}
        BY <1>3, <2>3 DEF ReadBatch
      <3>2. NextOnes \subseteq committed
        BY <3>1, NextOnesAreOldest
      <3>3. batch' \in [Relay -> SUBSET committed']
        BY <1>1, <3>1, <3>2 DEF Relayed
      <3>4. mode' \in [Relay -> {"follower", "leader", "publishing"}]
        BY <3>1 DEF Relayed
      <3>5. ASSUME NEW s \in Relay, NEW n \in batch'[s]
            PROVE  Below(n) \subseteq Streamed' \cup batch'[s]
        <4>1. CASE s = r
          <5>1. batch'[s] = NextOnes
            BY <3>1, <4>1 DEF Relayed
          <5>2. QED
            BY <1>1, <3>5, <5>1, NextOnesAreOldest
        <4>2. CASE s # r
          BY <1>1, <3>1, <3>5, <4>2 DEF Relayed
        <4>3. QED
          BY <4>1, <4>2
      <3>6. QED
        BY <1>1, <2>1, <3>1, <3>3, <3>4, <3>5 DEF Relayed
    <2>4. QED
      BY <2>2, <2>3
  <1>4. CASE Mark(r)
    <2>1. CASE Resign(r)
      <3>1. marked' \subseteq Streamed
        BY <1>4 DEF Mark, Relayed
      <3>2. QED
        BY <1>1, <2>1, <3>1, Resigned
    <2>2. CASE ~ Resign(r)
      BY <1>1, <1>4, <2>2 DEF Mark, Relayed
    <2>3. QED
      BY <2>1, <2>2
  <1>5. CASE LoseSession(r)
    BY <1>1, <1>5 DEF LoseSession, Relayed
  <1>6. CASE RelayDies(r)
    BY <1>1, <1>6, Resigned DEF RelayDies, Relayed
  <1>7. QED
    BY <1>2, <1>3, <1>4, <1>5, <1>6

-----------------------------------------------------------------------------
(* The broker                                                              *)

\* A message goes behind all others, and the consumer has not heard of it.
LEMMA Appended ==
    ASSUME Brokered, NEW n \in committed, stream' = Append(stream, n)
    PROVE  /\ stream' \in Seq(committed)
           /\ Message' = 1..(Len(stream) + 1) /\ Message = 1..Len(stream)
           /\ Len(stream) \in Nat
           /\ \A m \in Message : stream'[m] = stream[m]
           /\ stream'[Len(stream) + 1] = n
  <1>1. stream \in Seq(committed)
    BY DEF Brokered
  <1>2. /\ stream' \in Seq(committed) /\ Len(stream') = Len(stream) + 1
        /\ \A m \in 1..Len(stream) : stream'[m] = stream[m]
        /\ stream'[Len(stream) + 1] = n
    BY <1>1, AppendProperties
  <1>3. DOMAIN stream' = 1..Len(stream')
    BY <1>2, LenProperties
  <1>4. QED
    BY <1>2, <1>3, MessagesAreNumbers DEF Message

LEMMA AppendedTo ==
    ASSUME NEW n \in Nat, NEW S, NEW f \in [1..n -> S], NEW e \in S
    PROVE  /\ Append(f, e) \in [1..(n + 1) -> S]
           /\ \A m \in 1..n : Append(f, e)[m] = f[m]
           /\ Append(f, e)[n + 1] = e
  <1>1. f \in Seq(S)
    BY SeqDef
  <1>2. Len(f) = n
    <2>1. DOMAIN f = 1..Len(f) /\ Len(f) \in Nat
      BY <1>1, LenProperties
    <2>2. 1..n = 1..Len(f)
      BY <2>1
    <2>3. QED
      BY <2>1, <2>2
  <1>3. /\ Append(f, e) \in Seq(S) /\ Len(Append(f, e)) = n + 1
        /\ \A m \in 1..n : Append(f, e)[m] = f[m]
        /\ Append(f, e)[n + 1] = e
    BY <1>1, <1>2, AppendProperties
  <1>4. Append(f, e) \in [1..(n + 1) -> S]
    BY <1>3, LenProperties
  <1>5. QED
    BY <1>3, <1>4

LEMMA StoredNew ==
    ASSUME Outboxed, Brokered, Delivered, NEW n \in committed,
           Below(n) \subseteq Streamed, n \notin recent, Store(n),
           committed' = committed, UNCHANGED <<inbox, dead>>
    PROVE  /\ Brokered' /\ Delivered'
           /\ Streamed \subseteq Streamed' /\ n \in Streamed'
  <1> DEFINE l == Len(stream)
  <1>1. /\ stream' = Append(stream, n) /\ recent' = recent \cup {n}
        /\ fate' = Append(fate, "new") /\ tries' = Append(tries, 0)
    BY DEF Store
  <1>2. /\ stream' \in Seq(committed)
        /\ Message' = 1..(l + 1) /\ Message = 1..l /\ l \in Nat
        /\ \A m \in Message : stream'[m] = stream[m]
        /\ stream'[l + 1] = n
    BY <1>1, Appended
  <1>3. Streamed \subseteq Streamed' /\ n \in Streamed' /\ recent' \subseteq Streamed'
    <2>1. Message \subseteq Message' /\ l + 1 \in Message'
      BY <1>2
    <2>2. Streamed \subseteq Streamed' /\ n \in Streamed'
      BY <1>2, <2>1 DEF Streamed
    <2>3. QED
      BY <1>1, <2>2 DEF Brokered
  <1>4. StreamFollowsTheSeq'
    <2>1. SUFFICES ASSUME NEW m \in Message', NEW o \in Seqs, o < stream'[m]
                   PROVE  \E k \in Message' : k < m /\ stream'[k] = o
      BY DEF StreamFollowsTheSeq
    <2>2. CASE m \in Message
      <3>1. \E k \in Message : k < m /\ stream[k] = o
        BY <1>2, <2>1, <2>2 DEF Brokered, StreamFollowsTheSeq
      <3>2. Message \subseteq Message'
        BY <1>2
      <3>3. QED
        BY <1>2, <3>1, <3>2
    <2>3. CASE m = l + 1
      <3>1. o < n /\ n \in Nat /\ o \in Nat \ {0}
        BY <1>2, <2>1, <2>3, SeqsAreNumbers DEF Outboxed
      <3>2. o \in Streamed
        BY <3>1 DEF Below
      <3>3. PICK k \in Message : stream[k] = o
        BY <3>2 DEF Streamed
      <3>4. k \in Message' /\ k < m
        BY <1>2, <2>3, <3>3
      <3>5. QED
        BY <1>2, <3>3, <3>4
    <2>4. QED
      BY <1>2, <2>1, <2>2, <2>3
  <1>5. /\ fate' \in [Message' -> Fate] /\ fate'[l + 1] = "new"
        /\ \A m \in Message : fate'[m] = fate[m]
    <2>1. fate \in [1..l -> Fate] /\ "new" \in Fate
      BY <1>2 DEF Delivered, Fate
    <2>2. QED
      <3> HIDE DEF l
      <3>1. QED
        BY <1>1, <1>2, <2>1, AppendedTo
  <1>6. /\ tries' \in [Message' -> 0..MaxDeliver] /\ tries'[l + 1] = 0
        /\ \A m \in Message : tries'[m] = tries[m]
    <2>1. PICK S : S = 0..MaxDeliver
      OBVIOUS
    <2>2. tries \in [1..l -> S] /\ 0 \in S
      BY <1>2, <2>1, Numbers DEF Delivered
    <2>3. /\ tries' \in [1..(l + 1) -> S] /\ tries'[l + 1] = 0
          /\ \A m \in 1..l : tries'[m] = tries[m]
      <3> HIDE DEF l
      <3>1. QED
        BY <1>1, <1>2, <2>2, AppendedTo
    <2>4. QED
      BY <1>2, <2>1, <2>3
  <1>7. Delivered'
    <2>1. inbox' = inbox /\ dead' = dead /\ inbox \in Seq(Message) /\ dead \subseteq Message
      BY DEF Delivered
    <2>2. Message \subseteq Message'
      BY <1>2
    <2>3. inbox \in Seq(Message')
      BY <2>1, <2>2, SeqMonotonic
    <2>4. \A k \in DOMAIN inbox : inbox[k] \in Message
      BY <2>1, LenProperties, ElementOfSeq
    <2>5. ASSUME NEW m \in Message'
          PROVE  fate'[m] = "pulled" <=> (\E k \in DOMAIN inbox : inbox[k] = m)
      <3>1. CASE m \in Message
        BY <1>5, <3>1 DEF Delivered
      <3>2. CASE m = l + 1
        <4>1. m \notin Message
          BY <1>2, <3>2
        <4>2. fate'[m] # "pulled"
          BY <1>5, <3>2
        <4>3. QED
          BY <2>4, <4>1, <4>2
      <3>3. QED
        BY <1>2, <3>1, <3>2
    <2>6. \A k, j \in DOMAIN inbox : inbox[k] = inbox[j] => k = j
      BY DEF Delivered
    <2>7. \A m \in Message' : fate'[m] = "new" => tries'[m] = 0
      BY <1>2, <1>5, <1>6 DEF Delivered
    <2>8. QED
      BY <1>5, <1>6, <2>1, <2>2, <2>3, <2>5, <2>6, <2>7 DEF Delivered
  <1>8. Brokered'
    BY <1>2, <1>3, <1>4 DEF Brokered
  <1>9. QED
    BY <1>3, <1>7, <1>8

LEMMA Stored ==
    ASSUME Outboxed, Brokered, Delivered, NEW n \in committed,
           Below(n) \subseteq Streamed, Store(n),
           committed' = committed, UNCHANGED <<inbox, dead>>
    PROVE  /\ Brokered' /\ Delivered'
           /\ Streamed \subseteq Streamed' /\ n \in Streamed'
  <1>1. CASE n \in recent
    <2>1. UNCHANGED <<broker, fate, tries>>
      BY <1>1 DEF Store
    <2>2. stream' = stream
      BY <2>1 DEF broker
    <2>3. Streamed' = Streamed /\ n \in Streamed
      BY <1>1, <2>2 DEF Streamed, Message, Brokered
    <2>4. QED
      BY <2>1, <2>2, <2>3, BrokeredStays, DeliveredStays
  <1>2. QED
    BY <1>1, StoredNew

\* The oldest event of a batch follows only what is in the stream.
LEMMA OldestOfBatch ==
    ASSUME Outboxed, Relayed, Brokered, NEW r \in Relay, batch[r] # {}
    PROVE  /\ Min(batch[r]) \in batch[r] /\ Min(batch[r]) \in committed
           /\ Below(Min(batch[r])) \subseteq Streamed
  <1>1. batch[r] \subseteq committed /\ batch[r] \in SUBSET Nat
    BY SeqsAreNumbers DEF Outboxed, Relayed
  <1>2. Min(batch[r]) \in batch[r] /\ \A n \in batch[r] : Min(batch[r]) <= n
    BY <1>1, SomeLeast
  <1>3. \A k \in Below(Min(batch[r])) : k \notin batch[r]
    BY <1>1, <1>2 DEF Below
  <1>4. QED
    BY <1>1, <1>2, <1>3 DEF Relayed

LEMMA PublishStep ==
    ASSUME Outboxed, Relayed, Brokered, Delivered, NEW r \in Relay,
           Publish(r) \/ PublishFails(r)
    PROVE  Relayed' /\ Brokered' /\ Delivered'
  <1>1. batch[r] # {} /\ committed' = committed /\ UNCHANGED <<inbox, dead>>
    BY DEF Publish, PublishFails, outbox
  <1>2. /\ Min(batch[r]) \in batch[r] /\ Min(batch[r]) \in committed
        /\ Below(Min(batch[r])) \subseteq Streamed
    BY <1>1, OldestOfBatch
  <1>3. CASE Publish(r)
    <2>1. Store(Min(batch[r]))
      BY <1>3 DEF Publish
    <2>2. /\ Brokered' /\ Delivered'
          /\ Streamed \subseteq Streamed' /\ Min(batch[r]) \in Streamed'
      BY <1>1, <1>2, <2>1, Stored
    <2>3. /\ batch' = [batch EXCEPT ![r] = @ \ {Min(@)}]
          /\ sent' = [sent EXCEPT ![r] = @ \cup {Min(batch[r])}]
          /\ UNCHANGED <<marked, lock, mode>>
      BY <1>3 DEF Publish
    <2>4. /\ batch' \in [Relay -> SUBSET committed'] /\ sent' \in [Relay -> SUBSET committed']
      BY <1>1, <1>2, <2>3 DEF Relayed
    <2>5. \A s \in Relay : sent'[s] \subseteq Streamed'
      BY <2>2, <2>3 DEF Relayed
    <2>6. ASSUME NEW s \in Relay, NEW n \in batch'[s]
          PROVE  Below(n) \subseteq Streamed' \cup batch'[s]
      <3>1. n \in batch[s] /\ Below(n) \subseteq Streamed \cup batch[s]
        BY <2>3, <2>6 DEF Relayed
      <3>2. batch[s] \subseteq batch'[s] \cup {Min(batch[r])}
        BY <2>3 DEF Relayed
      <3>3. QED
        BY <2>2, <3>1, <3>2
    <2>7. QED
      BY <2>2, <2>3, <2>4, <2>5, <2>6 DEF Relayed
  <1>4. CASE PublishFails(r)
    <2>1. Store(Min(batch[r])) \/ UNCHANGED <<broker, fate, tries>>
      BY <1>4 DEF PublishFails
    <2>2. Brokered' /\ Delivered' /\ Streamed \subseteq Streamed'
      <3>1. CASE Store(Min(batch[r]))
        BY <1>1, <1>2, <3>1, Stored
      <3>2. CASE UNCHANGED <<broker, fate, tries>>
        <4>1. stream' = stream
          BY <3>2 DEF broker
        <4>2. Streamed' = Streamed
          BY <4>1 DEF Streamed, Message
        <4>3. QED
          BY <1>1, <3>2, <4>1, <4>2, BrokeredStays, DeliveredStays
      <3>3. QED
        BY <2>1, <3>1, <3>2
    <2>3. Resign(r) /\ marked' \subseteq marked \cup sent[r]
      BY <1>4 DEF PublishFails
    <2>4. marked' \subseteq Streamed'
      BY <2>2, <2>3 DEF Relayed
    <2>5. QED
      BY <1>1, <2>2, <2>3, <2>4, Resigned
  <1>5. QED
    BY <1>3, <1>4

-----------------------------------------------------------------------------
(* The consumer                                                            *)

LEMMA Inbox ==
    ASSUME Delivered
    PROVE  /\ Len(inbox) \in Nat /\ DOMAIN inbox = 1..Len(inbox)
           /\ \A k \in 1..Len(inbox) : inbox[k] \in Message /\ fate[inbox[k]] = "pulled"
  <1>1. inbox \in Seq(Message)
    BY DEF Delivered
  <1>2. /\ Len(inbox) \in Nat /\ DOMAIN inbox = 1..Len(inbox)
        /\ \A k \in 1..Len(inbox) : inbox[k] \in Message
    BY <1>1, LenProperties, ElementOfSeq
  <1>3. QED
    BY <1>2 DEF Delivered

LEMMA Pulled ==
    ASSUME Delivered, NEW m \in Message, Pull(m)
    PROVE  Delivered'
  <1> DEFINE l == Len(inbox)
  <1>1. /\ fate[m] # "pulled" /\ stream' = stream /\ dead' = dead
        /\ fate' = [fate EXCEPT ![m] = "pulled"] /\ tries' = [tries EXCEPT ![m] = @ + 1]
        /\ inbox' = Append(inbox, m)
    BY DEF Pull, MayPull, SetFate, broker
  <1>2. Message' = Message /\ l \in Nat /\ DOMAIN inbox = 1..l
    BY <1>1, Inbox DEF Message
  <1>3. inbox \in Seq(Message)
    BY DEF Delivered
  <1>4. /\ inbox' \in Seq(Message) /\ Len(inbox') = l + 1
        /\ \A k \in 1..l : inbox'[k] = inbox[k]
        /\ inbox'[l + 1] = m
    BY <1>1, <1>3, AppendProperties
  <1>5. DOMAIN inbox' = 1..(l + 1)
    BY <1>4, LenProperties
  <1>6. \A k \in 1..l : inbox[k] \in Message /\ inbox[k] # m
    BY <1>1, Inbox
  <1>7. fate' \in [Message -> Fate]
    BY <1>1 DEF Delivered, Fate
  <1>8. tries' \in [Message -> 0..MaxDeliver]
    <2>1. fate[m] = "new" \/ tries[m] < MaxDeliver
      BY DEF Pull, MayPull
    <2>2. tries[m] \in 0..MaxDeliver /\ MaxDeliver \in Nat \ {0}
      BY Numbers DEF Delivered
    <2>3. fate[m] = "new" => tries[m] = 0
      BY DEF Delivered
    <2>4. tries[m] + 1 \in 0..MaxDeliver
      BY <2>1, <2>2, <2>3
    <2>5. QED
      BY <1>1, <2>4 DEF Delivered
  <1>9. \A n \in Message : fate'[n] = "pulled" <=> (\E k \in DOMAIN inbox' : inbox'[k] = n)
    <2>1. SUFFICES ASSUME NEW n \in Message
                   PROVE  fate'[n] = "pulled" <=> (\E k \in DOMAIN inbox' : inbox'[k] = n)
      OBVIOUS
    <2>2. CASE n = m
      <3>1. l + 1 \in DOMAIN inbox' /\ fate'[n] = "pulled"
        BY <1>1, <1>2, <1>5, <2>2 DEF Delivered
      <3>2. QED
        BY <1>4, <2>2, <3>1
    <2>3. CASE n # m
      <3>1. fate'[n] = fate[n]
        BY <1>1, <2>3 DEF Delivered
      <3>2. fate[n] = "pulled" <=> (\E k \in 1..l : inbox[k] = n)
        BY <1>2 DEF Delivered
      <3>3. (\E k \in 1..l : inbox[k] = n) <=> (\E k \in 1..(l + 1) : inbox'[k] = n)
        BY <1>2, <1>4, <2>3
      <3>4. QED
        BY <1>5, <3>1, <3>2, <3>3
    <2>4. QED
      BY <2>2, <2>3
  <1>10. \A k, j \in DOMAIN inbox' : inbox'[k] = inbox'[j] => k = j
    <2>1. \A k, j \in 1..l : inbox[k] = inbox[j] => k = j
      BY <1>2 DEF Delivered
    <2>2. \A k \in 1..(l + 1) : k \in 1..l \/ k = l + 1
      BY <1>2
    <2>3. QED
      BY <1>4, <1>5, <1>6, <2>1, <2>2
  <1>11. dead' \subseteq Message
    BY <1>1 DEF Delivered
  <1>12. \A n \in Message : fate'[n] = "new" => tries'[n] = 0
    BY <1>1 DEF Delivered
  <1>13. QED
    BY <1>2, <1>4, <1>7, <1>8, <1>9, <1>10, <1>11, <1>12 DEF Delivered

\* The first of the inbox leaves it, whatever becomes of it.
LEMMA Popped ==
    ASSUME Delivered, inbox # <<>>, inbox' = Tail(inbox), NEW f \in Fate, f # "pulled",
           fate' = [fate EXCEPT ![Head(inbox)] = f], f # "new", UNCHANGED <<stream, tries, dead>>
    PROVE  Delivered'
  <1> DEFINE l == Len(inbox)
             m == Head(inbox)
  <1>1. Message' = Message /\ l \in Nat /\ DOMAIN inbox = 1..l
    BY Inbox DEF Message
  <1>2. inbox \in Seq(Message)
    BY DEF Delivered
  <1>3. /\ m \in Message /\ inbox' \in Seq(Message) /\ Len(inbox') = l - 1
        /\ \A k \in 1..Len(inbox') : inbox'[k] = inbox[k + 1]
    BY <1>2, HeadTailProperties
  <1>4. m = inbox[1] /\ 1 \in 1..l
    BY <1>2, EmptySeq
  <1>5. DOMAIN inbox' = 1..(l - 1)
    BY <1>3, LenProperties
  <1>6. \A k \in 1..(l - 1) : k + 1 \in 1..l /\ inbox'[k] = inbox[k + 1] /\ inbox'[k] # m
    <2>1. \A k \in 1..(l - 1) : k + 1 \in 1..l /\ k + 1 # 1
      BY <1>1
    <2>2. \A k \in 1..(l - 1) : inbox'[k] = inbox[k + 1]
      BY <1>3
    <2>3. \A k \in 1..l : inbox[k] = inbox[1] => k = 1
      BY <1>1, <1>4 DEF Delivered
    <2>4. QED
      BY <1>4, <2>1, <2>2, <2>3
  <1>7. fate' \in [Message -> Fate]
    BY DEF Delivered
  <1>8. \A n \in Message : fate'[n] = "pulled" <=> (\E k \in DOMAIN inbox' : inbox'[k] = n)
    <2>1. SUFFICES ASSUME NEW n \in Message
                   PROVE  fate'[n] = "pulled" <=> (\E k \in 1..(l - 1) : inbox'[k] = n)
      BY <1>5
    <2>2. CASE n = m
      <3>1. fate'[n] = f
        BY <2>2 DEF Delivered
      <3>2. QED
        BY <1>6, <2>2, <3>1
    <2>3. CASE n # m
      <3>1. fate'[n] = fate[n]
        BY <2>3 DEF Delivered
      <3>2. fate[n] = "pulled" <=> (\E k \in 1..l : inbox[k] = n)
        BY <1>1 DEF Delivered
      <3>3. ASSUME NEW k \in 1..l, inbox[k] = n
            PROVE  \E j \in 1..(l - 1) : inbox'[j] = n
        <4>1. k # 1
          BY <1>4, <2>3, <3>3
        <4>2. k - 1 \in 1..(l - 1) /\ (k - 1) + 1 = k
          BY <1>1, <4>1
        <4>3. QED
          BY <1>6, <3>3, <4>2
      <3>4. (\E k \in 1..(l - 1) : inbox'[k] = n) => (\E k \in 1..l : inbox[k] = n)
        BY <1>6
      <3>5. QED
        BY <3>1, <3>2, <3>3, <3>4
    <2>4. QED
      BY <2>2, <2>3
  <1>9. \A k, j \in DOMAIN inbox' : inbox'[k] = inbox'[j] => k = j
    <2>1. \A k, j \in 1..l : inbox[k] = inbox[j] => k = j
      BY <1>1 DEF Delivered
    <2>2. SUFFICES ASSUME NEW k \in 1..(l - 1), NEW j \in 1..(l - 1), inbox'[k] = inbox'[j]
                   PROVE  k = j
      BY <1>5
    <2>3. k + 1 = j + 1
      BY <1>6, <2>1, <2>2
    <2>4. QED
      BY <1>1, <2>3
  <1>10. \A n \in Message : fate'[n] = "new" => tries'[n] = 0
    <2>1. \A n \in Message : fate'[n] = "new" => fate[n] = "new"
      BY <1>3 DEF Delivered
    <2>2. QED
      BY <2>1 DEF Delivered
  <1>11. tries' \in [Message -> 0..MaxDeliver] /\ dead' \subseteq Message
    BY DEF Delivered
  <1>12. QED
    BY <1>1, <1>3, <1>7, <1>8, <1>9, <1>10, <1>11 DEF Delivered

\* What was pulled is pending again.
LEMMA Redelivered ==
    ASSUME Delivered, inbox' = <<>>, UNCHANGED <<stream, tries, dead>>,
           fate' = [m \in Message |-> IF fate[m] = "pulled" THEN "pending" ELSE fate[m]]
    PROVE  Delivered'
  <1>1. Message' = Message
    BY DEF Message
  <1>2. inbox' \in Seq(Message) /\ DOMAIN inbox' = {}
    <2>1. inbox' \in Seq(Message) /\ Len(inbox') = 0
      BY EmptySeq
    <2>2. DOMAIN inbox' = 1..0
      BY <2>1, LenProperties
    <2>3. QED
      BY <2>1, <2>2
  <1>3. fate' \in [Message -> Fate] /\ \A m \in Message : fate'[m] # "pulled"
    BY DEF Delivered, Fate
  <1>4. tries' \in [Message -> 0..MaxDeliver] /\ dead' \subseteq Message
    BY DEF Delivered
  <1>5. \A m \in Message : fate'[m] = "new" => tries'[m] = 0
    BY DEF Delivered
  <1>6. QED
    BY <1>1, <1>2, <1>3, <1>4, <1>5 DEF Delivered

LEMMA GivenUp ==
    ASSUME Delivered, NEW m \in Message, GiveUp(m) \/ GiveUpUnheard(m)
    PROVE  Delivered'
  <1>1. /\ fate[m] = "pending" /\ fate' = [fate EXCEPT ![m] = "exhausted"]
        /\ dead' \subseteq dead \cup {m} /\ UNCHANGED <<stream, tries, inbox>>
    BY DEF GiveUp, GiveUpUnheard, SetFate, broker
  <1>2. Message' = Message
    BY <1>1 DEF Message
  <1>3. fate' \in [Message -> Fate]
    BY <1>1 DEF Delivered, Fate
  <1>4. \A n \in Message : fate'[n] = "pulled" <=> fate[n] = "pulled"
    BY <1>1 DEF Delivered
  <1>5. \A n \in Message : fate'[n] = "new" => tries'[n] = 0
    BY <1>1 DEF Delivered
  <1>6. QED
    BY <1>1, <1>2, <1>3, <1>4, <1>5 DEF Delivered

\* An event that is handled is newer than the mark, and then the mark reaches it;
\* a life that ends lets every event be handled once more.
LEMMA HandledOnce ==
    ASSUME Remembered, NEW n \in Seqs, n > mark, UNCHANGED <<upsets, deaths>>,
           handled' = [handled EXCEPT ![n] = @ + 1], mark' = n
    PROVE  Remembered'
  <1>1. /\ n \in Nat /\ n \in 0..MaxEvents /\ mark \in Nat /\ deaths \in Nat
        /\ \A o \in Seqs : o \in Nat /\ handled[o] \in Nat
    BY SeqsAreNumbers, Numbers DEF Remembered
  <1>2. handled' \in [Seqs -> Nat]
    BY <1>1 DEF Remembered
  <1>3. ASSUME NEW o \in Seqs
        PROVE  handled'[o] <= deaths + (IF o <= mark' THEN 1 ELSE 0)
    <2>1. handled[o] <= deaths + (IF o <= mark THEN 1 ELSE 0)
      BY DEF Remembered
    <2>2. CASE o = n
      <3>1. handled'[o] = handled[o] + 1
        BY <2>2 DEF Remembered
      <3>2. QED
        BY <1>1, <2>1, <2>2, <3>1
    <2>3. CASE o # n
      <3>1. handled'[o] = handled[o]
        BY <2>3 DEF Remembered
      <3>2. QED
        BY <1>1, <2>1, <3>1
    <2>4. QED
      BY <2>2, <2>3
  <1>4. QED
    BY <1>1, <1>2, <1>3 DEF Remembered

LEMMA HandleStep ==
    ASSUME Outboxed, Brokered, Delivered, Remembered, Handle
    PROVE  Delivered' /\ Remembered'
  <1> DEFINE m == Head(inbox)
             n == stream[m]
  <1>1. /\ inbox # <<>> /\ inbox' = Tail(inbox) /\ fate' = [fate EXCEPT ![m] = "acked"]
        /\ UNCHANGED <<stream, tries, dead, deaths, upsets>>
    BY DEF Handle, SetFate, broker
  <1>2. Delivered'
    <2>1. "acked" \in Fate /\ "acked" # "pulled" /\ "acked" # "new"
      BY DEF Fate
    <2>2. QED
      BY <1>1, <2>1, Popped
  <1>3. n \in Seqs
    <2>1. inbox \in Seq(Message)
      BY DEF Delivered
    <2>2. m \in Message
      BY <1>1, <2>1, HeadTailProperties
    <2>3. QED
      BY <2>2, StreamedType
  <1>4. CASE IsNew(n)
    <2>1. n > mark /\ handled' = [handled EXCEPT ![n] = @ + 1] /\ mark' = n
      BY <1>4 DEF Handle, IsNew
    <2>2. QED
      BY <1>1, <1>2, <1>3, <2>1, HandledOnce
  <1>5. CASE ~ IsNew(n)
    <2>1. UNCHANGED <<handled, mark, deaths>> /\ upsets' = upsets
      BY <1>1, <1>5 DEF Handle
    <2>2. QED
      BY <1>2, <2>1, Remembering
  <1>6. QED
    BY <1>4, <1>5

LEMMA DeathStep ==
    ASSUME Outboxed, Brokered, Delivered, Remembered, ConsumerDies
    PROVE  Delivered' /\ Remembered'
  <1> DEFINE n == stream[Head(inbox)]
  <1>1. /\ fate' = [m \in Message |-> IF fate[m] = "pulled" THEN "pending" ELSE fate[m]]
        /\ inbox' = <<>> /\ mark' = 0 /\ deaths' = deaths + 1 /\ Upset
        /\ UNCHANGED <<stream, tries, dead>>
    BY DEF ConsumerDies, broker
  <1>2. Delivered'
    BY <1>1, Redelivered
  <1>3. /\ upsets' \in 0..MaxUpsets /\ deaths' \in 0..upsets'
        /\ mark' \in 0..MaxEvents /\ deaths \in Nat /\ mark \in Nat
    BY <1>1, Numbers DEF Upset, Remembered
  <1>4. \A o \in Seqs : o \in Nat \ {0} /\ handled[o] \in Nat
    BY SeqsAreNumbers DEF Remembered
  <1>5. CASE inbox # <<>> /\ IsNew(n)
    <2>1. handled' = [handled EXCEPT ![n] = @ + 1] /\ n > mark
      BY <1>5 DEF ConsumerDies, IsNew
    <2>2. handled' \in [Seqs -> Nat]
      <3>1. inbox \in Seq(Message)
        BY DEF Delivered
      <3>2. Head(inbox) \in Message
        BY <1>5, <3>1, HeadTailProperties
      <3>3. n \in Seqs
        BY <3>2, StreamedType
      <3>4. QED
        BY <1>4, <2>1, <3>3 DEF Remembered
    <2>3. ASSUME NEW o \in Seqs
          PROVE  handled'[o] <= deaths' + (IF o <= mark' THEN 1 ELSE 0)
      <3>1. handled[o] <= deaths + (IF o <= mark THEN 1 ELSE 0)
        BY DEF Remembered
      <3>2. handled'[o] <= deaths + 1
        <4>1. CASE o = n
          <5>1. handled'[o] = handled[o] + 1
            BY <2>1, <4>1 DEF Remembered
          <5>2. QED
            BY <1>3, <1>4, <2>1, <3>1, <4>1, <5>1
        <4>2. CASE o # n
          <5>1. handled'[o] = handled[o]
            BY <2>1, <4>2 DEF Remembered
          <5>2. QED
            BY <1>3, <1>4, <3>1, <5>1
        <4>3. QED
          BY <4>1, <4>2
      <3>3. QED
        BY <1>1, <1>3, <1>4, <2>2, <3>2
    <2>4. QED
      BY <1>2, <1>3, <2>2, <2>3 DEF Remembered
  <1>6. CASE ~ (inbox # <<>> /\ IsNew(n))
    <2>1. handled' = handled
      BY <1>6 DEF ConsumerDies
    <2>2. ASSUME NEW o \in Seqs
          PROVE  handled'[o] <= deaths' + (IF o <= mark' THEN 1 ELSE 0)
      <3>1. handled[o] <= deaths + (IF o <= mark THEN 1 ELSE 0)
        BY DEF Remembered
      <3>2. QED
        BY <1>1, <1>3, <1>4, <2>1, <3>1
    <2>3. QED
      BY <1>2, <1>3, <2>1, <2>2 DEF Remembered
  <1>7. QED
    BY <1>5, <1>6

-----------------------------------------------------------------------------
(* The theorems                                                            *)

LEMMA InitHolds == Init => IInv
  <1>1. SUFFICES ASSUME Init
                 PROVE  IInv
    OBVIOUS
  <1>2. DOMAIN stream = {} /\ DOMAIN inbox = {} /\ stream \in Seq(committed) /\ inbox \in Seq(Message)
    <2>1. stream = <<>> /\ inbox = <<>>
      BY <1>1 DEF Init
    <2>2. stream \in Seq(committed) /\ inbox \in Seq(Message) /\ Len(stream) = 0 /\ Len(inbox) = 0
      BY <2>1, EmptySeq
    <2>3. DOMAIN stream = 1..0 /\ DOMAIN inbox = 1..0
      BY <2>2, LenProperties
    <2>4. QED
      BY <2>2, <2>3
  <1>3. Outboxed
    BY <1>1, Numbers DEF Init, Outboxed, Below
  <1>4. Relayed
    BY <1>1 DEF Init, Relayed
  <1>5. Brokered
    BY <1>1, <1>2 DEF Init, Brokered, StreamFollowsTheSeq, Message
  <1>6. Delivered
    <2>1. Message = {}
      BY <1>2 DEF Message
    <2>2. fate \in [Message -> Fate] /\ tries \in [Message -> 0..MaxDeliver]
      <3>1. fate = stream /\ tries = stream
        BY <1>1 DEF Init
      <3>2. stream \in [1..Len(stream) -> committed]
        BY <1>2, LenProperties
      <3>3. stream = [m \in Message |-> stream[m]]
        BY <3>2 DEF Message
      <3>4. QED
        BY <2>1, <3>1, <3>3
    <2>3. dead = {}
      BY <1>1 DEF Init
    <2>4. QED
      BY <1>2, <2>1, <2>2, <2>3 DEF Delivered
  <1>7. Remembered
    BY <1>1, Numbers, SeqsAreNumbers DEF Init, Remembered
  <1>8. QED
    BY <1>3, <1>4, <1>5, <1>6, <1>7 DEF IInv

LEMMA StepHolds == IInv /\ [Next]_vars => IInv'
  <1>1. SUFFICES ASSUME IInv, [Next]_vars
                 PROVE  IInv'
    OBVIOUS
  <1>2. Outboxed /\ Relayed /\ Brokered /\ Delivered /\ Remembered
    BY <1>1 DEF IInv
  <1>3. ASSUME NEW w \in Writer, Draw(w) \/ Commit(w) \/ Abort(w)
        PROVE  IInv'
    <2>1. /\ UNCHANGED <<relays, broker, fate, tries, inbox, mark, dead, handled, deaths>>
          /\ Upset \/ upsets' = upsets
      BY <1>3 DEF Draw, Commit, Abort, consumer
    <2>2. Outboxed' /\ committed \subseteq committed'
      BY <1>2, <1>3, OutboxStep
    <2>3. stream' = stream
      BY <2>1 DEF broker
    <2>4. Streamed \subseteq Streamed'
      BY <2>3 DEF Streamed, Message
    <2>5. Relayed' /\ Brokered' /\ Delivered' /\ Remembered'
      BY <1>2, <2>1, <2>2, <2>3, <2>4, RelayedStays, BrokeredStays, DeliveredStays, Remembering
    <2>6. QED
      BY <2>2, <2>5 DEF IInv
  <1>4. ASSUME NEW r \in Relay,
               Elect(r) \/ ReadBatch(r) \/ Mark(r) \/ LoseSession(r) \/ RelayDies(r)
        PROVE  IInv'
    <2>1. /\ UNCHANGED <<outbox, broker, fate, tries, inbox, mark, dead, handled, deaths>>
          /\ Upset \/ upsets' = upsets
      BY <1>4 DEF Elect, ReadBatch, Mark, LoseSession, RelayDies, consumer
    <2>2. UNCHANGED <<writing, committed, stream>>
      BY <2>1 DEF outbox, broker
    <2>3. Relayed'
      BY <1>2, <1>4, <2>1, <2>2, RelayStepHolds
    <2>4. Outboxed'
      BY <1>2, <2>2 DEF Outboxed
    <2>5. Brokered' /\ Delivered' /\ Remembered'
      BY <1>2, <2>1, <2>2, BrokeredStays, DeliveredStays, Remembering
    <2>6. QED
      BY <2>3, <2>4, <2>5 DEF IInv
  <1>5. ASSUME NEW r \in Relay, Publish(r) \/ PublishFails(r)
        PROVE  IInv'
    <2>1. /\ UNCHANGED <<writing, committed, mark, handled, deaths>>
          /\ Upset \/ upsets' = upsets
      BY <1>5 DEF Publish, PublishFails, outbox
    <2>2. Relayed' /\ Brokered' /\ Delivered'
      BY <1>2, <1>5, PublishStep
    <2>3. Outboxed' /\ Remembered'
      BY <1>2, <2>1, Remembering DEF Outboxed
    <2>4. QED
      BY <2>2, <2>3 DEF IInv
  <1>6. CASE WindowPasses
    <2>1. /\ UNCHANGED <<writing, committed, relays, stream, fate, tries, inbox, mark,
                         dead, handled, deaths>>
          /\ Upset \/ upsets' = upsets
          /\ recent' = {}
      BY <1>6 DEF WindowPasses, outbox, consumer
    <2>2. Streamed' = Streamed
      BY <2>1 DEF Streamed, Message
    <2>3. Brokered'
      BY <1>2, <2>1 DEF Brokered, StreamFollowsTheSeq, Message
    <2>4. Relayed' /\ Delivered' /\ Remembered'
      BY <1>2, <2>1, <2>2, RelayedStays, DeliveredStays, Remembering
    <2>5. Outboxed'
      BY <1>2, <2>1 DEF Outboxed
    <2>6. QED
      BY <2>3, <2>4, <2>5 DEF IInv
  <1>7. CASE Deliver \/ HandleFails \/ ConsumerDies \/ \E m \in Message : GiveUpUnheard(m)
    <2>1. UNCHANGED <<writing, committed, relays, broker>>
      BY <1>7 DEF Deliver, Handle, HandleFails, ConsumerDies, Pull, GiveUp, GiveUpUnheard, outbox
    <2>2. stream' = stream
      BY <2>1 DEF broker
    <2>3. Streamed' = Streamed
      BY <2>2 DEF Streamed, Message
    <2>4. Outboxed' /\ Relayed' /\ Brokered'
      BY <1>2, <2>1, <2>3, RelayedStays, BrokeredStays DEF Outboxed
    <2>5. Delivered' /\ Remembered'
      <3>1. CASE Handle
        BY <1>2, <3>1, HandleStep
      <3>2. CASE ConsumerDies
        BY <1>2, <3>2, DeathStep
      <3>3. CASE HandleFails
        <4>1. /\ inbox # <<>> /\ inbox' = Tail(inbox)
              /\ fate' = [fate EXCEPT ![Head(inbox)] = "pending"]
              /\ UNCHANGED <<tries, dead, handled, mark, deaths>>
              /\ Upset
          BY <3>3 DEF HandleFails, SetFate
        <4>2. "pending" \in Fate /\ "pending" # "pulled" /\ "pending" # "new"
          BY DEF Fate
        <4>3. QED
          BY <1>2, <2>2, <4>1, <4>2, Popped, Remembering
      <3>4. ASSUME NEW m \in Message, Pull(m) \/ GiveUp(m) \/ GiveUpUnheard(m)
            PROVE  Delivered' /\ Remembered'
        <4>1. UNCHANGED <<handled, mark, deaths>> /\ upsets' = upsets
          BY <3>4 DEF Pull, GiveUp, GiveUpUnheard
        <4>2. QED
          BY <1>2, <3>4, <4>1, Pulled, GivenUp, Remembering
      <3>5. QED
        BY <1>7, <3>1, <3>2, <3>3, <3>4 DEF Deliver
    <2>6. QED
      BY <2>4, <2>5 DEF IInv
  <1>8. CASE UNCHANGED vars
    <2>1. /\ UNCHANGED <<writing, committed, relays, broker, stream, fate, tries, inbox,
                         mark, dead, handled, deaths, upsets>>
      BY <1>8 DEF vars, outbox, broker, consumer
    <2>2. Streamed' = Streamed
      BY <2>1 DEF Streamed, Message
    <2>3. QED
      BY <1>2, <2>1, <2>2, RelayedStays, BrokeredStays, DeliveredStays, Remembering
         DEF Outboxed, IInv
  <1>9. QED
    BY <1>1, <1>3, <1>4, <1>5, <1>6, <1>7, <1>8 DEF Next, RelayStep

\* Whatever relays, broker and consumer lose, the outbox, the stream and the
\* consumer's memory hold together.
THEOREM RelayHolds == Spec => []IInv
  <1>1. QED
    BY InitHolds, StepHolds, PTL DEF Spec

\* The tables, the stream and the consumer's state keep their types, and the
\* messages the broker counts as pulled are those in the consumer's hands.
THEOREM TypeCorrect == Spec => []TypeOK
  <1>1. IInv => TypeOK
    <2>1. SUFFICES ASSUME Outboxed, Relayed, Brokered, Delivered, Remembered
                   PROVE  TypeOK
      BY DEF IInv
    <2>2. marked \subseteq committed /\ recent \subseteq committed
      BY <2>1, StreamedType DEF Relayed, Brokered
    <2>3. QED
      BY <2>1, <2>2 DEF TypeOK, Outboxed, Relayed, Brokered, Delivered, Remembered
  <1>2. QED
    BY <1>1, RelayHolds, PTL

\* However the relays follow one another, no event is stored before an older one.
THEOREM StreamInOrder == Spec => []StreamFollowsTheSeq
  <1>1. IInv => StreamFollowsTheSeq
    BY DEF IInv, Brokered
  <1>2. QED
    BY <1>1, RelayHolds, PTL

\* An event is handled at most once more than the consumer's process has died.
THEOREM HandledOnceALife == Spec => []HandledOncePerLife
  <1>1. IInv => HandledOncePerLife
    <2>1. SUFFICES ASSUME Remembered, NEW n \in Seqs
                   PROVE  handled[n] <= 1 + deaths
      BY DEF IInv, HandledOncePerLife
    <2>2. handled[n] \in Nat /\ deaths \in Nat
      BY <2>1, Numbers DEF Remembered
    <2>3. handled[n] <= deaths + (IF n <= mark THEN 1 ELSE 0)
      BY <2>1 DEF Remembered
    <2>4. QED
      BY <2>2, <2>3
  <1>2. QED
    BY <1>1, RelayHolds, PTL


-----------------------------------------------------------------------------
(* Memories                                                                *)
\* What a memory keeps from its insertion on: rows are only added, evidence is
\* only added to, and none but a promoted copy becomes active again.
GoesOn ==
    /\ Len(mem) <= Len(mem')
    /\ \A i \in Memory :
          /\ \A c \in {"scope", "text", "embedded", "from", "seen"} : mem'[i][c] = mem[i][c]
          /\ mem[i].evidence \subseteq mem'[i].evidence
          /\ mem[i].from = 0 /\ mem'[i].status = "active" => mem[i].status = "active"

\* A memory was met in as many places as its rule asks for.
RestsOn(i, rule) ==
    /\ Cardinality(TasksOf(i)) >= rule.tasks
    /\ Cardinality(ProjectsOf(i)) >= rule.projects

\* A run knows of what it will add that no row its search could see says the same,
\* and of what it will propose that it rests on enough.
Knows(r) ==
    /\ r.at \in {"search", "save"} => r.found \in Candidate
    /\ r.at = "save" /\ r.into = 0 =>
          \A i \in Memory :
              /\ i <= r.seen /\ mem[i].from = 0 /\ mem[i].status = "active"
              /\ mem[i].scope = r.found.scope /\ mem[i].text = r.found.text
              => r.online /\ ~ mem[i].embedded
    /\ r.at = "weigh" => r.rule \in Rules
    /\ r.source # 0 => r.at = "weigh" /\ RestsOn(r.source, r.rule)

MemoryInv ==
    /\ MemoryTypeOK
    /\ NoDuplicateOfWhatWasKnown /\ PolicyRestsOnSeveralIncidents
    /\ \A i \in Memory : IsFiniteSet(mem[i].evidence)
    /\ \A p \in Proposal : mem[proposals[p].copy].from # 0
    /\ \A w \in Window : Knows(run[w])

LEMMA MemoryNumbers ==
    /\ MaxMemories \in Nat /\ MaxMishaps \in Nat /\ ConfidenceCap \in Nat
    /\ IsFiniteSet(Event) /\ Rules \subseteq Rule
    /\ \A rule \in Rules : /\ rule.tasks \in Nat /\ rule.projects \in Nat
                           /\ rule.to \in {"project", "company"}
  <1>1. Rules \subseteq Rule
    BY MemoryAssumption DEF MemoryAssumption
  <1>2. \A rule \in Rules : /\ rule.tasks \in Nat /\ rule.projects \in Nat
                           /\ rule.to \in {"project", "company"}
    BY <1>1 DEF Rule
  <1>3. QED
    BY <1>1, <1>2, MemoryAssumption DEF MemoryAssumption

LEMMA MemoriesTyped ==
    ASSUME MemoryTypeOK
    PROVE  /\ mem \in Seq(MemoryRow) /\ Len(mem) \in Nat /\ Memory = 1..Len(mem)
           /\ \A i \in Memory : mem[i] \in MemoryRow
           /\ proposals \in Seq(ProposalRow) /\ Len(proposals) \in Nat
           /\ Proposal = 1..Len(proposals)
           /\ \A p \in Proposal : proposals[p] \in ProposalRow
           /\ \A w \in Window : run[w] \in RunState
  <1>1. mem \in Seq(MemoryRow) /\ proposals \in Seq(ProposalRow) /\ run \in [Window -> RunState]
    BY DEF MemoryTypeOK, MemoryRow, ProposalRow
  <1>2. Len(mem) \in Nat /\ Memory = 1..Len(mem) /\ \A i \in 1..Len(mem) : mem[i] \in MemoryRow
    BY <1>1 DEF Memory
  <1>3. /\ Len(proposals) \in Nat /\ Proposal = 1..Len(proposals)
        /\ \A p \in 1..Len(proposals) : proposals[p] \in ProposalRow
    BY <1>1 DEF Proposal
  <1>4. \A w \in Window : run[w] \in RunState
    BY <1>1
  <1>5. QED
    BY <1>1, <1>2, <1>3, <1>4

\* More evidence comes from no fewer places.
LEMMA MorePlaces ==
    ASSUME NEW f, NEW S, NEW T, IsFiniteSet(T), S \subseteq T
    PROVE  /\ Cardinality({f[e] : e \in S} \ {None}) \in Nat
           /\ Cardinality({f[e] : e \in T} \ {None}) \in Nat
           /\ Cardinality({f[e] : e \in S} \ {None}) <= Cardinality({f[e] : e \in T} \ {None})
  <1> DEFINE g == [e \in T |-> f[e]]
             A == {f[e] : e \in S} \ {None}
             B == {f[e] : e \in T}
             C == B \ {None}
  <1>1. g \in Surjection(T, B)
    BY DEF Surjection
  <1>2. IsFiniteSet(B)
    <2> HIDE DEF g, B
    <2>1. QED
      BY <1>1, FS_Surjection
  <1>3. A \in SUBSET C /\ C \in SUBSET B
    OBVIOUS
  <1> HIDE DEF A, B, C
  <1>4. IsFiniteSet(C) /\ IsFiniteSet(A) /\ Cardinality(A) <= Cardinality(C)
    BY <1>2, <1>3, FS_Subset
  <1>5. Cardinality(A) \in Nat /\ Cardinality(C) \in Nat
    BY <1>4, FS_CardinalityType
  <1>6. QED
    BY <1>4, <1>5 DEF A, B, C

LEMMA RestsOnStays ==
    ASSUME NEW i \in Memory, NEW rule \in Rules, GoesOn, RestsOn(i, rule),
           IsFiniteSet(mem'[i].evidence)
    PROVE  RestsOn(i, rule)'
  <1>1. mem[i].evidence \subseteq mem'[i].evidence
    BY DEF GoesOn
  <1> DEFINE tasks(S) == Cardinality({TaskOf[e] : e \in S} \ {None})
             projects(S) == Cardinality({ProjectOf[e] : e \in S} \ {None})
  <1>2. /\ tasks(mem[i].evidence) \in Nat /\ tasks(mem'[i].evidence) \in Nat
        /\ tasks(mem[i].evidence) <= tasks(mem'[i].evidence)
    BY <1>1, MorePlaces
  <1>3. /\ projects(mem[i].evidence) \in Nat /\ projects(mem'[i].evidence) \in Nat
        /\ projects(mem[i].evidence) <= projects(mem'[i].evidence)
    BY <1>1, MorePlaces
  <1>4. tasks(mem[i].evidence) >= rule.tasks /\ projects(mem[i].evidence) >= rule.projects
    BY DEF RestsOn, TasksOf, ProjectsOf
  <1> HIDE DEF tasks, projects
  <1>5. tasks(mem'[i].evidence) >= rule.tasks /\ projects(mem'[i].evidence) >= rule.projects
    BY <1>2, <1>3, <1>4, MemoryNumbers
  <1>6. QED
    BY <1>5 DEF RestsOn, TasksOf, ProjectsOf, tasks, projects

LEMMA KnowsStays ==
    ASSUME MemoryTypeOK, MemoryTypeOK', NEW r \in RunState, Knows(r), GoesOn,
           \A i \in Memory : IsFiniteSet(mem[i].evidence) /\ IsFiniteSet(mem'[i].evidence)
    PROVE  Knows(r)'
  <1>1. r.seen \in 0..Len(mem) /\ r.source \in {0} \cup Memory
    BY DEF RunState
  <1>2. Memory = 1..Len(mem) /\ Len(mem) \in Nat /\ Memory' = 1..Len(mem')
    BY MemoriesTyped DEF MemoryTypeOK, Memory
  <1>3. ASSUME r.at = "save" /\ r.into = 0, NEW i \in Memory',
               i <= r.seen, mem'[i].from = 0, mem'[i].status = "active",
               mem'[i].scope = r.found.scope, mem'[i].text = r.found.text
        PROVE  r.online /\ ~ mem'[i].embedded
    <2>1. i \in Memory
      BY <1>1, <1>2, <1>3
    <2>2. /\ mem[i].from = 0 /\ mem[i].scope = r.found.scope /\ mem[i].text = r.found.text
          /\ mem[i].status = "active" /\ mem'[i].embedded = mem[i].embedded
      BY <1>3, <2>1 DEF GoesOn
    <2>3. QED
      BY <1>3, <2>1, <2>2 DEF Knows
  <1>4. r.source # 0 => r.at = "weigh" /\ RestsOn(r.source, r.rule)'
    <2> SUFFICES ASSUME r.source # 0
                 PROVE  r.at = "weigh" /\ RestsOn(r.source, r.rule)'
      OBVIOUS
    <2>1. /\ r.source \in Memory /\ r.at = "weigh" /\ RestsOn(r.source, r.rule)
          /\ r.rule \in Rules
      BY <1>1 DEF Knows
    <2>2. PICK rule \in Rules : rule = r.rule
      BY <2>1
    <2>3. PICK i \in Memory : i = r.source
      BY <2>1
    <2>4. RestsOn(i, rule)'
      BY <2>1, <2>2, <2>3, RestsOnStays
    <2>5. QED
      BY <2>1, <2>2, <2>3, <2>4
  <1>5. QED
    BY <1>3, <1>4 DEF Knows

\* What a step has to say for itself.
LEMMA MemoryKeeps ==
    ASSUME MemoryInv, MemoryTypeOK', GoesOn, Len(mem') <= Len(mem) + 1,
           \A i \in Memory' : IsFiniteSet(mem'[i].evidence),
           \A j \in Memory' \ Memory : \/ mem'[j].from # 0
              \/ \A i \in Memory :
                    /\ i <= mem'[j].seen /\ mem[i].from = 0 /\ mem[i].status = "active"
                    /\ mem[i].scope = mem'[j].scope /\ mem[i].text = mem'[j].text
                    => mem'[j].embedded /\ ~ mem[i].embedded,
           \A w \in Window : run'[w] = run[w] \/ Knows(run[w])',
           \A p \in Proposal' :
              \/ /\ p \in Proposal
                 /\ \A c \in {"source", "rule", "copy"} : proposals'[p][c] = proposals[p][c]
              \/ /\ RestsOn(proposals[p].source, proposals[p].rule)'
                 /\ mem'[proposals'[p].copy].from # 0
    PROVE  MemoryInv'
  <1>1. /\ Memory = 1..Len(mem) /\ Len(mem) \in Nat /\ Memory' = 1..Len(mem') /\ Len(mem') \in Nat
        /\ \A i \in Memory : mem[i].seen \in Nat /\ mem[i].status \in MemoryStatus
        /\ \A i \in Memory' : mem'[i].seen \in Nat
    <2>1. MemoryTypeOK /\ MemoryTypeOK'
      BY DEF MemoryInv
    <2>2. /\ Memory = 1..Len(mem) /\ Len(mem) \in Nat
          /\ \A i \in Memory : mem[i] \in MemoryRow
      BY <2>1, MemoriesTyped
    <2>3. mem' \in Seq(MemoryRow) /\ Memory' = DOMAIN mem'
      BY <2>1 DEF MemoryTypeOK, MemoryRow, Memory, Scope, MemoryStatus
    <2>4. /\ Memory' = 1..Len(mem') /\ Len(mem') \in Nat
          /\ \A i \in Memory' : mem'[i] \in MemoryRow
      BY <2>3
    <2>5. QED
      BY <2>2, <2>4 DEF MemoryRow
  <1>2. \A i \in Memory : IsFiniteSet(mem[i].evidence) /\ IsFiniteSet(mem'[i].evidence)
    BY <1>1 DEF MemoryInv, GoesOn
  <1>3. NoDuplicateOfWhatWasKnown'
    <2> SUFFICES ASSUME NEW i \in Memory', NEW j \in Memory', i < j,
                        mem'[i].from = 0, mem'[j].from = 0,
                        mem'[i].scope = mem'[j].scope, mem'[i].text = mem'[j].text,
                        mem'[i].status = "active", mem'[j].status = "active",
                        ~ (i > mem'[j].seen)
                 PROVE  mem'[j].embedded /\ ~ mem'[i].embedded
      BY DEF NoDuplicateOfWhatWasKnown
    <2>1. i \in Memory /\ i <= mem'[j].seen
      BY <1>1
    <2>2. /\ mem[i].from = 0 /\ mem[i].status = "active" /\ mem[i].scope = mem'[i].scope
          /\ mem[i].text = mem'[i].text /\ mem'[i].embedded = mem[i].embedded
      BY <2>1 DEF GoesOn
    <2>3. CASE j \in Memory
      <3>1. /\ mem[j].from = 0 /\ mem[j].status = "active" /\ mem[j].scope = mem'[j].scope
            /\ mem[j].text = mem'[j].text /\ mem'[j].embedded = mem[j].embedded
            /\ mem[j].seen = mem'[j].seen
        BY <2>3 DEF GoesOn
      <3>2. i > mem[j].seen \/ (mem[j].embedded /\ ~ mem[i].embedded)
        BY <2>1, <2>2, <2>3, <3>1 DEF MemoryInv, NoDuplicateOfWhatWasKnown
      <3>3. QED
        BY <2>2, <3>1, <3>2
    <2>4. CASE j \notin Memory
      BY <2>1, <2>2, <2>4
    <2>5. QED
      BY <2>3, <2>4
  <1>4. \A w \in Window : Knows(run[w])'
    <2> SUFFICES ASSUME NEW w \in Window, run'[w] = run[w]
                 PROVE  Knows(run[w])'
      OBVIOUS
    <2>1. PICK r \in RunState : r = run[w]
      BY MemoriesTyped DEF MemoryInv
    <2>2. Knows(r) /\ MemoryTypeOK
      BY <2>1 DEF MemoryInv
    <2>3. Knows(r)'
      BY <1>2, <2>2, KnowsStays
    <2>4. r = run'[w]
      BY <2>1
    <2>5. QED
      BY <2>3, <2>4
  <1>5. \A p \in Proposal' : /\ RestsOn(proposals[p].source, proposals[p].rule)'
                             /\ mem'[proposals'[p].copy].from # 0
    <2> SUFFICES ASSUME NEW p \in Proposal,
                        \A c \in {"source", "rule", "copy"} : proposals'[p][c] = proposals[p][c]
                 PROVE  /\ RestsOn(proposals[p].source, proposals[p].rule)'
                        /\ mem'[proposals'[p].copy].from # 0
      OBVIOUS
    <2>1. proposals[p] \in ProposalRow
      BY MemoriesTyped DEF MemoryInv
    <2>2. PICK i \in Memory : i = proposals[p].source
      BY <2>1 DEF ProposalRow
    <2>3. PICK rule \in Rules : rule = proposals[p].rule
      BY <2>1 DEF ProposalRow
    <2>4. RestsOn(i, rule)
      BY <2>2, <2>3 DEF MemoryInv, PolicyRestsOnSeveralIncidents, RestsOn
    <2>5. RestsOn(i, rule)'
      BY <1>2, <2>4, RestsOnStays
    <2>6. RestsOn(proposals[p].source, proposals[p].rule)'
      <3>1. proposals'[p].source = i /\ proposals'[p].rule = rule
        BY <2>2, <2>3
      <3>2. QED
        BY <2>5, <3>1
    <2>7. proposals[p].copy \in Memory /\ mem[proposals[p].copy].from # 0
      BY <2>1 DEF ProposalRow, MemoryInv
    <2>8. mem'[proposals[p].copy].from = mem[proposals[p].copy].from
      BY <2>7 DEF GoesOn
    <2>9. QED
      BY <2>6, <2>7, <2>8
  <1>6. PolicyRestsOnSeveralIncidents'
    BY <1>5 DEF PolicyRestsOnSeveralIncidents, RestsOn
  <1>7. QED
    <2>1. /\ \A i \in Memory' : IsFiniteSet(mem'[i].evidence)
          /\ \A p \in Proposal' : mem'[proposals'[p].copy].from # 0
          /\ \A w \in Window : Knows(run[w])'
      BY <1>4, <1>5
    <2>2. QED
      BY <1>3, <1>6, <2>1 DEF MemoryInv, Knows, RestsOn

-----------------------------------------------------------------------------
(* Its steps                                                               *)

\* What could be pointed to can still be.
LEMMA MorePointedTo ==
    ASSUME mem \in Seq(MemoryRow), mem' \in Seq(MemoryRow), Len(mem) <= Len(mem')
    PROVE  /\ Memory \subseteq Memory' /\ RunState \subseteq RunState'
           /\ ProposalRow \subseteq ProposalRow' /\ Seq(ProposalRow) \subseteq Seq(ProposalRow')
  <1>1. /\ Len(mem) \in Nat /\ Len(mem') \in Nat
        /\ Memory = 1..Len(mem) /\ Memory' = 1..Len(mem')
    BY DEF Memory
  <1>2. Memory \subseteq Memory' /\ 0..Len(mem) \subseteq 0..Len(mem')
    BY <1>1
  <1>3. RunState \subseteq RunState'
    BY <1>2 DEF RunState
  <1>4. ProposalRow \subseteq ProposalRow'
    BY <1>2 DEF ProposalRow
  <1>5. ASSUME NEW S, NEW T, S \subseteq T
        PROVE  Seq(S) \subseteq Seq(T)
    BY <1>5
  <1>6. Seq(ProposalRow) \subseteq Seq(ProposalRow')
    BY <1>4, <1>5
  <1>7. QED
    BY <1>2, <1>3, <1>4, <1>6

LEMMA MemoryMishap ==
    ASSUME mishaps \in 0..MaxMishaps, Mishap
    PROVE  mishaps' \in 0..MaxMishaps
  BY MemoryNumbers DEF Mishap

\* A step of a run that writes nothing.
LEMMA MemoryQuiet ==
    ASSUME MemoryInv, NEW w \in Window, NEW r \in RunState, Knows(r),
           run' = [run EXCEPT ![w] = r], mem' = mem, disputed' = disputed,
           proposals' = proposals, mishaps' \in 0..MaxMishaps, unread' \subseteq Memory
    PROVE  MemoryInv'
  <1>1. MemoryTypeOK'
    <2>1. Memory' = Memory /\ RunState' = RunState
      BY DEF Memory, RunState
    <2>2. run' \in [Window -> RunState]
      BY DEF MemoryInv, MemoryTypeOK
    <2>3. QED
      BY <2>1, <2>2 DEF MemoryInv, MemoryTypeOK, ProposalRow
  <1>2. GoesOn
    <2>1. Len(mem) \in Nat
      BY MemoriesTyped DEF MemoryInv
    <2>2. QED
      BY <2>1 DEF GoesOn
  <1>3. /\ Memory' = Memory /\ Proposal' = Proposal /\ Len(mem') <= Len(mem) + 1
        /\ \A i \in Memory' : IsFiniteSet(mem'[i].evidence)
    <2>1. Len(mem) \in Nat
      BY MemoriesTyped DEF MemoryInv
    <2>2. QED
      BY <2>1 DEF MemoryInv, Memory, Proposal
  <1>4. \A v \in Window : run'[v] = run[v] \/ Knows(run[v])'
    <2> SUFFICES ASSUME NEW v \in Window, run'[v] # run[v]
                 PROVE  Knows(run[v])'
      OBVIOUS
    <2>1. run'[v] = r
      BY DEF MemoryInv, MemoryTypeOK
    <2>2. QED
      BY <2>1 DEF Knows, RestsOn, TasksOf, ProjectsOf, Memory
  <1>5. \A p \in Proposal' : \A c \in {"source", "rule", "copy"} :
            p \in Proposal /\ proposals'[p][c] = proposals[p][c]
    BY <1>3
  <1>6. QED
    BY <1>1, <1>2, <1>3, <1>4, <1>5, MemoryKeeps

LEMMA MemoryRunOf ==
    ASSUME MemoryInv, NEW w \in Window
    PROVE  /\ run[w] \in RunState /\ Knows(run[w])
           /\ mem \in Seq(MemoryRow) /\ Len(mem) \in Nat /\ Memory = 1..Len(mem)
           /\ \A i \in Memory : mem[i] \in MemoryRow
           /\ mishaps \in 0..MaxMishaps /\ unread \subseteq Memory
           /\ run \in [Window -> RunState]
  BY MemoriesTyped DEF MemoryInv, MemoryTypeOK

\* A run begun anew.
LEMMA RunAfresh ==
    ASSUME MemoryInv, NEW step \in Steps \ {"search", "save", "weigh"}, NEW failed \in BOOLEAN
    PROVE  /\ [NoRun EXCEPT !.at = step, !.failed = failed] \in RunState
           /\ Knows([NoRun EXCEPT !.at = step, !.failed = failed])
  <1>1. Len(mem) \in Nat
    BY MemoriesTyped DEF MemoryInv
  <1>2. 0 \in 0..Len(mem) /\ "none" \in Steps
    BY <1>1 DEF Steps
  <1>3. NoRun \in RunState
    BY <1>2 DEF RunState, NoRun
  <1>4. NoRun.source = 0
    BY DEF NoRun
  <1> DEFINE q == [NoRun EXCEPT !.at = step, !.failed = failed]
  <1>5. q \in RunState
    BY <1>3 DEF RunState
  <1>6. q.at = step /\ q.source = 0
    BY <1>3, <1>4 DEF RunState
  <1> HIDE DEF q
  <1>7. Knows(q)
    BY <1>6 DEF Knows
  <1>8. QED
    BY <1>5, <1>7 DEF q

\* A run that has come to the end of a list, or not yet.
LEMMA RunGoesOn ==
    ASSUME MemoryInv, NEW r \in RunState, r.at = "weigh", Knows(r)
    PROVE  /\ GoOn(r) \in RunState /\ Knows(GoOn(r))
           /\ GoOn(r).at \in {"weigh", "evaluate"} /\ GoOn(r).source = r.source
  <1>1. CASE r.todo = {} /\ r.source = 0
    <2> DEFINE done == r.done \cup {r.rule}
               q == [r EXCEPT !.at = "evaluate", !.done = done, !.rule = None]
    <2>1. done \in SUBSET Rules /\ "evaluate" \in Steps
      BY DEF Knows, RunState, Steps
    <2>2. GoOn(r) = q
      BY <1>1 DEF GoOn
    <2> HIDE DEF done
    <2>3. q \in RunState /\ q.at = "evaluate" /\ q.source = 0
      BY <1>1, <2>1 DEF RunState
    <2> HIDE DEF q
    <2>4. Knows(q)
      BY <2>3 DEF Knows
    <2>5. QED
      BY <1>1, <2>2, <2>3, <2>4
  <1>2. CASE ~ (r.todo = {} /\ r.source = 0)
    BY <1>2 DEF GoOn
  <1>3. QED
    BY <1>1, <1>2

LEMMA MemoryBegins ==
    ASSUME MemoryInv, NEW w \in Window, Start(w) \/ StartAgain(w) \/ Discard(w)
    PROVE  MemoryInv'
  <1> USE MemoryRunOf
  <1>1. CASE Start(w)
    <2> DEFINE r == [run[w] EXCEPT !.at = "extract"]
    <2>1. r \in RunState /\ Knows(r)
      BY <1>1 DEF Start, RunState, Steps, Knows
    <2>2. /\ run' = [run EXCEPT ![w] = r] /\ mem' = mem /\ disputed' = disputed
          /\ proposals' = proposals /\ mishaps' \in 0..MaxMishaps /\ unread' \subseteq Memory
      BY <1>1 DEF Start, GoTo
    <2> HIDE DEF r
    <2>3. QED
      BY <2>1, <2>2, MemoryQuiet
  <1>2. CASE StartAgain(w)
    <2> DEFINE r == [NoRun EXCEPT !.at = "extract", !.failed = run[w].failed]
    <2>1. r \in RunState /\ Knows(r)
      <3>1. "extract" \in Steps \ {"search", "save", "weigh"} /\ run[w].failed \in BOOLEAN
        BY DEF RunState, Steps
      <3>2. QED
        BY <3>1, RunAfresh
    <2>2. /\ run' = [run EXCEPT ![w] = r] /\ mem' = mem /\ disputed' = disputed
          /\ proposals' = proposals /\ mishaps' \in 0..MaxMishaps /\ unread' \subseteq Memory
      BY <1>2, MemoryMishap DEF StartAgain
    <2> HIDE DEF r
    <2>3. QED
      BY <2>1, <2>2, MemoryQuiet
  <1>3. CASE Discard(w)
    <2> DEFINE r == [run[w] EXCEPT !.at = "over"]
    <2>1. r \in RunState /\ Knows(r)
      BY <1>3 DEF Discard, RunState, Steps, Knows
    <2>2. /\ run' = [run EXCEPT ![w] = r] /\ mem' = mem /\ disputed' = disputed
          /\ proposals' = proposals /\ mishaps' \in 0..MaxMishaps /\ unread' \subseteq Memory
      BY <1>3 DEF Discard, GoTo
    <2> HIDE DEF r
    <2>3. QED
      BY <2>1, <2>2, MemoryQuiet
  <1>4. QED
    BY <1>1, <1>2, <1>3

LEMMA MemoryExtracts ==
    ASSUME MemoryInv, NEW w \in Window, Extract(w)
    PROVE  MemoryInv'
  <1> USE MemoryRunOf
  <1>1. PICK c \in Yields[w] : run' = [run EXCEPT ![w].at = "search", ![w].found = c]
    BY DEF Extract
  <1>2. c \in Candidate
    BY MemoryAssumption DEF MemoryAssumption
  <1> DEFINE r == [run[w] EXCEPT !.at = "search", !.found = c]
  <1>3. run[w].source = 0
    BY DEF Extract, Knows
  <1>4. r \in RunState /\ r.at = "search" /\ r.found = c /\ r.source = 0
    <2>1. PICK p \in RunState : p = run[w]
      OBVIOUS
    <2>2. "search" \in Steps /\ c \in Candidate \cup {None}
      BY <1>2 DEF Steps
    <2>3. [p EXCEPT !.at = "search", !.found = c] \in RunState
      BY <2>2 DEF RunState
    <2>4. QED
      BY <1>3, <2>1, <2>3 DEF RunState
  <1>5. /\ run' = [run EXCEPT ![w] = r] /\ mem' = mem /\ disputed' = disputed
        /\ proposals' = proposals /\ mishaps' \in 0..MaxMishaps /\ unread' \subseteq Memory
    BY <1>1 DEF Extract
  <1> HIDE DEF r
  <1>6. Knows(r)
    BY <1>2, <1>4 DEF Knows
  <1>7. QED
    BY <1>4, <1>5, <1>6, MemoryQuiet

\* What the search found nothing of, nothing it could see says.
LEMMA MemorySearches ==
    ASSUME MemoryInv, NEW w \in Window, Search(w)
    PROVE  MemoryInv'
  <1> USE MemoryRunOf
  <1>1. PICK online \in BOOLEAN :
          LET twins == {i \in Visible(w, online) : mem[i].text = run[w].found.text}
          IN \E into \in IF twins = {} THEN {0} ELSE twins :
               run' = [run EXCEPT ![w].at = "save", ![w].online = online,
                                  ![w].into = into, ![w].seen = Len(mem),
                                  ![w].against = IF online /\ into = 0
                                                 THEN Visible(w, TRUE) ELSE {}]
    BY DEF Search
  <1> DEFINE twins == {i \in Visible(w, online) : mem[i].text = run[w].found.text}
  <1>2. PICK into \in IF twins = {} THEN {0} ELSE twins :
               run' = [run EXCEPT ![w].at = "save", ![w].online = online,
                                  ![w].into = into, ![w].seen = Len(mem),
                                  ![w].against = IF online /\ into = 0
                                                 THEN Visible(w, TRUE) ELSE {}]
    BY <1>1
  <1> DEFINE against == IF online /\ into = 0 THEN Visible(w, TRUE) ELSE {}
             r == [run[w] EXCEPT !.at = "save", !.online = online, !.into = into,
                                 !.seen = Len(mem), !.against = against]
  <1>3. into \in {0} \cup Memory /\ against \in SUBSET Memory
    BY DEF Visible
  <1>4. r \in RunState
    <2>1. Len(mem) \in 0..Len(mem) /\ "save" \in Steps
      BY DEF Steps
    <2> HIDE DEF against, twins
    <2>2. QED
      BY <1>3, <2>1 DEF RunState
  <1>5. ASSUME into = 0, NEW i \in Memory, mem[i].status = "active",
               mem[i].scope = run[w].found.scope, mem[i].text = run[w].found.text
        PROVE  online /\ ~ mem[i].embedded
    <2>1. twins = {}
      <3>1. 0 \notin twins
        BY DEF Visible
      <3>2. QED
        BY <1>5, <1>2, <3>1
    <2>2. i \notin Visible(w, online)
      BY <1>5, <2>1
    <2>3. QED
      BY <1>5, <2>2 DEF Visible
  <1>6. Knows(r)
    <2> HIDE DEF against, twins
    <2>1. /\ r.at = "save" /\ r.online = online /\ r.into = into /\ r.found = run[w].found
          /\ r.source = run[w].source /\ r.seen = Len(mem)
      BY DEF RunState
    <2>2. run[w].found \in Candidate /\ run[w].source = 0
      BY DEF Search, Knows
    <2> HIDE DEF r
    <2>3. QED
      BY <1>5, <2>1, <2>2 DEF Knows
  <1>7. /\ run' = [run EXCEPT ![w] = r] /\ mem' = mem /\ disputed' = disputed
        /\ proposals' = proposals /\ mishaps' \in 0..MaxMishaps /\ unread' \subseteq Memory
    BY <1>2 DEF Search
  <1> HIDE DEF r
  <1>8. QED
    BY <1>4, <1>6, <1>7, MemoryQuiet

LEMMA MemoryFails ==
    ASSUME MemoryInv, NEW w \in Window, FailRun(w) \/ EvaluateAgain(w)
    PROVE  MemoryInv'
  <1> USE MemoryRunOf
  <1>1. CASE FailRun(w)
    <2> DEFINE r == [NoRun EXCEPT !.at = "over", !.failed = TRUE]
    <2>1. r \in RunState /\ Knows(r)
      <3>1. "over" \in Steps \ {"search", "save", "weigh"} /\ TRUE \in BOOLEAN
        BY DEF Steps
      <3>2. QED
        BY <3>1, RunAfresh
    <2>2. /\ run' = [run EXCEPT ![w] = r] /\ mem' = mem /\ disputed' = disputed
          /\ proposals' = proposals /\ mishaps' \in 0..MaxMishaps /\ unread' \subseteq Memory
      BY <1>1, MemoryMishap DEF FailRun
    <2> HIDE DEF r
    <2>3. QED
      BY <2>1, <2>2, MemoryQuiet
  <1>2. CASE EvaluateAgain(w)
    <2> DEFINE r == [NoRun EXCEPT !.at = "evaluate", !.failed = run[w].failed]
    <2>1. r \in RunState /\ Knows(r)
      <3>1. "evaluate" \in Steps \ {"search", "save", "weigh"} /\ run[w].failed \in BOOLEAN
        BY DEF RunState, Steps
      <3>2. QED
        BY <3>1, RunAfresh
    <2>2. /\ run' = [run EXCEPT ![w] = r] /\ mem' = mem /\ disputed' = disputed
          /\ proposals' = proposals /\ mishaps' \in 0..MaxMishaps /\ unread' \subseteq Memory
      BY <1>2, MemoryMishap DEF EvaluateAgain
    <2> HIDE DEF r
    <2>3. QED
      BY <2>1, <2>2, MemoryQuiet
  <1>3. QED
    BY <1>1, <1>2

\* A rule's list, and what of it is put aside as having too little to rest on.
LEMMA MemoryWeighs ==
    ASSUME MemoryInv, NEW w \in Window, ReadSources(w) \/ Weigh(w) \/ EndEvaluation(w)
    PROVE  MemoryInv'
  <1> USE MemoryRunOf
  <1>1. CASE ReadSources(w)
    <2>1. PICK rule \in Rules \ run[w].done :
            LET eligible == {i \in Memory : Eligible(i, rule)}
            IN  \E todo \in SUBSET eligible :
                  /\ Cardinality(todo) = Min({SourceLimit, Cardinality(eligible)})
                  /\ run' = [run EXCEPT ![w] = GoOn([@ EXCEPT !.at = "weigh", !.rule = rule,
                                                              !.todo = todo])]
                  /\ unread' = (unread \ todo) \cup {i \in eligible \ todo : Due(i, rule)}
      BY <1>1 DEF ReadSources
    <2> DEFINE eligible == {i \in Memory : Eligible(i, rule)}
    <2>2. PICK todo \in SUBSET eligible :
            /\ run' = [run EXCEPT ![w] = GoOn([@ EXCEPT !.at = "weigh", !.rule = rule,
                                                        !.todo = todo])]
            /\ unread' = (unread \ todo) \cup {i \in eligible \ todo : Due(i, rule)}
      BY <2>1
    <2> DEFINE r == [run[w] EXCEPT !.at = "weigh", !.rule = rule, !.todo = todo]
    <2>3. /\ run' = [run EXCEPT ![w] = GoOn(r)] /\ mem' = mem /\ disputed' = disputed
          /\ proposals' = proposals /\ mishaps' \in 0..MaxMishaps /\ unread' \subseteq Memory
      BY <1>1, <2>2 DEF ReadSources
    <2>4. todo \in SUBSET Memory /\ "weigh" \in Steps /\ run[w].source = 0
      BY <1>1 DEF ReadSources, Knows, Steps
    <2> HIDE DEF eligible
    <2>5. r \in RunState /\ r.at = "weigh" /\ r.source = 0 /\ r.rule = rule
      <3>1. PICK p \in RunState : p = run[w]
        OBVIOUS
      <3>2. rule \in Rules \cup {None}
        OBVIOUS
      <3>3. [p EXCEPT !.at = "weigh", !.rule = rule, !.todo = todo] \in RunState
        BY <2>4, <3>2 DEF RunState
      <3>4. QED
        BY <2>4, <3>1, <3>3 DEF RunState
    <2> HIDE DEF r
    <2>6. Knows(r)
      BY <2>5 DEF Knows
    <2>7. GoOn(r) \in RunState /\ Knows(GoOn(r))
      BY <2>5, <2>6, RunGoesOn
    <2>8. QED
      BY <2>3, <2>7, MemoryQuiet
  <1>2. CASE Weigh(w)
    <2> DEFINE rule == run[w].rule
               Source(i) == IF /\ ~ HasProposal(i, rule.to)
                               /\ EnoughEvidence(i, rule) /\ Anchored(i, rule)
                            THEN i ELSE 0
    <2>1. PICK i \in run[w].todo :
               run' = [run EXCEPT ![w] = GoOn([@ EXCEPT !.todo = run[w].todo \ {i},
                                                        !.source = Source(i)])]
      BY <1>2 DEF Weigh
    <2>2. /\ run[w].at = "weigh" /\ run[w].rule \in Rules /\ i \in Memory
          /\ run[w].todo \ {i} \in SUBSET Memory
      BY <1>2, <2>1 DEF Weigh, Knows, RunState
    <2>3. PICK source \in {0, i} : /\ source = Source(i)
                                   /\ source # 0 => RestsOn(i, rule)
      BY DEF EnoughEvidence, RestsOn
    <2> DEFINE r == [run[w] EXCEPT !.todo = run[w].todo \ {i}, !.source = source]
    <2>4. /\ run' = [run EXCEPT ![w] = GoOn(r)] /\ mem' = mem /\ disputed' = disputed
          /\ proposals' = proposals /\ mishaps' \in 0..MaxMishaps /\ unread' \subseteq Memory
      <3>1. mem' = mem /\ disputed' = disputed /\ proposals' = proposals
            /\ mishaps' = mishaps /\ unread' = unread
        BY <1>2 DEF Weigh
      <3> HIDE DEF Source, rule
      <3>2. QED
        BY <2>1, <2>3, <3>1
    <2> HIDE DEF Source
    <2>5. r \in RunState /\ r.at = "weigh" /\ r.source = source /\ r.rule = rule
      BY <2>2 DEF RunState
    <2> HIDE DEF r
    <2>6. Knows(r)
      BY <2>2, <2>3, <2>5 DEF Knows
    <2>7. GoOn(r) \in RunState /\ Knows(GoOn(r))
      BY <2>5, <2>6, RunGoesOn
    <2>8. QED
      BY <2>4, <2>7, MemoryQuiet
  <1>3. CASE EndEvaluation(w)
    <2> DEFINE r == [run[w] EXCEPT !.at = "over", !.done = {}]
    <2>1. r \in RunState /\ r.at = "over" /\ r.source = 0
      <3>1. PICK p \in RunState : p = run[w]
        OBVIOUS
      <3>2. "over" \in Steps /\ {} \in SUBSET Rules
        BY DEF Steps
      <3>3. [p EXCEPT !.at = "over", !.done = {}] \in RunState
        BY <3>2 DEF RunState
      <3>4. run[w].source = 0
        BY <1>3 DEF EndEvaluation, Knows
      <3>5. QED
        BY <3>1, <3>3, <3>4 DEF RunState
    <2>2. /\ run' = [run EXCEPT ![w] = r] /\ mem' = mem /\ disputed' = disputed
          /\ proposals' = proposals /\ mishaps' \in 0..MaxMishaps /\ unread' \subseteq Memory
      BY <1>3 DEF EndEvaluation
    <2> HIDE DEF r
    <2>3. Knows(r)
      BY <2>1 DEF Knows
    <2>4. QED
      BY <2>1, <2>2, <2>3, MemoryQuiet
  <1>4. QED
    BY <1>1, <1>2, <1>3

LEMMA MemoryTypesKept ==
    ASSUME MemoryInv, mem' \in Seq(MemoryRow), Len(mem) <= Len(mem'),
           \A i \in Memory' : /\ mem'[i].from < i /\ mem'[i].seen < i
                              /\ mem'[i].from = 0 => mem'[i].scope # "company",
           proposals' \in Seq(ProposalRow'), disputed' \subseteq Memory' \X Memory',
           run' \in [Window -> RunState], mishaps' \in 0..MaxMishaps, unread' \subseteq Memory
    PROVE  MemoryTypeOK'
  <1>1. mem \in Seq(MemoryRow)
    BY MemoriesTyped DEF MemoryInv
  <1>2. RunState \subseteq RunState' /\ Memory \subseteq Memory'
    BY <1>1, MorePointedTo
  <1>3. run' \in [Window -> RunState'] /\ unread' \subseteq Memory'
    BY <1>2
  <1>4. mem' \in Seq(MemoryRow')
    BY DEF MemoryRow, Scope, MemoryStatus
  <1>5. QED
    BY <1>3, <1>4 DEF MemoryTypeOK

\* What is in a row does not matter to the runs.
LEMMA RunsKept ==
    ASSUME NEW w \in Window, run'[w].at \notin {"search", "save", "weigh"}, run'[w].source = 0
    PROVE  Knows(run[w])'
  BY DEF Knows

LEMMA ConfidenceTyped ==
    ASSUME NEW a \in Nat, NEW b \in Nat
    PROVE  Min({a, b}) \in Nat
  <1>1. \E x \in {a, b} : \A y \in {a, b} : x <= y
    OBVIOUS
  <1>2. QED
    BY <1>1 DEF Min

LEMMA EvidenceFinite ==
    ASSUME NEW S \in SUBSET Event
    PROVE  IsFiniteSet(S)
  BY MemoryNumbers, FS_Subset

LEMMA MemoryPersists ==
    ASSUME MemoryInv, NEW w \in Window, run[w].at = "save", Persist(w),
           proposals' = proposals, mishaps' \in 0..MaxMishaps, unread' = unread,
           run' \in [Window -> RunState],
           \A v \in Window : run'[v] = run[v]
                                \/ /\ run'[v].at \notin {"search", "save", "weigh"}
                                   /\ run'[v].source = 0
    PROVE  MemoryInv'
  <1>1. /\ run[w] \in RunState /\ Knows(run[w]) /\ Len(mem) \in Nat /\ Memory = 1..Len(mem)
        /\ mem \in Seq(MemoryRow) /\ \A i \in Memory : mem[i] \in MemoryRow
    BY MemoryRunOf
  <1> DEFINE found == run[w].found
             row == [scope |-> found.scope, text |-> found.text, type |-> found.type,
                     confidence |-> Confidence(w), status |-> found.status,
                     embedded |-> run[w].online, evidence |-> found.cites,
                     from |-> 0, seen |-> run[w].seen]
             n == Len(mem) + 1
  <1>2. run[w].into = 0 /\ mem' = Append(mem, row)
        /\ disputed' = disputed \cup {<<n, i>> : i \in run[w].against}
    BY DEF Persist
  <1>3. /\ found \in Candidate /\ run[w].online \in BOOLEAN
        /\ run[w].seen \in 0..Len(mem) /\ run[w].against \subseteq Memory
    BY <1>1 DEF Knows, RunState
  <1>4. /\ found.scope \in Scope \ {"company"} /\ found.text \in Text /\ found.type \in Type
        /\ found.confidence \in Nat /\ found.status \in MemoryStatus /\ found.cites \in SUBSET Event
    BY <1>3 DEF Candidate, Scope, MemoryStatus
  <1>5. row \in MemoryRow /\ IsFiniteSet(found.cites)
    <2>1. Confidence(w) \in Nat
      BY <1>4, MemoryNumbers, ConfidenceTyped DEF Confidence
    <2>2. IsFiniteSet(found.cites)
      BY <1>4, EvidenceFinite
    <2>3. run[w].seen \in Nat
      BY <1>1, <1>3
    <2> HIDE DEF found
    <2>4. QED
      BY <1>3, <1>4, <2>1, <2>2, <2>3 DEF MemoryRow
  <1>6. /\ row.scope = found.scope /\ row.text = found.text /\ row.embedded = run[w].online
        /\ row.from = 0 /\ row.seen = run[w].seen /\ row.evidence = found.cites
    OBVIOUS
  <1> HIDE DEF row
  <1>7. /\ mem' \in Seq(MemoryRow) /\ Len(mem') = n /\ mem'[n] = row
        /\ \A i \in 1..Len(mem) : mem'[i] = mem[i]
    BY <1>1, <1>2, <1>5
  <1>8. Memory' = 1..n /\ n \in Nat
    BY <1>1, <1>7 DEF Memory
  <1>9. \A i \in Memory' : i \in Memory \/ i = n
    BY <1>1, <1>8
  <1>10. /\ \A i \in Memory : /\ mem[i].from < i /\ mem[i].seen < i
                              /\ mem[i].from = 0 => mem[i].scope # "company"
         /\ disputed \subseteq Memory \X Memory /\ proposals \in Seq(ProposalRow)
    BY MemoriesTyped DEF MemoryInv, MemoryTypeOK
  <1>11. MemoryTypeOK'
    <2>1. \A i \in Memory' : /\ mem'[i].from < i /\ mem'[i].seen < i
                             /\ mem'[i].from = 0 => mem'[i].scope # "company"
      <3>1. mem'[n].from < n /\ mem'[n].seen < n /\ mem'[n].scope # "company"
        BY <1>1, <1>3, <1>4, <1>6, <1>7
      <3>2. \A i \in Memory : mem'[i] = mem[i]
        BY <1>1, <1>7
      <3>3. QED
        BY <1>9, <1>10, <3>1, <3>2
    <2>2. proposals' \in Seq(ProposalRow')
      BY <1>1, <1>7, <1>10, MorePointedTo
    <2>3. disputed' \subseteq Memory' \X Memory'
      BY <1>1, <1>2, <1>3, <1>8, <1>10
    <2>4. Len(mem) <= Len(mem')
      BY <1>1, <1>7
    <2>5. unread' \subseteq Memory
      BY MemoryRunOf
    <2>6. QED
      BY <1>7, <2>1, <2>2, <2>3, <2>4, <2>5, MemoryTypesKept
  <1>12. GoesOn /\ Len(mem') <= Len(mem) + 1
    BY <1>1, <1>7 DEF GoesOn
  <1>13. \A i \in Memory' : IsFiniteSet(mem'[i].evidence)
    BY <1>1, <1>5, <1>6, <1>7, <1>9 DEF MemoryInv
  <1>14. \A j \in Memory' \ Memory :
              \A i \in Memory :
                    /\ i <= mem'[j].seen /\ mem[i].from = 0 /\ mem[i].status = "active"
                    /\ mem[i].scope = mem'[j].scope /\ mem[i].text = mem'[j].text
                    => mem'[j].embedded /\ ~ mem[i].embedded
    <2>1. \A i \in Memory :
              /\ i <= run[w].seen /\ mem[i].from = 0 /\ mem[i].status = "active"
              /\ mem[i].scope = run[w].found.scope /\ mem[i].text = run[w].found.text
              => run[w].online /\ ~ mem[i].embedded
      BY <1>1, <1>2 DEF Knows
    <2>2. QED
      BY <1>6, <1>7, <1>9, <2>1
  <1>15. \A v \in Window : run'[v] = run[v] \/ Knows(run[v])'
    BY RunsKept
  <1>16. \A p \in Proposal' : p \in Proposal
            /\ \A c \in {"source", "rule", "copy"} : proposals'[p][c] = proposals[p][c]
    BY DEF Proposal
  <1>17. QED
    BY <1>11, <1>12, <1>13, <1>14, <1>15, <1>16, MemoryKeeps

LEMMA MemoryMerges ==
    ASSUME MemoryInv, NEW w \in Window, run[w].at = "save", Merge(w),
           proposals' = proposals, mishaps' \in 0..MaxMishaps, unread' = unread,
           run' \in [Window -> RunState],
           \A v \in Window : run'[v] = run[v]
                                \/ /\ run'[v].at \notin {"search", "save", "weigh"}
                                   /\ run'[v].source = 0
    PROVE  MemoryInv'
  <1>1. /\ run[w] \in RunState /\ Len(mem) \in Nat /\ Memory = 1..Len(mem)
        /\ mem \in Seq(MemoryRow) /\ \A i \in Memory : mem[i] \in MemoryRow
    BY MemoryRunOf
  <1>2. PICK k \in Memory : k = run[w].into
    BY <1>1 DEF Merge, RunState
  <1>3. mem' = [mem EXCEPT ![k].evidence = @ \cup run[w].found.cites] /\ disputed' = disputed
    BY <1>2 DEF Merge
  <1> DEFINE cites == run[w].found.cites
             row == [mem[k] EXCEPT !.evidence = mem[k].evidence \cup cites]
  <1>4. cites \in SUBSET Event
    <2>1. run[w].found \in Candidate
      BY MemoryRunOf DEF Knows
    <2>2. QED
      BY <2>1 DEF Candidate
  <1>5. /\ row \in MemoryRow /\ row.evidence = mem[k].evidence \cup cites
        /\ \A c \in {"scope", "text", "status", "embedded", "from", "seen"} : row[c] = mem[k][c]
    BY <1>1, <1>4 DEF MemoryRow
  <1>6. mem' = [mem EXCEPT ![k] = row]
    BY <1>3
  <1> HIDE DEF row
  <1>7. /\ mem' \in Seq(MemoryRow) /\ Len(mem') = Len(mem) /\ mem'[k] = row
        /\ \A i \in 1..Len(mem) : i # k => mem'[i] = mem[i]
    BY <1>1, <1>2, <1>5, <1>6
  <1>8. Memory' = Memory
    BY <1>1, <1>7 DEF Memory
  <1>9. \A i \in Memory :
          /\ \A c \in {"scope", "text", "status", "embedded", "from", "seen"} : mem'[i][c] = mem[i][c]
          /\ mem[i].evidence \subseteq mem'[i].evidence
    BY <1>1, <1>5, <1>7
  <1>10. /\ \A i \in Memory : /\ mem[i].from < i /\ mem[i].seen < i
                              /\ mem[i].from = 0 => mem[i].scope # "company"
         /\ disputed \subseteq Memory \X Memory /\ proposals \in Seq(ProposalRow)
    BY MemoriesTyped DEF MemoryInv, MemoryTypeOK
  <1>11. MemoryTypeOK'
    <2>1. \A i \in Memory' : /\ mem'[i].from < i /\ mem'[i].seen < i
                             /\ mem'[i].from = 0 => mem'[i].scope # "company"
      BY <1>8, <1>9, <1>10
    <2>2. proposals' \in Seq(ProposalRow')
      BY <1>1, <1>7, <1>10, MorePointedTo
    <2>3. Len(mem) <= Len(mem')
      BY <1>1, <1>7
    <2>4. unread' \subseteq Memory
      BY MemoryRunOf
    <2>5. QED
      BY <1>3, <1>7, <1>8, <1>10, <2>1, <2>2, <2>3, <2>4, MemoryTypesKept
  <1>12. GoesOn /\ Len(mem') <= Len(mem) + 1
    BY <1>1, <1>7, <1>9 DEF GoesOn
  <1>13. \A i \in Memory' : IsFiniteSet(mem'[i].evidence)
    <2>1. \A i \in Memory : IsFiniteSet(mem[i].evidence)
      BY DEF MemoryInv
    <2>2. IsFiniteSet(row.evidence)
      <3>1. IsFiniteSet(mem[k].evidence) /\ IsFiniteSet(cites)
        BY <1>4, <2>1, EvidenceFinite
      <3>2. IsFiniteSet(mem[k].evidence \cup cites)
        BY <3>1, FS_Union
      <3>3. QED
        BY <1>5, <3>2
    <2>3. QED
      BY <1>1, <1>7, <1>8, <2>1, <2>2
  <1>14. \A v \in Window : run'[v] = run[v] \/ Knows(run[v])'
    BY RunsKept
  <1>15. \A p \in Proposal' : p \in Proposal
            /\ \A c \in {"source", "rule", "copy"} : proposals'[p][c] = proposals[p][c]
    BY DEF Proposal
  <1>16. QED
    BY <1>8, <1>11, <1>12, <1>13, <1>14, <1>15, MemoryKeeps

LEMMA MemorySaves ==
    ASSUME MemoryInv, NEW w \in Window, Save(w) \/ LoseAnswer(w)
    PROVE  MemoryInv'
  <1>1. run[w].at = "save" /\ (Persist(w) \/ Merge(w)) /\ proposals' = proposals
        /\ unread' = unread
    BY DEF Save, LoseAnswer
  <1>2. run \in [Window -> RunState] /\ mishaps \in 0..MaxMishaps
    BY MemoryRunOf
  <1>3. mishaps' \in 0..MaxMishaps
    BY <1>2, MemoryMishap DEF Save, LoseAnswer
  <1>4. /\ run' \in [Window -> RunState]
        /\ \A v \in Window : run'[v] = run[v]
                                \/ /\ run'[v].at \notin {"search", "save", "weigh"}
                                   /\ run'[v].source = 0
    <2>1. CASE LoseAnswer(w)
      BY <1>2, <2>1 DEF LoseAnswer
    <2>2. CASE Save(w)
      <3> DEFINE r == [NoRun EXCEPT !.at = "evaluate", !.failed = run[w].failed]
      <3>1. run' = [run EXCEPT ![w] = r]
        BY <2>2 DEF Save, AfterSave
      <3>2. "evaluate" \in Steps \ {"search", "save", "weigh"} /\ run[w].failed \in BOOLEAN
        BY <1>2 DEF RunState, Steps
      <3>3. r \in RunState
        BY <3>2, RunAfresh
      <3>4. r.at = "evaluate" /\ r.source = 0
        BY DEF NoRun
      <3> HIDE DEF r
      <3>5. QED
        BY <1>2, <3>1, <3>3, <3>4
    <2>3. QED
      BY <2>1, <2>2
  <1>5. QED
    BY <1>1, <1>3, <1>4, MemoryPersists, MemoryMerges

\* The copy comes after what it copies, and rests on it.
LEMMA MemoryProposes ==
    ASSUME MemoryInv, NEW w \in Window, Propose(w)
    PROVE  MemoryInv'
  <1>1. /\ run[w] \in RunState /\ Knows(run[w]) /\ Len(mem) \in Nat /\ Memory = 1..Len(mem)
        /\ mem \in Seq(MemoryRow) /\ \A i \in Memory : mem[i] \in MemoryRow
        /\ mishaps \in 0..MaxMishaps /\ run \in [Window -> RunState]
    BY MemoryRunOf
  <1>2. PICK k \in Memory : k = run[w].source
    BY <1>1 DEF Propose, RunState
  <1>3. /\ k \in Nat /\ 0 < k /\ run[w].at = "weigh" /\ run[w].rule \in Rules
        /\ RestsOn(k, run[w].rule)
    BY <1>1, <1>2 DEF Knows
  <1>4. PICK rule \in Rules : rule = run[w].rule
    BY <1>3
  <1> DEFINE n == Len(mem) + 1
             row == [mem[k] EXCEPT !.scope = rule.to, !.status = "candidate",
                                   !.evidence = {}, !.from = k]
             made == [source |-> k, rule |-> rule, copy |-> n, status |-> "proposed"]
             q == [run[w] EXCEPT !.source = 0]
  <1>5. /\ mem' = Append(mem, row) /\ proposals' = Append(proposals, made)
        /\ run' = [run EXCEPT ![w] = GoOn(q)] /\ disputed' = disputed /\ mishaps' = mishaps
        /\ unread' = unread
    BY <1>2, <1>4 DEF Propose
  <1>6. q \in RunState /\ q.at = "weigh" /\ q.source = 0 /\ q.rule = rule
    BY <1>1, <1>3, <1>4 DEF RunState
  <1> HIDE DEF q
  <1>7. Knows(q)
    BY <1>6 DEF Knows
  <1>8. PICK r \in RunState : /\ r = GoOn(q) /\ r.at \in {"weigh", "evaluate"} /\ r.source = 0
                              /\ r.at = "weigh" => r.rule \in Rules
    BY <1>6, <1>7, RunGoesOn DEF Knows
  <1>9. rule.to \in {"project", "company"} /\ RestsOn(k, rule)
    BY <1>3, <1>4, MemoryNumbers
  <1>10. k \in Nat /\ 0 < k /\ k < n
    BY <1>1
  <1>11. /\ row \in MemoryRow /\ row.from = k /\ row.seen = mem[k].seen /\ row.evidence = {}
    BY <1>1, <1>9, <1>10 DEF MemoryRow, Scope, MemoryStatus
  <1>12. made.source = k /\ made.rule = rule /\ made.copy = n
    OBVIOUS
  <1> HIDE DEF row
  <1>13. /\ mem' \in Seq(MemoryRow) /\ Len(mem') = n /\ mem'[n] = row
         /\ \A i \in 1..Len(mem) : mem'[i] = mem[i]
    BY <1>1, <1>5, <1>11
  <1>14. Memory' = 1..n /\ n \in Nat
    BY <1>1, <1>13 DEF Memory
  <1>15. \A i \in Memory' : i \in Memory \/ i = n
    BY <1>1, <1>14
  <1>16. /\ \A i \in Memory : /\ mem[i].from < i /\ mem[i].seen < i
                              /\ mem[i].from = 0 => mem[i].scope # "company"
         /\ disputed \subseteq Memory \X Memory /\ proposals \in Seq(ProposalRow)
         /\ Len(proposals) \in Nat /\ Proposal = 1..Len(proposals)
    BY MemoriesTyped DEF MemoryInv, MemoryTypeOK
  <1>17. made \in ProposalRow'
    BY <1>1, <1>9, <1>14 DEF ProposalRow, ProposalStatus
  <1> HIDE DEF made
  <1>18. proposals \in Seq(ProposalRow')
    BY <1>1, <1>13, <1>16, MorePointedTo
  <1>19. /\ proposals' \in Seq(ProposalRow') /\ Len(proposals') = Len(proposals) + 1
         /\ proposals'[Len(proposals) + 1] = made
         /\ \A p \in 1..Len(proposals) : proposals'[p] = proposals[p]
    BY <1>5, <1>17, <1>18
  <1>20. /\ run' \in [Window -> RunState]
         /\ \A v \in Window : run'[v] = run[v] \/ run'[v] = r
    BY <1>1, <1>5, <1>8
  <1>21. MemoryTypeOK'
    <2>1. \A i \in Memory' : /\ mem'[i].from < i /\ mem'[i].seen < i
                             /\ mem'[i].from = 0 => mem'[i].scope # "company"
      <3>1. mem[k].seen < n
        BY <1>1, <1>10, <1>16 DEF MemoryRow
      <3>2. mem'[n].from < n /\ mem'[n].seen < n /\ mem'[n].from # 0
        BY <1>10, <1>11, <1>13, <3>1
      <3>3. \A i \in Memory : mem'[i] = mem[i]
        BY <1>1, <1>13
      <3>4. QED
        BY <1>15, <1>16, <3>2, <3>3
    <2>2. disputed' \subseteq Memory' \X Memory'
      BY <1>1, <1>5, <1>14, <1>16
    <2>3. Len(mem) <= Len(mem')
      BY <1>1, <1>13
    <2>4. unread' \subseteq Memory
      BY <1>5, MemoryRunOf
    <2>5. QED
      BY <1>1, <1>5, <1>13, <1>19, <1>20, <2>1, <2>2, <2>3, <2>4, MemoryTypesKept
  <1>22. GoesOn /\ Len(mem') <= Len(mem) + 1
    BY <1>1, <1>13 DEF GoesOn
  <1>23. \A i \in Memory' : IsFiniteSet(mem'[i].evidence)
    BY <1>1, <1>11, <1>13, <1>15, FS_EmptySet DEF MemoryInv
  <1>24. \A j \in Memory' \ Memory : mem'[j].from # 0
    BY <1>10, <1>11, <1>13, <1>15
  <1>25. \A v \in Window : run'[v] = run[v] \/ Knows(run[v])'
    <2>1. ASSUME NEW v \in Window, run'[v] = r
          PROVE  Knows(run[v])'
      BY <1>8, <2>1 DEF Knows
    <2>2. QED
      BY <1>20, <2>1
  <1>26. \A p \in Proposal' :
              \/ /\ p \in Proposal
                 /\ \A c \in {"source", "rule", "copy"} : proposals'[p][c] = proposals[p][c]
              \/ /\ RestsOn(proposals[p].source, proposals[p].rule)'
                 /\ mem'[proposals'[p].copy].from # 0
    <2> SUFFICES ASSUME NEW p \in Proposal', p \notin Proposal
                 PROVE  /\ RestsOn(proposals[p].source, proposals[p].rule)'
                        /\ mem'[proposals'[p].copy].from # 0
      BY <1>16, <1>19
    <2>1. p = Len(proposals) + 1
      BY <1>16, <1>19 DEF Proposal
    <2>2. proposals'[p].source = k /\ proposals'[p].rule = rule /\ proposals'[p].copy = n
      BY <1>12, <1>19, <2>1
    <2>3. mem'[k] = mem[k] /\ mem'[n].from # 0
      BY <1>1, <1>10, <1>11, <1>13
    <2>4. RestsOn(k, rule)'
      BY <1>9, <2>3 DEF RestsOn, TasksOf, ProjectsOf
    <2>5. QED
      BY <2>2, <2>3, <2>4
  <1>27. QED
    BY <1>21, <1>22, <1>23, <1>24, <1>25, <1>26, MemoryKeeps

LEMMA RowReplaced ==
    ASSUME NEW S, NEW rows \in Seq(S), NEW k \in 1..Len(rows), NEW row \in S
    PROVE  /\ [rows EXCEPT ![k] = row] \in Seq(S)
           /\ Len([rows EXCEPT ![k] = row]) = Len(rows)
           /\ [rows EXCEPT ![k] = row][k] = row
           /\ \A i \in 1..Len(rows) : i # k => [rows EXCEPT ![k] = row][i] = rows[i]
  OBVIOUS

\* A memory's status changes; only a copy becomes active so.
LEMMA MemoryStands ==
    ASSUME MemoryInv, NEW k \in Memory, NEW status \in MemoryStatus,
           status # "active" \/ mem[k].from # 0,
           mem' = [mem EXCEPT ![k].status = status], disputed' = disputed, run' = run,
           mishaps' \in 0..MaxMishaps, unread' = unread,
           proposals' \in Seq(ProposalRow), Len(proposals') = Len(proposals),
           \A p \in Proposal : \A c \in {"source", "rule", "copy"} :
               proposals'[p][c] = proposals[p][c]
    PROVE  MemoryInv'
  <1>1. /\ Len(mem) \in Nat /\ Memory = 1..Len(mem)
        /\ mem \in Seq(MemoryRow) /\ \A i \in Memory : mem[i] \in MemoryRow
        /\ proposals \in Seq(ProposalRow) /\ Len(proposals) \in Nat /\ Proposal = 1..Len(proposals)
    BY MemoriesTyped DEF MemoryInv
  <1> DEFINE row == [mem[k] EXCEPT !.status = status]
  <1>2. /\ row \in MemoryRow /\ row.status = status
        /\ \A c \in {"scope", "text", "embedded", "evidence", "from", "seen"} : row[c] = mem[k][c]
    BY <1>1 DEF MemoryRow
  <1>3. mem' = [mem EXCEPT ![k] = row]
    OBVIOUS
  <1> HIDE DEF row
  <1>4. /\ mem' \in Seq(MemoryRow) /\ Len(mem') = Len(mem) /\ mem'[k] = row
        /\ \A i \in 1..Len(mem) : i # k => mem'[i] = mem[i]
    <2>1. k \in 1..Len(mem) /\ row \in MemoryRow /\ mem \in Seq(MemoryRow)
      BY <1>1, <1>2
    <2> DEFINE rows == [mem EXCEPT ![k] = row]
    <2>2. /\ rows \in Seq(MemoryRow) /\ Len(rows) = Len(mem) /\ rows[k] = row
          /\ \A i \in 1..Len(mem) : i # k => rows[i] = mem[i]
      BY <2>1, RowReplaced
    <2> HIDE DEF rows
    <2>3. rows = mem'
      BY <1>3 DEF rows
    <2>4. QED
      BY <2>2, <2>3
  <1>5. Memory' = Memory
    BY <1>1, <1>4 DEF Memory
  <1>6. \A i \in Memory :
          /\ \A c \in {"scope", "text", "embedded", "evidence", "from", "seen"} : mem'[i][c] = mem[i][c]
          /\ mem[i].from = 0 /\ mem'[i].status = "active" => mem[i].status = "active"
    BY <1>1, <1>2, <1>4
  <1>7. /\ \A i \in Memory : /\ mem[i].from < i /\ mem[i].seen < i
                             /\ mem[i].from = 0 => mem[i].scope # "company"
        /\ disputed \subseteq Memory \X Memory /\ run \in [Window -> RunState]
    BY DEF MemoryInv, MemoryTypeOK
  <1>8. MemoryTypeOK'
    <2>1. \A i \in Memory' : /\ mem'[i].from < i /\ mem'[i].seen < i
                             /\ mem'[i].from = 0 => mem'[i].scope # "company"
      BY <1>5, <1>6, <1>7
    <2>2. proposals' \in Seq(ProposalRow')
      BY <1>1, <1>4, MorePointedTo
    <2>3. Len(mem) <= Len(mem')
      BY <1>1, <1>4
    <2>4. unread' \subseteq Memory
      BY DEF MemoryInv, MemoryTypeOK
    <2>5. QED
      BY <1>4, <1>5, <1>7, <2>1, <2>2, <2>3, <2>4, MemoryTypesKept
  <1>9. GoesOn /\ Len(mem') <= Len(mem) + 1
    BY <1>1, <1>4, <1>6 DEF GoesOn
  <1>10. \A i \in Memory' : IsFiniteSet(mem'[i].evidence)
    BY <1>5, <1>6 DEF MemoryInv
  <1>11. Proposal' = Proposal
    BY <1>1 DEF Proposal
  <1>12. QED
    BY <1>5, <1>8, <1>9, <1>10, <1>11, MemoryKeeps

LEMMA MemoryJudged ==
    ASSUME MemoryInv,
           \/ \E i \in Memory : Archive(i)
           \/ \E p \in Proposal, verdict \in {"approved", "rejected"} : Decide(p, verdict)
           \/ \E pair \in disputed : \E loser \in {pair[1], pair[2]} : Resolve(pair, loser)
    PROVE  MemoryInv'
  <1>1. /\ proposals \in Seq(ProposalRow) /\ Len(proposals) \in Nat /\ Proposal = 1..Len(proposals)
        /\ mishaps \in 0..MaxMishaps /\ disputed \subseteq Memory \X Memory
        /\ \A p \in Proposal : proposals[p] \in ProposalRow /\ mem[proposals[p].copy].from # 0
    BY MemoriesTyped DEF MemoryInv, MemoryTypeOK
  <1>2. ASSUME NEW k \in Memory, Archive(k)
        PROVE  MemoryInv'
    <2>1. "archived" \in MemoryStatus
      BY DEF MemoryStatus
    <2>2. QED
      BY <1>1, <1>2, <2>1, MemoryMishap, MemoryStands DEF Archive
  <1>3. ASSUME NEW pair \in disputed, NEW loser \in {pair[1], pair[2]}, Resolve(pair, loser)
        PROVE  MemoryInv'
    <2>1. loser \in Memory
      BY <1>1
    <2>2. "superseded" \in MemoryStatus
      BY DEF MemoryStatus
    <2>3. QED
      BY <1>1, <1>3, <2>1, <2>2, MemoryMishap, MemoryStands DEF Resolve
  <1>4. ASSUME NEW p \in Proposal, NEW verdict \in {"approved", "rejected"}, Decide(p, verdict)
        PROVE  MemoryInv'
    <2> DEFINE status == IF verdict = "approved" THEN "active" ELSE "rejected"
               made == [proposals[p] EXCEPT !.status = verdict]
    <2>1. PICK k \in Memory : k = proposals[p].copy
      BY <1>1 DEF ProposalRow
    <2>2. mem[k].from # 0
      BY <1>1, <2>1
    <2>3. /\ mem' = [mem EXCEPT ![k].status = status] /\ disputed' = disputed /\ run' = run
          /\ mishaps' \in 0..MaxMishaps /\ unread' = unread
      BY <1>1, <1>4, <2>1 DEF Decide
    <2>4. status \in MemoryStatus
      BY DEF MemoryStatus
    <2>5. /\ made \in ProposalRow
          /\ \A c \in {"source", "rule", "copy"} : made[c] = proposals[p][c]
      BY <1>1 DEF ProposalRow, ProposalStatus
    <2>6. proposals' = [proposals EXCEPT ![p] = made]
      BY <1>4 DEF Decide
    <2> HIDE DEF status, made
    <2>7. /\ proposals' \in Seq(ProposalRow) /\ Len(proposals') = Len(proposals)
          /\ \A q \in Proposal : proposals'[q] = IF q = p THEN made ELSE proposals[q]
      BY <1>1, <2>5, <2>6
    <2>8. \A q \in Proposal : \A c \in {"source", "rule", "copy"} :
              proposals'[q][c] = proposals[q][c]
      BY <2>5, <2>7
    <2>9. QED
      BY <2>2, <2>3, <2>4, <2>7, <2>8, MemoryStands
  <1>5. QED
    BY <1>2, <1>3, <1>4

-----------------------------------------------------------------------------
(* The theorems                                                            *)

LEMMA MemoryStarts ==
    ASSUME MemoryInit
    PROVE  MemoryInv
  <1>1. mem = <<>> /\ proposals = <<>> /\ disputed = {} /\ mishaps = 0 /\ Len(mem) = 0
        /\ unread = {}
    BY DEF MemoryInit
  <1>2. Memory = {} /\ Proposal = {}
    BY <1>1 DEF Memory, Proposal
  <1>3. NoRun \in RunState
    BY <1>1 DEF NoRun, RunState, Steps, Scope, MemoryStatus
  <1>4. \A w \in Window : run[w] = NoRun
    BY DEF MemoryInit
  <1>5. Knows(NoRun)
    BY DEF NoRun, Knows
  <1>6. run \in [Window -> RunState]
    BY <1>3 DEF MemoryInit
  <1>7. mishaps \in 0..MaxMishaps
    BY <1>1, MemoryNumbers
  <1>8. MemoryTypeOK
    BY <1>1, <1>2, <1>6, <1>7 DEF MemoryTypeOK
  <1>9. QED
    BY <1>2, <1>4, <1>5, <1>8 DEF MemoryInv, NoDuplicateOfWhatWasKnown, PolicyRestsOnSeveralIncidents

LEMMA MemoryStep ==
    ASSUME MemoryInv, [MemoryNext]_memoryVars
    PROVE  MemoryInv'
  <1>1. CASE UNCHANGED memoryVars
    BY <1>1 DEF memoryVars, MemoryInv, MemoryTypeOK, NoDuplicateOfWhatWasKnown,
                PolicyRestsOnSeveralIncidents, Knows, RestsOn, RunState, ProposalRow,
                Memory, Proposal, TasksOf, ProjectsOf
  <1>2. ASSUME NEW w \in Window, Start(w) \/ StartAgain(w) \/ Step(w)
                                  \/ LoseAnswer(w) \/ FailRun(w) \/ EvaluateAgain(w)
        PROVE  MemoryInv'
    BY <1>2, MemoryBegins, MemoryExtracts, MemorySearches, MemorySaves, MemoryWeighs,
       MemoryProposes, MemoryFails DEF Step
  <1>3. QED
    BY <1>1, <1>2, MemoryJudged DEF MemoryNext

\* What the memories, the proposals and the runs know of each other holds
\* throughout, however many windows are consolidated at once.
THEOREM MemoryHolds == MemorySpec => []MemoryInv
  <1>1. MemoryInit => MemoryInv
    BY MemoryStarts
  <1>2. MemoryInv /\ [MemoryNext]_memoryVars => MemoryInv'
    BY MemoryStep
  <1>3. QED
    BY <1>1, <1>2, PTL DEF MemorySpec

\* The rows, the proposals and the runs have their types: what they point to is there,
\* and what points to another memory, or has seen it, came after it.
THEOREM MemoryTypeCorrect == MemorySpec => []MemoryTypeOK
  <1>1. MemoryInv => MemoryTypeOK
    BY DEF MemoryInv
  <1>2. QED
    BY <1>1, MemoryHolds, PTL

\* No run stacks a second active memory of a text on one its search could have found.
THEOREM NothingKnownTwice == MemorySpec => []NoDuplicateOfWhatWasKnown
  <1>1. MemoryInv => NoDuplicateOfWhatWasKnown
    BY DEF MemoryInv
  <1>2. QED
    BY <1>1, MemoryHolds, PTL

\* Whatever is proposed for a wider scope was met in as many tasks and as
\* many projects as its rule asks for.
THEOREM PolicyRests == MemorySpec => []PolicyRestsOnSeveralIncidents
  <1>1. MemoryInv => PolicyRestsOnSeveralIncidents
    BY DEF MemoryInv
  <1>2. QED
    BY <1>1, MemoryHolds, PTL
================================================================================
