-------------------------- MODULE MarketDataProofs --------------------------
(***************************************************************************)
(* next_event gives its callers what Feed promises for any streams, any    *)
(* number of payloads and connections and any number under way.  What is   *)
(* under way on a connection goes on where the reader is, without a gap,   *)
(* but for the first message of a connection.  So what is read is in the   *)
(* order it was published: closed bars are final, they join the answer of  *)
(* a REST request made after connecting, and a sort by time keeps them.    *)
(***************************************************************************)
EXTENDS MarketData, DataProofs

IsSeq(s) == s \in Seq({s[n] : n \in 1..Len(s)})

Messages == [type : {"data", "ping", "close", "error"}, item : Nat]

At  == IF received = <<>> THEN 0 ELSE received[Len(received)].item
Gap == received = <<>> \/ received[Len(received)].conn # connects

Continues(message) == message.type \in {"data", "ping"}

\* The number of payloads published before a message's own.
Base(message) == IF message.type = "data" THEN message.item - 1 ELSE message.item

\* A close or an error comes last, with or without a gap.
Joins(message, known) == Continues(message) => Base(message) = known

Contiguous(messages) ==
  /\ messages \in Seq(Messages)
  /\ \A n \in 1..(Len(messages) - 1) :
       Continues(messages[n]) /\ Joins(messages[n + 1], messages[n].item)

\* The inductive invariant.  What is under way joins what is known, but for
\* the first message of a connection; on a live connection everything
\* published is under way or known.
FeedInv ==
  /\ IsSeq(published) /\ IsSeq(received) /\ connects \in Nat
  /\ received # <<>> => received[Len(received)].conn \in 0..connects
  /\ At \in 0..Len(published)
  /\ Contiguous(wire)
  /\ \A n \in 1..Len(wire) : wire[n].item <= Len(published)
  /\ wire # <<>> =>
       IF Gap THEN Continues(wire[1]) => Base(wire[1]) >= At ELSE Joins(wire[1], At)
  /\ conn = "live" =>
       IF wire = <<>> THEN Gap \/ At = Len(published)
       ELSE Continues(wire[Len(wire)]) /\ wire[Len(wire)].item = Len(published)
-----------------------------------------------------------------------------
LEMMA AppendIsSeq ==
  ASSUME NEW s, IsSeq(s), NEW e
  PROVE  /\ IsSeq(Append(s, e))
         /\ Len(s) \in Nat /\ Len(Append(s, e)) = Len(s) + 1
         /\ \A n \in 1..Len(s) : Append(s, e)[n] = s[n]
         /\ Append(s, e)[Len(s) + 1] = e
         /\ Append(s, e) # <<>>
         /\ SubSeq(Append(s, e), 1, Len(s)) = s
<1> DEFINE S == {s[n] : n \in 1..Len(s)} \cup {e}
           t == Append(s, e)
<1>1. s \in Seq(S)
  BY SeqMonotonic DEF IsSeq
<1>2. /\ t \in Seq(S) /\ Len(t) = Len(s) + 1 /\ t # <<>>
      /\ \A n \in 1..Len(s) : t[n] = s[n]
      /\ t[Len(s) + 1] = e
      /\ Len(s) \in Nat
  BY <1>1, AppendProperties, LenProperties
<1> HIDE DEF t
<1>3. IsSeq(t)
  BY SMTT(30), <1>2, LenProperties DEF IsSeq
<1>4. SubSeq(t, 1, Len(s)) = s
  <2> HIDE DEF S
  <2>1. \A n \in 1..Len(s) : t[n] \in S
    BY <1>1, <1>2, ElementOfSeq
  <2>2. /\ SubSeq(t, 1, Len(s)) \in Seq(S) /\ Len(SubSeq(t, 1, Len(s))) = Len(s)
        /\ \A n \in 1..Len(s) : SubSeq(t, 1, Len(s))[n] = t[n]
    BY <1>2, <2>1, SubSeqProperties
  <2>. QED BY <1>1, <1>2, <2>2, SeqEqual
<1>. QED BY <1>2, <1>3, <1>4 DEF t

\* What the exchange sends next.
LEMMA ExtendsContiguous ==
  ASSUME NEW w, Contiguous(w), NEW message \in Messages,
         w # <<>> => Continues(w[Len(w)]) /\ Joins(message, w[Len(w)].item)
  PROVE  LET t == Append(w, message)
         IN  /\ Contiguous(t)
             /\ Len(w) \in Nat /\ Len(t) = Len(w) + 1
             /\ \A n \in 1..Len(w) : t[n] = w[n]
             /\ t[Len(t)] = message
             /\ IF w = <<>> THEN t[1] = message ELSE t[1] = w[1] /\ Len(w) > 0
             /\ t # <<>>
<1> DEFINE t == Append(w, message)
<1>1. /\ w \in Seq(Messages) /\ t \in Seq(Messages) /\ Len(t) = Len(w) + 1
      /\ \A n \in 1..Len(w) : t[n] = w[n]
      /\ t[Len(w) + 1] = message /\ t # <<>>
      /\ Len(w) \in Nat /\ (w # <<>> => Len(w) > 0) /\ (w = <<>> => Len(w) = 0)
  BY AppendProperties, LenProperties, EmptySeq DEF Contiguous
<1> HIDE DEF t
<1>2. ASSUME NEW n \in 1..(Len(t) - 1)
      PROVE  Continues(t[n]) /\ Joins(t[n + 1], t[n].item)
  <2>1. CASE n = Len(w)
    BY <1>1, <2>1
  <2>2. CASE n # Len(w)
    <3>1. n \in 1..(Len(w) - 1) /\ n \in 1..Len(w) /\ n + 1 \in 1..Len(w)
      BY <1>1, <2>2
    <3>. QED BY <1>1, <3>1 DEF Contiguous
  <2>. QED BY <2>1, <2>2
<1>3. Contiguous(t)
  BY <1>1, <1>2 DEF Contiguous
<1>. QED BY <1>1, <1>3 DEF t

\* What a broken connection leaves.
LEMMA CutContiguous ==
  ASSUME NEW w, Contiguous(w), NEW n \in 0..Len(w)
  PROVE  LET t == SubSeq(w, 1, n)
         IN  Contiguous(t) /\ Len(t) = n /\ \A m \in 1..n : t[m] = w[m]
<1> DEFINE t == SubSeq(w, 1, n)
<1>1. w \in Seq(Messages) /\ Len(w) \in Nat
  BY LenProperties DEF Contiguous
<1>2. \A m \in 1..n : w[m] \in Messages
  BY <1>1, ElementOfSeq
<1>3. t \in Seq(Messages) /\ Len(t) = n /\ \A m \in 1..n : t[m] = w[m]
  BY <1>1, <1>2, SubSeqProperties
<1> HIDE DEF t
<1>4. ASSUME NEW m \in 1..(Len(t) - 1)
      PROVE  Continues(t[m]) /\ Joins(t[m + 1], t[m].item)
  <2>1. m \in 1..(Len(w) - 1) /\ m \in 1..n /\ m + 1 \in 1..n
    BY <1>1, <1>3
  <2>. QED BY <1>3, <2>1 DEF Contiguous
<1>5. Contiguous(t)
  BY <1>3, <1>4 DEF Contiguous
<1>. QED BY <1>3, <1>5 DEF t

\* What is left when a message has been read.
LEMMA RestContiguous ==
  ASSUME NEW w, Contiguous(w), w # <<>>
  PROVE  LET t == Tail(w)
         IN  /\ Head(w) = w[1] /\ w[1] \in Messages
             /\ Contiguous(t) /\ Len(w) \in Nat \ {0} /\ Len(t) = Len(w) - 1
             /\ \A n \in 1..Len(t) : t[n] = w[n + 1]
             /\ t # <<>> => Len(t) > 0 /\ Continues(w[1]) /\ Joins(t[1], w[1].item)
             /\ t = <<>> => Len(w) = 1
<1> DEFINE t == Tail(w)
<1>1. /\ w \in Seq(Messages) /\ Len(w) \in Nat \ {0}
      /\ t \in Seq(Messages) /\ Len(t) = Len(w) - 1 /\ Len(t) \in Nat
      /\ \A n \in 1..Len(t) : t[n] = w[n + 1]
      /\ Head(w) = w[1] /\ w[1] \in Messages
  BY HeadTailProperties, LenProperties, EmptySeq, ElementOfSeq DEF Contiguous
<1> HIDE DEF t
<1>2. (t # <<>> => Len(t) > 0) /\ (t = <<>> => Len(t) = 0)
  BY <1>1, EmptySeq
<1>3. ASSUME t # <<>> PROVE Continues(w[1]) /\ Joins(t[1], w[1].item)
  <2>1. 1 \in 1..(Len(w) - 1) /\ t[1] = w[1 + 1]
    BY <1>1, <1>2, <1>3
  <2>. QED BY <2>1 DEF Contiguous
<1>4. ASSUME NEW n \in 1..(Len(t) - 1)
      PROVE  Continues(t[n]) /\ Joins(t[n + 1], t[n].item)
  <2>1. /\ n + 1 \in 1..(Len(w) - 1)
        /\ t[n] = w[n + 1] /\ t[n + 1] = w[(n + 1) + 1]
    BY <1>1
  <2>. QED BY <2>1 DEF Contiguous
<1>5. Contiguous(t)
  BY <1>1, <1>4 DEF Contiguous
<1>. QED BY <1>1, <1>2, <1>3, <1>5 DEF t
-----------------------------------------------------------------------------
LEMMA InitHolds == Init => FeedInv /\ F!FeedInit
<1> SUFFICES ASSUME Init PROVE FeedInv /\ F!FeedInit
  OBVIOUS
<1>1. IsSeq(<<>>)
  BY EmptySeq DEF IsSeq
<1>2. At = 0 /\ Gap
  BY DEF Init, At, Gap
<1>3. Contiguous(<<>>)
  BY EmptySeq DEF Contiguous
<1>4. FeedInv
  BY <1>1, <1>2, <1>3, EmptySeq DEF Init, FeedInv
<1>5. [n \in 1..Len(received) |-> Learned(received[n].event)] = <<>>
  BY EmptySeq DEF Init
<1>6. F!FeedInit
  BY <1>5 DEF Init, F!FeedInit
<1>. QED BY <1>4, <1>6

LEMMA InvFacts ==
  ASSUME FeedInv
  PROVE  /\ At \in Nat /\ Len(published) \in Nat /\ At <= Len(published)
         /\ wire \in Seq(Messages) /\ Len(wire) \in Nat
         /\ \A n \in 1..Len(wire) : wire[n].item \in Nat /\ wire[n].item <= Len(published)
         /\ Gap \in BOOLEAN
<1>1. IsSeq(published) /\ At \in 0..Len(published)
  BY DEF FeedInv
<1>2. Len(published) \in Nat
  BY <1>1, LenProperties DEF IsSeq
<1>3. At \in Nat /\ At <= Len(published)
  BY <1>1, <1>2
<1>4. wire \in Seq(Messages) /\ Len(wire) \in Nat
  BY LenProperties DEF FeedInv, Contiguous
<1>5. ASSUME NEW n \in 1..Len(wire)
      PROVE  wire[n].item \in Nat /\ wire[n].item <= Len(published)
  <2>1. wire[n] \in Messages
    BY <1>4, ElementOfSeq
  <2>2. wire[n].item <= Len(published)
    BY DEF FeedInv
  <2>. QED BY <2>1, <2>2 DEF Messages
<1>6. Gap \in BOOLEAN
  BY DEF Gap
<1>. QED BY <1>2, <1>3, <1>4, <1>5, <1>6

\* The exchange publishes one more payload.
LEMMA PublishStep ==
  ASSUME FeedInv, Publish
  PROVE  FeedInv' /\ F!Publish
<1> DEFINE message == [type |-> "data", item |-> Len(published')]
<1>1. PICK item : published' = Append(published, item)
  BY DEF Publish
<1>2. /\ IsSeq(published') /\ Len(published) \in Nat
      /\ Len(published') = Len(published) + 1
      /\ SubSeq(published', 1, Len(published)) = published
  BY <1>1, AppendIsSeq DEF FeedInv
<1>3. UNCHANGED <<conn, received, connects>> /\ At' = At /\ Gap' = Gap
  BY DEF Publish, At, Gap
<1>4. F!Publish
  BY <1>2, <1>3 DEF F!Publish, Publish
<1>5. CASE conn = "live"
  <2>1. wire' = Append(wire, message) /\ message \in Messages
    BY <1>2, <1>5 DEF Publish, Send, Messages
  <2>2. /\ message.type = "data" /\ message.item = Len(published) + 1
        /\ Continues(message) /\ Base(message) = Len(published)
    BY <1>2 DEF Continues, Base
  <2> HIDE DEF message
  <2>3. wire # <<>> => Continues(wire[Len(wire)]) /\ Joins(message, wire[Len(wire)].item)
    BY <1>5, <2>2 DEF FeedInv, Joins
  <2>4. /\ Contiguous(wire')
        /\ Len(wire) \in Nat /\ Len(wire') = Len(wire) + 1
        /\ \A n \in 1..Len(wire) : wire'[n] = wire[n]
        /\ wire'[Len(wire')] = message
        /\ IF wire = <<>> THEN wire'[1] = message ELSE wire'[1] = wire[1] /\ Len(wire) > 0
        /\ wire' # <<>>
    BY <2>1, <2>3, ExtendsContiguous DEF FeedInv
  <2>5. \A n \in 1..Len(wire') : wire'[n].item <= Len(published')
    <3>1. ASSUME NEW n \in 1..Len(wire') PROVE wire'[n].item <= Len(published')
      <4>1. CASE n = Len(wire')
        BY <1>2, <2>2, <2>4, <4>1
      <4>2. CASE n # Len(wire')
        <5>1. n \in 1..Len(wire)
          BY <2>4, <4>2
        <5>2. wire[n].item \in Nat /\ wire[n].item <= Len(published)
          BY <5>1, InvFacts
        <5>. QED BY <1>2, <2>4, <5>1, <5>2
      <4>. QED BY <4>1, <4>2
    <3>. QED BY <3>1
  <2>6. IF Gap THEN Continues(wire'[1]) => Base(wire'[1]) >= At ELSE Joins(wire'[1], At)
    BY <1>5, <2>2, <2>4 DEF FeedInv, Joins
  <2>7. At \in 0..Len(published')
    BY <1>2, InvFacts
  <2>8. Continues(wire'[Len(wire')]) /\ wire'[Len(wire')].item = Len(published')
    BY <1>2, <2>2, <2>4
  <2>. QED BY <1>2, <1>3, <1>4, <2>4, <2>5, <2>6, <2>7, <2>8 DEF FeedInv
<1>6. CASE conn # "live"
  <2>1. wire' = wire
    BY <1>6 DEF Publish
  <2>2. \A n \in 1..Len(wire) : wire[n].item <= Len(published')
    BY <1>2, InvFacts
  <2>3. At \in 0..Len(published')
    BY <1>2, InvFacts
  <2>. QED BY <1>2, <1>3, <1>4, <1>6, <2>1, <2>2, <2>3 DEF FeedInv
<1>. QED BY <1>5, <1>6

LEMMA Stutters ==
  ASSUME UNCHANGED <<published, received, connects>>
  PROVE  At' = At /\ Gap' = Gap /\ UNCHANGED F!feedVars
<1>1. At' = At /\ Gap' = Gap
  BY DEF At, Gap
<1>2. UNCHANGED F!feedVars
  BY DEF F!feedVars
<1>. QED BY <1>1, <1>2

\* A message that tells of no payload.
LEMMA ControlStep ==
  ASSUME FeedInv, UNCHANGED <<published, received, connects>>, NEW w, Contiguous(w),
         NEW message \in Messages, message.type # "data", message.item = Len(published),
         wire' = Append(w, message),
         \A n \in 1..Len(w) : w[n].item <= Len(published),
         w # <<>> =>
           /\ wire # <<>> /\ w[1] = wire[1]
           /\ Continues(w[Len(w)]) /\ Joins(message, w[Len(w)].item),
         w = <<>> /\ Continues(message) => wire = <<>> /\ conn = "live",
         conn' = "live" => Continues(message)
  PROVE  FeedInv'
<1>1. /\ Contiguous(wire')
      /\ Len(w) \in Nat /\ Len(wire') = Len(w) + 1
      /\ \A n \in 1..Len(w) : wire'[n] = w[n]
      /\ wire'[Len(wire')] = message
      /\ IF w = <<>> THEN wire'[1] = message ELSE wire'[1] = w[1] /\ Len(w) > 0
      /\ wire' # <<>>
  BY ExtendsContiguous
<1>2. At' = At /\ Gap' = Gap
  BY Stutters
<1>3. ASSUME NEW n \in 1..Len(wire') PROVE wire'[n].item <= Len(published)
  <2>1. CASE n = Len(wire')
    BY <1>1, <2>1, InvFacts
  <2>2. CASE n # Len(wire')
    <3>1. n \in 1..Len(w)
      BY <1>1, <2>2
    <3>. QED BY <1>1, <3>1
  <2>. QED BY <2>1, <2>2
<1>4. IF Gap THEN Continues(wire'[1]) => Base(wire'[1]) >= At ELSE Joins(wire'[1], At)
  <2>1. CASE w # <<>>
    BY <1>1, <2>1 DEF FeedInv
  <2>2. CASE w = <<>>
    <3>1. Continues(message) => Gap \/ At = Len(published)
      BY <2>2 DEF FeedInv
    <3>2. Base(message) = Len(published)
      BY DEF Base
    <3>3. Base(message) >= At
      BY <3>2, InvFacts
    <3>. QED BY <1>1, <2>2, <3>1, <3>2, <3>3 DEF Joins
  <2>. QED BY <2>1, <2>2
<1>5. conn' = "live" => Continues(wire'[Len(wire')]) /\ wire'[Len(wire')].item = Len(published)
  BY <1>1
<1>. QED BY <1>1, <1>2, <1>3, <1>4, <1>5 DEF FeedInv

LEMMA PingStep ==
  ASSUME FeedInv, Ping
  PROVE  FeedInv' /\ UNCHANGED F!feedVars
<1> DEFINE message == [type |-> "ping", item |-> Len(published')]
<1>1. UNCHANGED <<published, received, connects, conn>> /\ conn = "live"
  BY DEF Ping
<1>2. wire' = Append(wire, message)
  BY DEF Ping, Send
<1>3. message \in Messages /\ message.type = "ping" /\ message.item = Len(published)
  BY <1>1, InvFacts DEF Messages
<1> HIDE DEF message
<1>4. Continues(message) /\ Base(message) = Len(published)
  BY <1>3 DEF Continues, Base
<1>5. wire # <<>> => Continues(wire[Len(wire)]) /\ Joins(message, wire[Len(wire)].item)
  BY <1>1, <1>4 DEF FeedInv, Joins
<1>6. Contiguous(wire) /\ \A n \in 1..Len(wire) : wire[n].item <= Len(published)
  BY DEF FeedInv
<1>. QED BY <1>1, <1>2, <1>3, <1>4, <1>5, <1>6, ControlStep, Stutters

LEMMA CloseStep ==
  ASSUME FeedInv, Close
  PROVE  FeedInv' /\ UNCHANGED F!feedVars
<1> DEFINE message == [type |-> "close", item |-> Len(published')]
<1>1. UNCHANGED <<published, received, connects>> /\ conn = "live" /\ conn' = "over"
  BY DEF Close
<1>2. wire' = Append(wire, message)
  BY DEF Close, Send
<1>3. message \in Messages /\ message.type = "close" /\ message.item = Len(published)
  BY <1>1, InvFacts DEF Messages
<1> HIDE DEF message
<1>4. ~Continues(message)
  BY <1>3 DEF Continues
<1>5. wire # <<>> => Continues(wire[Len(wire)]) /\ Joins(message, wire[Len(wire)].item)
  BY <1>1, <1>4 DEF FeedInv, Joins
<1>6. Contiguous(wire) /\ \A n \in 1..Len(wire) : wire[n].item <= Len(published)
  BY DEF FeedInv
<1>. QED BY <1>1, <1>2, <1>3, <1>4, <1>5, <1>6, ControlStep, Stutters

LEMMA BreakStep ==
  ASSUME FeedInv, Break
  PROVE  FeedInv' /\ UNCHANGED F!feedVars
<1> DEFINE message == [type |-> "error", item |-> Len(published)]
<1>1. UNCHANGED <<published, received, connects>> /\ conn = "live" /\ conn' = "over"
  BY DEF Break
<1>2. PICK m \in 0..Len(wire) : wire' = Append(SubSeq(wire, 1, m), message)
  BY DEF Break
<1> DEFINE w == SubSeq(wire, 1, m)
<1>3. message \in Messages /\ message.type = "error" /\ message.item = Len(published)
  BY InvFacts DEF Messages
<1>4. Contiguous(wire)
  BY DEF FeedInv
<1>5. /\ Contiguous(w) /\ Len(w) = m
      /\ \A n \in 1..m : w[n] = wire[n]
  BY <1>4, CutContiguous
<1> HIDE DEF message, w
<1>6. ~Continues(message)
  BY <1>3 DEF Continues
<1>7. w # <<>> => m \in 1..Len(wire) /\ wire # <<>>
  <2>1. w \in Seq(Messages) /\ (wire = <<>> => Len(wire) = 0)
    BY <1>5 DEF Contiguous
  <2>2. w # <<>> => Len(w) > 0
    BY <2>1, EmptySeq
  <2>. QED BY <1>5, <2>1, <2>2, InvFacts
<1>8. ASSUME w # <<>> PROVE Continues(w[Len(w)])
  <2>1. CASE m = Len(wire)
    BY <1>1, <1>5, <1>7, <1>8, <2>1 DEF FeedInv
  <2>2. CASE m # Len(wire)
    <3>1. m \in 1..(Len(wire) - 1)
      BY <1>7, <1>8, <2>2, InvFacts
    <3>. QED BY <1>4, <1>5, <1>7, <1>8, <3>1 DEF Contiguous
  <2>. QED BY <2>1, <2>2
<1>9. \A n \in 1..Len(w) : w[n].item <= Len(published)
  <2>1. \A n \in 1..Len(w) : n \in 1..Len(wire)
    BY <1>5, InvFacts
  <2>. QED BY <1>5, <2>1, InvFacts
<1>10. w # <<>> => w[1] = wire[1] /\ Joins(message, w[Len(w)].item)
  <2>1. w # <<>> => 1 \in 1..m
    BY <1>7
  <2>. QED BY <1>5, <1>6, <2>1 DEF Joins
<1>11. wire' = Append(w, message)
  BY <1>2 DEF w, message
<1>. QED BY <1>1, <1>3, <1>5, <1>6, <1>7, <1>8, <1>9, <1>10, <1>11, ControlStep, Stutters

\* A connection made, the last one over: the next item may be any later one.
LEMMA ConnectStep ==
  ASSUME FeedInv, Connect
  PROVE  FeedInv' /\ F!Disconnect
<1>1. UNCHANGED <<published, received>> /\ connects' = connects + 1 /\ wire' = <<>>
  BY DEF Connect
<1>2. received # <<>> => received[Len(received)].conn \in 0..connects /\ connects \in Nat
  BY DEF FeedInv
<1>3. received # <<>> => /\ received[Len(received)].conn # connects'
                         /\ received[Len(received)].conn \in 0..connects'
  BY <1>1, <1>2
<1>4. At' = At /\ Gap'
  BY <1>1, <1>3 DEF At, Gap
<1>5. connects' \in Nat
  BY <1>1 DEF FeedInv
<1>6. Contiguous(<<>>) /\ Len(<<>>) = 0
  BY EmptySeq DEF Contiguous
<1>7. FeedInv'
  BY <1>1, <1>3, <1>4, <1>5, <1>6 DEF FeedInv
<1>8. (received = <<>> \/ Last(received).conn # connects)'
  BY <1>1, <1>3 DEF Last
<1>9. F!Disconnect
  BY <1>1, <1>8 DEF F!Disconnect
<1>. QED BY <1>7, <1>9

\* One more answer is one more thing learned.
LEMMA LearnsOneMore ==
  ASSUME IsSeq(received), NEW answer, received' = Append(received, answer)
  PROVE  /\ IsSeq(received') /\ Len(received') = Len(received) + 1
         /\ received' # <<>> /\ received'[Len(received')] = answer
         /\ [n \in 1..Len(received') |-> Learned(received'[n].event)] =
            Append([n \in 1..Len(received) |-> Learned(received[n].event)],
                   Learned(answer.event))
<1> DEFINE old == [n \in 1..Len(received) |-> Learned(received[n].event)]
           new == [n \in 1..Len(received') |-> Learned(received'[n].event)]
           last == Learned(answer.event)
           S == {old[n] : n \in 1..Len(received)} \cup {last}
<1>1. /\ IsSeq(received') /\ Len(received) \in Nat /\ Len(received') = Len(received) + 1
      /\ received' # <<>> /\ received'[Len(received')] = answer
      /\ \A n \in 1..Len(received) : received'[n] = received[n]
  BY AppendIsSeq
<1>2. DOMAIN old = 1..Len(received) /\ \A n \in 1..Len(received) : old[n] \in S
  OBVIOUS
<1>3. \A n \in 1..Len(received') :
        new[n] = IF n = Len(received') THEN last ELSE old[n]
  BY <1>1
<1>4. DOMAIN new = 1..Len(received')
  OBVIOUS
<1>5. old = [n \in 1..Len(received) |-> old[n]] /\ new = [n \in 1..Len(received') |-> new[n]]
  OBVIOUS
<1>6. last \in S
  OBVIOUS
<1> HIDE DEF old, new, last, S
<1>7. old \in Seq(S) /\ Len(old) = Len(received)
  <2>1. old \in [1..Len(received) -> S]
    BY <1>2, <1>5
  <2>2. old \in Seq(S)
    BY <1>1, <2>1, SeqDef
  <2>. QED BY <1>1, <1>2, <2>2, LenProperties
<1>8. new \in Seq(S) /\ Len(new) = Len(received')
  <2>1. \A n \in 1..Len(received') : new[n] \in S
    BY <1>1, <1>2, <1>3, <1>6
  <2>2. new \in [1..Len(received') -> S]
    BY <1>5, <2>1
  <2>3. new \in Seq(S)
    BY <1>1, <2>2, SeqDef
  <2>. QED BY <1>1, <1>4, <2>3, LenProperties
<1>9. new = Append(old, last)
  <2>1. /\ Append(old, last) \in Seq(S) /\ Len(Append(old, last)) = Len(received) + 1
        /\ \A n \in 1..Len(received) : Append(old, last)[n] = old[n]
        /\ Append(old, last)[Len(received) + 1] = last
    BY <1>6, <1>7, AppendProperties
  <2>2. \A n \in 1..Len(new) : new[n] = Append(old, last)[n]
    BY <1>1, <1>3, <1>8, <2>1
  <2>. QED BY <1>1, <1>8, <2>1, <2>2, SeqEqual
<1>. QED BY <1>1, <1>9 DEF old, new, last

\* next_event takes every payload for what it is, an error for nothing.
LEMMA ParsesMeaning ==
  ASSUME NEW payload
  PROVE  Learned(ParseEvent(payload)) = F!Meaning(payload)
<1>1. CASE payload.e = "kline"
  <2>1. ParseEvent(payload) =
          Some([type |-> IF payload.x THEN "bar_closed" ELSE "kline",
                kline |-> IntoKline(payload)])
    BY <1>1 DEF ParseEvent
  <2>2. IntoKline(payload).symbol = payload.s /\ IntoKline(payload).close = payload.c
    BY DEF IntoKline
  <2>3. F!Meaning(payload) =
          Some([symbol |-> payload.s, price |-> payload.c,
                what |-> IF payload.x THEN "closed bar" ELSE "open bar"])
    BY <1>1 DEF F!Meaning, F!Some, Some
  <2> DEFINE k == IntoKline(payload)
             e == [type |-> IF payload.x THEN "bar_closed" ELSE "kline", kline |-> k]
  <2>4. e.kline = k /\ e.type = IF payload.x THEN "bar_closed" ELSE "kline"
    OBVIOUS
  <2>5. ParseEvent(payload) = <<e>>
    BY <2>1 DEF Some
  <2> HIDE DEF e, k
  <2>6. Learned(<<e>>) =
          Some([symbol |-> k.symbol, price |-> k.close,
                what |-> IF e.type = "kline" THEN "open bar" ELSE "closed bar"])
    BY <2>4 DEF Learned, None
  <2>7. k.symbol = payload.s /\ k.close = payload.c
    BY <2>2 DEF k
  <2>8. (IF e.type = "kline" THEN "open bar" ELSE "closed bar") =
          IF payload.x THEN "closed bar" ELSE "open bar"
    BY <2>4
  <2>. QED BY <2>3, <2>5, <2>6, <2>7, <2>8
<1>2. CASE payload.e = "bookTicker"
  BY <1>2 DEF ParseEvent, IntoBookTicker, F!Meaning, Learned, Some, None, F!Some
<1>3. CASE payload.e = "aggTrade"
  BY <1>3 DEF ParseEvent, IntoTick, F!Meaning, Learned, Some, None, F!Some
<1>4. CASE payload.e \notin {"kline", "bookTicker", "aggTrade"}
  BY <1>4 DEF ParseEvent, F!Meaning, Learned, None, F!None
<1>. QED BY <1>1, <1>2, <1>3, <1>4
-----------------------------------------------------------------------------
\* The payload to be read is the next one, or a later one after a gap.
LEMMA NextItem ==
  ASSUME FeedInv, wire # <<>>, wire[1].type = "data"
  PROVE  /\ wire[1].item \in 1..Len(published)
         /\ wire[1].item > At
         /\ ~Gap => wire[1].item = At + 1
<1> DEFINE item == wire[1].item
<1>1. wire[1] \in Messages /\ Len(wire) \in Nat \ {0}
  BY RestContiguous DEF FeedInv
<1>2. item \in Nat /\ item <= Len(published)
  BY <1>1, InvFacts
<1>3. Continues(wire[1]) /\ Base(wire[1]) = item - 1
  BY DEF Continues, Base
<1>4. IF Gap THEN item - 1 >= At ELSE item - 1 = At
  BY <1>3 DEF FeedInv, Joins
<1> HIDE DEF item
<1>5. item > At /\ (~Gap => item = At + 1)
  BY <1>2, <1>4, InvFacts
<1>6. item \in 1..Len(published)
  BY <1>2, <1>5, InvFacts
<1>. QED BY <1>5, <1>6 DEF item

\* A payload is read.
LEMMA DataStep ==
  ASSUME FeedInv, Read, wire # <<>>, wire' = Tail(wire), ReadData
  PROVE  FeedInv' /\ F!Learn
<1> DEFINE head == wire[1]
           item == head.item
           answer == [conn |-> connects, item |-> item, event |-> ParseEvent(published[item])]
<1>1. /\ UNCHANGED <<published, conn, connects>>
      /\ head.type = "data"
      /\ received' = Append(received, answer)
  <2>1. Head(wire) = wire[1]
    BY RestContiguous DEF FeedInv
  <2>. QED BY <2>1 DEF Read, ReadData
<1>2. /\ head \in Messages
      /\ Contiguous(wire') /\ Len(wire) \in Nat \ {0} /\ Len(wire') = Len(wire) - 1
      /\ \A n \in 1..Len(wire') : wire'[n] = wire[n + 1]
      /\ wire' # <<>> => Len(wire') > 0 /\ Joins(wire'[1], item)
      /\ wire' = <<>> => Len(wire) = 1
  BY RestContiguous DEF FeedInv
<1>3. answer.conn = connects /\ answer.item = item
  OBVIOUS
<1>4. Learned(answer.event) = F!Meaning(published[item])
  BY ParsesMeaning
<1>5. item \in Nat /\ item <= Len(published)
  BY <1>2, InvFacts
<1>6. item \in 1..Len(published)
  BY <1>1, NextItem
<1>7. IF Gap THEN item > At ELSE item = At + 1
  BY <1>1, NextItem
<1> HIDE DEF head, answer
<1>8. /\ IsSeq(received') /\ received' # <<>>
      /\ received'[Len(received')] = answer
      /\ [n \in 1..Len(received') |-> Learned(received'[n].event)] =
         Append([n \in 1..Len(received) |-> Learned(received[n].event)],
                F!Meaning(published[item]))
  BY <1>1, <1>4, LearnsOneMore DEF FeedInv
<1>9. At' = item /\ ~Gap'
  BY <1>1, <1>3, <1>8 DEF At, Gap
<1>11. F!Learn
  <2> DEFINE at == IF received = <<>> THEN 0 ELSE Last(received).item
             gap == received = <<>> \/ Last(received).conn # connects
  <2>1. at = At /\ (gap <=> Gap)
    BY DEF At, Gap, Last
  <2>2. at' = item /\ gap' = FALSE
    BY <1>1, <1>3, <1>8 DEF Last
  <2>3. IF gap THEN item > at ELSE item = at + 1
    BY <1>7, <2>1
  <2> HIDE DEF item
  <2>. QED BY <1>1, <1>6, <1>8, <2>2, <2>3 DEF F!Learn
<1>12. ASSUME NEW n \in 1..Len(wire') PROVE wire'[n].item <= Len(published)
  <2>1. n + 1 \in 1..Len(wire) /\ wire'[n] = wire[n + 1]
    BY <1>2
  <2>. QED BY <2>1, InvFacts
<1>13. conn = "live" =>
         IF wire' = <<>> THEN item = Len(published)
         ELSE Continues(wire'[Len(wire')]) /\ wire'[Len(wire')].item = Len(published)
  <2>1. wire' = <<>> => wire[Len(wire)] = head
    BY <1>2 DEF head
  <2>2. wire' # <<>> => wire'[Len(wire')] = wire[Len(wire)]
    BY <1>2
  <2>3. conn = "live" => Continues(wire[Len(wire)]) /\ wire[Len(wire)].item = Len(published)
    BY DEF FeedInv
  <2>. QED BY <2>1, <2>2, <2>3
<1>14. connects' \in Nat /\ received'[Len(received')].conn \in 0..connects'
  <2>1. connects \in Nat
    BY DEF FeedInv
  <2>. QED BY <1>1, <1>3, <1>8, <2>1
<1>15. At' \in 0..Len(published')
  BY <1>1, <1>5, <1>9, InvFacts
<1>16. IsSeq(published')
  BY <1>1 DEF FeedInv
<1>17. FeedInv'
  BY <1>1, <1>2, <1>8, <1>9, <1>12, <1>13, <1>14, <1>15, <1>16 DEF FeedInv
<1>. QED BY <1>11, <1>17

\* A ping says nothing and leaves nothing out.
LEMMA SkipStep ==
  ASSUME FeedInv, Read, wire # <<>>, wire' = Tail(wire), ~ReadData
  PROVE  FeedInv' /\ UNCHANGED F!feedVars
<1> DEFINE head == wire[1]
<1>1. UNCHANGED <<published, conn, connects, received>> /\ head.type # "data"
  <2>1. Head(wire) = wire[1]
    BY RestContiguous DEF FeedInv
  <2>. QED BY <2>1 DEF Read, ReadData, ReadPing, ReadClose, ReadError
<1>2. /\ Contiguous(wire') /\ Len(wire) \in Nat \ {0} /\ Len(wire') = Len(wire) - 1
      /\ \A n \in 1..Len(wire') : wire'[n] = wire[n + 1]
      /\ wire' # <<>> => Len(wire') > 0 /\ Continues(head) /\ Joins(wire'[1], head.item)
      /\ wire' = <<>> => Len(wire) = 1
  BY RestContiguous DEF FeedInv
<1>3. At' = At /\ Gap' = Gap /\ UNCHANGED F!feedVars
  BY <1>1, Stutters
<1>4. Base(head) = head.item /\ head.item \in Nat
  BY <1>1, <1>2, InvFacts DEF Base
<1> HIDE DEF head
<1>5. Continues(head) => IF Gap THEN head.item >= At ELSE head.item = At
  BY <1>4 DEF FeedInv, Joins, head
<1>6. ASSUME NEW n \in 1..Len(wire') PROVE wire'[n].item <= Len(published)
  <2>1. n + 1 \in 1..Len(wire) /\ wire'[n] = wire[n + 1]
    BY <1>2
  <2>. QED BY <2>1, InvFacts
<1>7. ASSUME wire' # <<>>
      PROVE  IF Gap THEN Continues(wire'[1]) => Base(wire'[1]) >= At ELSE Joins(wire'[1], At)
  <2>1. Continues(wire'[1]) => Base(wire'[1]) = head.item
    BY <1>2, <1>7 DEF Joins
  <2>2. IF Gap THEN head.item >= At ELSE head.item = At
    BY <1>2, <1>5, <1>7
  <2>. QED BY <2>1, <2>2 DEF Joins
<1>8. conn = "live" =>
        IF wire' = <<>> THEN Gap \/ At = Len(published)
        ELSE Continues(wire'[Len(wire')]) /\ wire'[Len(wire')].item = Len(published)
  <2>1. wire' = <<>> => wire[Len(wire)] = head
    BY <1>2 DEF head
  <2>2. wire' # <<>> => wire'[Len(wire')] = wire[Len(wire)]
    BY <1>2
  <2>3. conn = "live" => Continues(wire[Len(wire)]) /\ wire[Len(wire)].item = Len(published)
    BY DEF FeedInv
  <2>. QED BY <1>5, <2>1, <2>2, <2>3
<1>9. FeedInv'
  BY <1>1, <1>2, <1>3, <1>6, <1>7, <1>8 DEF FeedInv
<1>. QED BY <1>3, <1>9

\* Every other step leaves the payloads, the answers and what is under way.
LEMMA IdleStep ==
  ASSUME FeedInv, UNCHANGED <<published, conn, wire, connects, received>>
  PROVE  FeedInv' /\ UNCHANGED F!feedVars
<1>1. At' = At /\ Gap' = Gap /\ UNCHANGED F!feedVars
  BY Stutters
<1>. QED BY <1>1 DEF FeedInv

LEMMA FeedStep == FeedInv /\ [Next]_vars => FeedInv' /\ [F!FeedNext]_(F!feedVars)
<1> SUFFICES ASSUME FeedInv, [Next]_vars
             PROVE  FeedInv' /\ [F!FeedNext]_(F!feedVars)
  OBVIOUS
<1> USE DEF F!FeedNext
<1>1. CASE NextEvent
  BY <1>1, IdleStep DEF NextEvent
<1>2. CASE Read
  <2>1. CASE wire # <<>> /\ wire' = Tail(wire)
    BY <1>2, <2>1, DataStep, SkipStep
  <2>2. CASE UNCHANGED <<wire, received>>
    BY <1>2, <2>2, IdleStep DEF Read
  <2>. QED BY <1>2, <2>1, <2>2 DEF Read
<1>3. CASE DropCall
  BY <1>3, IdleStep DEF DropCall
<1>4. CASE Connect
  BY <1>4, ConnectStep
<1>5. CASE Publish
  BY <1>5, PublishStep
<1>6. CASE Ping
  BY <1>6, PingStep
<1>7. CASE Close
  BY <1>7, CloseStep
<1>8. CASE Break
  BY <1>8, BreakStep
<1>9. CASE \E stream \in Streams : stream.e = "kline" /\ Klines(stream.s)
  BY <1>9, IdleStep DEF Klines, reader
<1>10. CASE UNCHANGED vars
  BY <1>10, IdleStep DEF vars, reader
<1>. QED BY <1>1, <1>2, <1>3, <1>4, <1>5, <1>6, <1>7, <1>8, <1>9, <1>10 DEF Next

\* However often calls are dropped and connections break, a caller of
\* next_event learns what was published in order, each payload once and for
\* what it is, and misses none while a connection lasts.
THEOREM FeedCorrectness == Spec => ImplementsFeed
<1>. QED BY InitHolds, FeedStep, PTL DEF Spec, ImplementsFeed, F!Spec
-----------------------------------------------------------------------------
\* What the exchange publishes.  The places of the payloads of a list that
\* close a bar, and the open time of the bar of a symbol that is open after it.
FinalsOf(list, symbol) == {n \in 1..Len(list) : IsKlineOf(list[n], symbol) /\ list[n].x}

OpenOf(list, symbol) == Cardinality(FinalsOf(list, symbol)) * BarMs

TimeOf(p) == IF p.e = "bookTicker" THEN UnwrapOr(p.E, UnwrapOr(p.T, 0)) ELSE p.T

Told == {"kline", "aggTrade", "bookTicker"}

\* A kline is of a bar that has closed, by a final kline not before it, or of
\* the open one.
KlineFits(list, n) ==
  LET p == list[n] IN
  p.e = "kline" =>
    /\ p.x \in BOOLEAN /\ p.t \in Nat /\ p.T = p.t + BarMs - 1
    /\ p.t <= OpenOf(list, p.s)
    /\ p.x => p.t < OpenOf(list, p.s)
    /\ p.t < OpenOf(list, p.s) =>
         \E f \in FinalsOf(list, p.s) : f >= n /\ list[f].t = p.t

\* The bars of a symbol come in order; after its final kline a bar has no other.
KlinesFollow(list, m, n) ==
  /\ m < n /\ list[m].e = "kline" /\ list[n].e = "kline" /\ list[m].s = list[n].s
  => /\ list[m].t <= list[n].t
     /\ list[m].x => list[m].t < list[n].t

KlinesInOrder(list) ==
  /\ \A n \in 1..Len(list) : KlineFits(list, n)
  /\ \A m, n \in 1..Len(list) : KlinesFollow(list, m, n)

\* A quote has the times its symbol's quotes have.
TimesFit(p) ==
  /\ p.e = "aggTrade" => p.T \in Nat
  /\ p.e = "bookTicker" =>
       /\ IsSome(p.E) <=> "E" \in QuoteTimes[p.s]
       /\ IsSome(p.T) <=> "T" \in QuoteTimes[p.s]
       /\ UnwrapOr(p.E, 0) \in Nat /\ UnwrapOr(p.T, 0) \in Nat

\* Two trades or two quotes of a symbol, the second published later.
TimesFollow(q, p) ==
  q.e = p.e /\ q.s = p.s =>
    /\ p.e = "aggTrade" => q.T <= p.T
    /\ p.e = "bookTicker" =>
         UnwrapOr(q.E, 0) <= UnwrapOr(p.E, 0) /\ UnwrapOr(q.T, 0) <= UnwrapOr(p.T, 0)

\* A stream's own times do not fall; those of two streams may.
TimesInOrder(list) ==
  /\ \A n \in 1..Len(list) : TimesFit(list[n])
  /\ \A m, n \in 1..Len(list) : m < n => TimesFollow(list[m], list[n])

\* A payload published while the open bar of its symbol opened at that time.
FitsOpen(p, open) ==
  \/ p.e \in {"other", "aggTrade", "bookTicker"}
  \/ p.e = "kline" /\ p.t = open /\ p.T = open + BarMs - 1 /\ p.x \in BOOLEAN

\* And one published after those of a list.
FitsNext(list, p) ==
  /\ FitsOpen(p, OpenOf(list, p.s))
  /\ TimesFit(p)
  /\ \A n \in 1..Len(list) : TimesFollow(list[n], p)

LEMMA FinalsAre ==
  ASSUME NEW symbol
  PROVE  Finals(symbol) = FinalsOf(published, symbol)
BY DEF Finals, FinalsOf

LEMMA FinalsFinite ==
  ASSUME NEW list, IsSeq(list), NEW symbol
  PROVE  /\ IsFiniteSet(FinalsOf(list, symbol))
         /\ OpenOf(list, symbol) \in Nat
<1>1. Len(list) \in Nat
  BY LenProperties DEF IsSeq
<1>2. IsFiniteSet(1..Len(list)) /\ FinalsOf(list, symbol) \in SUBSET (1..Len(list))
  BY <1>1, FS_Interval DEF FinalsOf
<1>3. IsFiniteSet(FinalsOf(list, symbol))
  BY <1>2, FS_Subset
<1>. QED BY <1>3, FS_CardinalityType DEF OpenOf, BarMs

LEMMA FinalsGrow ==
  ASSUME NEW list, IsSeq(list), NEW item, NEW symbol
  PROVE  /\ FinalsOf(Append(list, item), symbol) =
              IF IsKlineOf(item, symbol) /\ item.x
              THEN FinalsOf(list, symbol) \cup {Len(list) + 1} ELSE FinalsOf(list, symbol)
         /\ OpenOf(Append(list, item), symbol) =
              IF IsKlineOf(item, symbol) /\ item.x
              THEN OpenOf(list, symbol) + BarMs ELSE OpenOf(list, symbol)
<1> DEFINE t == Append(list, item)
           closes == IsKlineOf(item, symbol) /\ item.x
           len == Len(list)
<1>1. /\ len \in Nat /\ Len(t) = len + 1
      /\ \A n \in 1..len : t[n] = list[n]
      /\ t[len + 1] = item
  BY AppendIsSeq
<1> HIDE DEF t
<1>2. FinalsOf(t, symbol) = IF closes THEN FinalsOf(list, symbol) \cup {len + 1}
                            ELSE FinalsOf(list, symbol)
  <2>1. ASSUME NEW n
        PROVE  n \in FinalsOf(t, symbol)
                 <=> n \in FinalsOf(list, symbol) \/ (closes /\ n = len + 1)
    <3>1. n \in 1..(len + 1) <=> n \in 1..len \/ n = len + 1
      BY <1>1
    <3>2. CASE n = len + 1
      <4>1. n \notin 1..len
        BY <1>1, <3>2
      <4>2. t[n] = item /\ n \in 1..Len(t)
        BY <1>1, <3>1, <3>2
      <4>3. n \in FinalsOf(t, symbol) <=> closes
        BY <4>2 DEF FinalsOf
      <4>. QED BY <3>2, <4>1, <4>3 DEF FinalsOf
    <3>3. CASE n # len + 1
      <4>1. n \in 1..len => t[n] = list[n]
        BY <1>1
      <4>. QED BY <1>1, <3>1, <3>3, <4>1 DEF FinalsOf
    <3>. QED BY <3>2, <3>3
  <2> HIDE DEF closes, len
  <2>. QED BY <2>1
<1>3. len + 1 \notin FinalsOf(list, symbol)
  <2>1. len + 1 \notin 1..len
    BY <1>1
  <2>. QED BY <2>1 DEF FinalsOf
<1> HIDE DEF closes, len
<1>4. CASE closes
  <2>1. Cardinality(FinalsOf(t, symbol)) = Cardinality(FinalsOf(list, symbol)) + 1
    BY <1>2, <1>3, <1>4, FinalsFinite, FS_AddElement
  <2>2. Cardinality(FinalsOf(list, symbol)) \in Nat
    BY FinalsFinite, FS_CardinalityType
  <2>3. OpenOf(t, symbol) = OpenOf(list, symbol) + BarMs
    BY <2>1, <2>2 DEF OpenOf, BarMs
  <2>. QED BY <1>2, <1>4, <2>3 DEF closes, t, len
<1>5. CASE ~closes
  <2>1. OpenOf(t, symbol) = OpenOf(list, symbol)
    BY <1>2, <1>5 DEF OpenOf
  <2>. QED BY <1>2, <1>5, <2>1 DEF closes, t, len
<1>. QED BY <1>4, <1>5

LEMMA PayloadsFit ==
  ASSUME IsSeq(published), TimesInOrder(published),
         NEW stream \in Streams, NEW p \in Payloads(stream)
  PROVE  FitsNext(published, p)
<1> DEFINE open == OpenOf(published, stream.s)
<1>1. Opens(stream.s) = open
  BY FinalsAre DEF Opens, OpenOf
<1>2. Moments(stream.s) \subseteq Nat
  <2>1. open \in Nat
    BY FinalsFinite
  <2>. QED BY <1>1, <2>1, BoundsAssumption DEF Moments, BarMs
<1> HIDE DEF open
<1>3. CASE stream.e = "kline"
  <2>1. PICK x \in BOOLEAN :
          p = [e |-> "kline", s |-> stream.s, t |-> open, T |-> open + BarMs - 1,
               c |-> Len(published) + 1, x |-> x]
    BY <1>1, <1>3 DEF Payloads
  <2>2. p.e = "kline" /\ p.s = stream.s /\ p.t = open /\ p.T = open + BarMs - 1 /\ p.x = x
    BY <2>1
  <2>. QED BY <2>2 DEF FitsNext, FitsOpen, TimesFit, TimesFollow, open
<1>4. CASE stream.e = "aggTrade"
  <2>1. PICK T \in Moments(stream.s) :
          /\ p = [e |-> "aggTrade", s |-> stream.s, T |-> T, p |-> Len(published) + 1]
          /\ \A n \in Earlier(stream) : published[n].T <= T
    BY <1>4 DEF Payloads, Trades
  <2>2. p.e = "aggTrade" /\ p.s = stream.s /\ p.T = T /\ T \in Nat
    BY <1>2, <2>1
  <2>3. ASSUME NEW n \in 1..Len(published)
        PROVE  TimesFollow(published[n], p)
    BY <1>4, <2>1, <2>2 DEF TimesFollow, Earlier
  <2>. QED BY <2>2, <2>3 DEF FitsNext, FitsOpen, TimesFit
<1>5. CASE stream.e = "bookTicker"
  <2> DEFINE field(name, time) == IF name \in QuoteTimes[stream.s] THEN Some(time) ELSE None
  <2>1. PICK times \in Moments(stream.s) \X Moments(stream.s) :
          /\ p = [e |-> "bookTicker", s |-> stream.s, E |-> field("E", times[1]),
                  T |-> field("T", times[2]), b |-> Len(published) + 1]
          /\ \A n \in Earlier(stream) : /\ UnwrapOr(published[n].E, 0) <= times[1]
                                        /\ UnwrapOr(published[n].T, 0) <= times[2]
    BY <1>5 DEF Payloads, Quotes
  <2>2. /\ p.e = "bookTicker" /\ p.s = stream.s
        /\ p.E = field("E", times[1]) /\ p.T = field("T", times[2])
    BY <2>1
  <2>3. times[1] \in Nat /\ times[2] \in Nat
    BY <1>2, <2>1
  <2>4. /\ IsSome(p.E) <=> "E" \in QuoteTimes[stream.s]
        /\ IsSome(p.T) <=> "T" \in QuoteTimes[stream.s]
    BY <2>2 DEF IsSome, Some, None
  <2>5. /\ UnwrapOr(p.E, 0) = IF "E" \in QuoteTimes[stream.s] THEN times[1] ELSE 0
        /\ UnwrapOr(p.T, 0) = IF "T" \in QuoteTimes[stream.s] THEN times[2] ELSE 0
    BY <2>2, <2>4 DEF UnwrapOr, Some
  <2>6. TimesFit(p)
    BY <2>2, <2>3, <2>4, <2>5 DEF TimesFit
  <2>7. ASSUME NEW n \in 1..Len(published)
        PROVE  TimesFollow(published[n], p)
    <3> DEFINE q == published[n]
    <3> SUFFICES ASSUME q.e = "bookTicker", q.s = stream.s
                 PROVE  /\ UnwrapOr(q.E, 0) <= UnwrapOr(p.E, 0)
                        /\ UnwrapOr(q.T, 0) <= UnwrapOr(p.T, 0)
      BY <2>2 DEF TimesFollow
    <3>1. UnwrapOr(q.E, 0) <= times[1] /\ UnwrapOr(q.T, 0) <= times[2]
      BY <1>5, <2>1 DEF Earlier
    <3>2. /\ IsSome(q.E) <=> "E" \in QuoteTimes[stream.s]
          /\ IsSome(q.T) <=> "T" \in QuoteTimes[stream.s]
      BY DEF TimesInOrder, TimesFit
    <3>3. /\ "E" \notin QuoteTimes[stream.s] => UnwrapOr(q.E, 0) = 0
          /\ "T" \notin QuoteTimes[stream.s] => UnwrapOr(q.T, 0) = 0
      BY <3>2 DEF UnwrapOr
    <3>. QED BY <2>5, <3>1, <3>3
  <2>. QED BY <2>2, <2>6, <2>7 DEF FitsNext, FitsOpen
<1>. QED BY <1>3, <1>4, <1>5, StreamsAssumption

\* What a payload more changes for a list of payloads.
LEMMA ListGrows ==
  ASSUME NEW list, IsSeq(list), NEW item, FitsOpen(item, OpenOf(list, item.s))
  PROVE  LET t == Append(list, item)
         IN  /\ Len(list) \in Nat /\ Len(t) = Len(list) + 1
             /\ \A n \in 1..Len(list) : n \in 1..Len(t) /\ n < Len(t) /\ t[n] = list[n]
             /\ \A n \in 1..Len(t) : n = Len(t) \/ n \in 1..Len(list)
             /\ t[Len(t)] = item
             /\ \A s : /\ OpenOf(list, s) \in Nat /\ OpenOf(t, s) \in Nat
                       /\ OpenOf(list, s) <= OpenOf(t, s)
                       /\ OpenOf(t, s) <= OpenOf(list, s) + BarMs
                       /\ FinalsOf(list, s) \subseteq FinalsOf(t, s)
                       /\ OpenOf(t, s) # OpenOf(list, s) =>
                            /\ item.e = "kline" /\ item.s = s /\ item.x
                            /\ Len(t) \in FinalsOf(t, s)
<1> DEFINE t == Append(list, item)
<1>1. /\ Len(list) \in Nat /\ Len(t) = Len(list) + 1
      /\ \A n \in 1..Len(list) : t[n] = list[n]
      /\ t[Len(list) + 1] = item
  BY AppendIsSeq
<1>2. ASSUME NEW s
      PROVE  /\ OpenOf(list, s) \in Nat /\ OpenOf(t, s) \in Nat
             /\ OpenOf(list, s) <= OpenOf(t, s)
             /\ OpenOf(t, s) <= OpenOf(list, s) + BarMs
             /\ FinalsOf(list, s) \subseteq FinalsOf(t, s)
             /\ OpenOf(t, s) # OpenOf(list, s) =>
                  /\ item.e = "kline" /\ item.s = s /\ item.x
                  /\ Len(t) \in FinalsOf(t, s)
  <2> DEFINE closes == IsKlineOf(item, s) /\ item.x
  <2>1. OpenOf(list, s) \in Nat
    BY FinalsFinite
  <2>2. FinalsOf(t, s) = IF closes THEN FinalsOf(list, s) \cup {Len(list) + 1}
                                   ELSE FinalsOf(list, s)
    BY FinalsGrow
  <2>3. OpenOf(t, s) = IF closes THEN OpenOf(list, s) + BarMs ELSE OpenOf(list, s)
    BY FinalsGrow
  <2>4. closes => item.e = "kline" /\ item.s = s /\ item.x
    BY DEF IsKlineOf
  <2> HIDE DEF closes, t
  <2>5. CASE closes
    BY <1>1, <2>1, <2>2, <2>3, <2>4, <2>5 DEF BarMs
  <2>6. CASE ~closes
    BY <2>1, <2>2, <2>3, <2>6 DEF BarMs
  <2>. QED BY <2>5, <2>6
<1> HIDE DEF t
<1>3. /\ \A n \in 1..Len(list) : n \in 1..Len(t) /\ n < Len(t)
      /\ \A n \in 1..Len(t) : n = Len(t) \/ n \in 1..Len(list)
  BY <1>1
<1>. QED BY <1>1, <1>2, <1>3 DEF t

LEMMA KlinesStep ==
  ASSUME NEW list, IsSeq(list), KlinesInOrder(list), NEW item,
         FitsOpen(item, OpenOf(list, item.s))
  PROVE  KlinesInOrder(Append(list, item))
<1> DEFINE t == Append(list, item)
           len == Len(t)
<1>1. /\ Len(list) \in Nat /\ len = Len(list) + 1
      /\ \A n \in 1..Len(list) : n \in 1..len /\ n < len /\ t[n] = list[n]
      /\ \A n \in 1..len : n = len \/ n \in 1..Len(list)
      /\ t[len] = item
      /\ \A s : /\ OpenOf(list, s) \in Nat /\ OpenOf(t, s) \in Nat
                /\ OpenOf(list, s) <= OpenOf(t, s)
                /\ OpenOf(t, s) <= OpenOf(list, s) + BarMs
                /\ FinalsOf(list, s) \subseteq FinalsOf(t, s)
                /\ OpenOf(t, s) # OpenOf(list, s) =>
                     /\ item.e = "kline" /\ item.s = s /\ item.x
                     /\ len \in FinalsOf(t, s)
  BY ListGrows
<1>2. item.e = "kline" =>
        /\ item.x \in BOOLEAN /\ item.t = OpenOf(list, item.s)
        /\ item.T = item.t + BarMs - 1
  BY DEF FitsOpen
<1>3. item.e = "kline" =>
        OpenOf(t, item.s) = IF item.x THEN OpenOf(list, item.s) + BarMs
                            ELSE OpenOf(list, item.s)
  BY FinalsGrow DEF IsKlineOf
<1> HIDE DEF t, len
<1>4. ASSUME NEW n \in 1..len
      PROVE  KlineFits(t, n)
  <2>1. CASE n = len
    <3> SUFFICES ASSUME item.e = "kline"
                 PROVE  /\ item.x \in BOOLEAN /\ item.t \in Nat
                        /\ item.T = item.t + BarMs - 1
                        /\ item.t <= OpenOf(t, item.s)
                        /\ item.x => item.t < OpenOf(t, item.s)
                        /\ item.t < OpenOf(t, item.s) =>
                             \E f \in FinalsOf(t, item.s) : f >= n /\ t[f].t = item.t
      BY <1>1, <2>1 DEF KlineFits
    <3>1. OpenOf(list, item.s) \in Nat /\ OpenOf(t, item.s) \in Nat
      BY <1>1
    <3>2. /\ item.x \in BOOLEAN /\ item.t \in Nat /\ item.T = item.t + BarMs - 1
          /\ item.t <= OpenOf(t, item.s)
      BY <1>1, <1>2, <3>1
    <3>3. item.x => item.t < OpenOf(t, item.s)
      BY <1>2, <1>3, <3>1 DEF BarMs
    <3>4. item.t < OpenOf(t, item.s) => len \in FinalsOf(t, item.s)
      BY <1>1, <1>2, <3>1
    <3>5. len >= n /\ t[len].t = item.t
      BY <1>1, <2>1
    <3>. QED BY <3>2, <3>3, <3>4, <3>5
  <2>2. CASE n # len
    <3> DEFINE p == list[n]
               open == OpenOf(list, p.s)
               next == OpenOf(t, p.s)
    <3>1. n \in 1..Len(list) /\ t[n] = p /\ n < len
      BY <1>1, <2>2
    <3> SUFFICES ASSUME p.e = "kline"
                 PROVE  /\ p.x \in BOOLEAN /\ p.t \in Nat /\ p.T = p.t + BarMs - 1
                        /\ p.t <= next
                        /\ p.x => p.t < next
                        /\ p.t < next => \E f \in FinalsOf(t, p.s) : f >= n /\ t[f].t = p.t
      BY <3>1 DEF KlineFits
    <3>2. /\ p.x \in BOOLEAN /\ p.t \in Nat /\ p.T = p.t + BarMs - 1
          /\ p.t <= open
          /\ p.x => p.t < open
          /\ p.t < open => \E f \in FinalsOf(list, p.s) : f >= n /\ list[f].t = p.t
      BY <3>1 DEF KlinesInOrder, KlineFits
    <3>3. /\ open \in Nat /\ next \in Nat /\ open <= next
          /\ FinalsOf(list, p.s) \subseteq FinalsOf(t, p.s)
          /\ next # open => item.e = "kline" /\ item.s = p.s /\ len \in FinalsOf(t, p.s)
      BY <1>1
    <3>4. \A f \in FinalsOf(list, p.s) : t[f] = list[f]
      BY <1>1 DEF FinalsOf
    <3> HIDE DEF open, next
    <3>5. p.t <= next /\ (p.x => p.t < next)
      BY <3>2, <3>3
    <3>6. ASSUME p.t < next
          PROVE  \E f \in FinalsOf(t, p.s) : f >= n /\ t[f].t = p.t
      <4>1. CASE p.t < open
        BY <3>2, <3>3, <3>4, <4>1
      <4>2. CASE ~(p.t < open)
        <5>1. p.t = open /\ next # open
          BY <3>2, <3>3, <3>6, <4>2
        <5>2. item.t = open /\ len \in FinalsOf(t, p.s)
          BY <1>2, <3>3, <5>1 DEF open
        <5>3. len >= n /\ t[len].t = p.t
          BY <1>1, <3>1, <5>1, <5>2
        <5>. QED BY <5>2, <5>3
      <4>. QED BY <4>1, <4>2
    <3>. QED BY <3>2, <3>5, <3>6
  <2>. QED BY <2>1, <2>2
<1>5. ASSUME NEW m \in 1..len, NEW n \in 1..len
      PROVE  KlinesFollow(t, m, n)
  <2> SUFFICES ASSUME m < n, t[m].e = "kline", t[n].e = "kline", t[m].s = t[n].s
               PROVE  t[m].t <= t[n].t /\ (t[m].x => t[m].t < t[n].t)
    BY DEF KlinesFollow
  <2>1. m \in 1..Len(list) /\ t[m] = list[m]
    BY <1>1
  <2>2. CASE n = len
    <3>1. t[n].t = OpenOf(list, t[m].s)
      BY <1>1, <1>2, <2>2
    <3>2. KlineFits(list, m)
      BY <2>1 DEF KlinesInOrder
    <3>3. list[m].t <= OpenOf(list, list[m].s)
          /\ (list[m].x => list[m].t < OpenOf(list, list[m].s))
      BY <2>1, <3>2 DEF KlineFits
    <3>. QED BY <2>1, <3>1, <3>3
  <2>3. CASE n # len
    <3>1. n \in 1..Len(list) /\ t[n] = list[n]
      BY <1>1, <2>3
    <3>2. KlinesFollow(list, m, n)
      BY <2>1, <3>1 DEF KlinesInOrder
    <3>. QED BY <2>1, <3>1, <3>2 DEF KlinesFollow
  <2>. QED BY <2>2, <2>3
<1>. QED BY <1>4, <1>5 DEF KlinesInOrder, t, len

LEMMA TimesStep ==
  ASSUME NEW list, IsSeq(list), TimesInOrder(list), NEW item, FitsNext(list, item)
  PROVE  TimesInOrder(Append(list, item))
<1> DEFINE t == Append(list, item)
           len == Len(t)
<1>1. /\ Len(list) \in Nat /\ len = Len(list) + 1
      /\ \A n \in 1..Len(list) : n \in 1..len /\ n < len /\ t[n] = list[n]
      /\ \A n \in 1..len : n = len \/ n \in 1..Len(list)
      /\ t[len] = item
  BY ListGrows DEF FitsNext
<1> HIDE DEF t, len
<1>2. ASSUME NEW n \in 1..len
      PROVE  TimesFit(t[n])
  BY <1>1 DEF TimesInOrder, FitsNext
<1>3. ASSUME NEW m \in 1..len, NEW n \in 1..len, m < n
      PROVE  TimesFollow(t[m], t[n])
  <2>1. m \in 1..Len(list) /\ t[m] = list[m]
    BY <1>1, <1>3
  <2>2. CASE n = len
    BY <1>1, <2>1, <2>2 DEF FitsNext
  <2>3. CASE n # len
    BY <1>1, <1>3, <2>1, <2>3 DEF TimesInOrder
  <2>. QED BY <2>2, <2>3
<1>. QED BY <1>2, <1>3 DEF TimesInOrder, t, len

\* The times of what a stream tells, as the code reads them, do not fall.
LEMMA StreamTimes ==
  ASSUME NEW list, KlinesInOrder(list), TimesInOrder(list),
         NEW m \in 1..Len(list), NEW n \in 1..Len(list), m < n,
         list[m].e = list[n].e, list[m].s = list[n].s, list[n].e \in Told
  PROVE  TimeOf(list[m]) <= TimeOf(list[n])
<1> DEFINE q == list[m]
           p == list[n]
<1>1. TimesFollow(q, p) /\ TimesFit(q) /\ TimesFit(p)
  BY DEF TimesInOrder
<1>2. CASE p.e = "kline"
  <2>1. q.t <= p.t
    BY <1>2 DEF KlinesInOrder, KlinesFollow
  <2>2. /\ q.t \in Nat /\ q.T = q.t + BarMs - 1
        /\ p.t \in Nat /\ p.T = p.t + BarMs - 1
    BY <1>2 DEF KlinesInOrder, KlineFits
  <2>. QED BY <1>2, <2>1, <2>2 DEF TimeOf, BarMs
<1>3. CASE p.e = "aggTrade"
  BY <1>1, <1>3 DEF TimesFollow, TimeOf
<1>4. CASE p.e = "bookTicker"
  <2>1. /\ UnwrapOr(q.E, 0) <= UnwrapOr(p.E, 0) /\ UnwrapOr(q.T, 0) <= UnwrapOr(p.T, 0)
        /\ IsSome(q.E) <=> IsSome(p.E)
    BY <1>1, <1>4 DEF TimesFollow, TimesFit
  <2>2. /\ TimeOf(q) = IF IsSome(q.E) THEN UnwrapOr(q.E, 0) ELSE UnwrapOr(q.T, 0)
        /\ TimeOf(p) = IF IsSome(p.E) THEN UnwrapOr(p.E, 0) ELSE UnwrapOr(p.T, 0)
    BY <1>4 DEF TimeOf, UnwrapOr
  <2>. QED BY <2>1, <2>2
<1>. QED BY <1>2, <1>3, <1>4 DEF Told

LEMMA TimeIs ==
  ASSUME NEW list, KlinesInOrder(list), TimesInOrder(list),
         NEW n \in 1..Len(list), list[n].e \in Told
  PROVE  TimeOf(list[n]) \in Nat
<1> DEFINE p == list[n]
<1>1. CASE p.e = "kline"
  <2>1. p.t \in Nat /\ p.T = p.t + BarMs - 1
    BY <1>1 DEF KlinesInOrder, KlineFits
  <2>. QED BY <1>1, <2>1 DEF TimeOf, BarMs
<1>2. CASE p.e = "aggTrade"
  BY <1>2 DEF TimesInOrder, TimesFit, TimeOf
<1>3. CASE p.e = "bookTicker"
  <2>1. UnwrapOr(p.E, 0) \in Nat /\ UnwrapOr(p.T, 0) \in Nat
    BY <1>3 DEF TimesInOrder, TimesFit
  <2>2. TimeOf(p) = IF IsSome(p.E) THEN UnwrapOr(p.E, 0) ELSE UnwrapOr(p.T, 0)
    BY <1>3 DEF TimeOf, UnwrapOr
  <2>. QED BY <2>1, <2>2
<1>. QED BY <1>1, <1>2, <1>3 DEF Told
-----------------------------------------------------------------------------
\* What has been received was published, in this order.
ReadInOrder ==
  /\ \A n \in 1..Len(received) :
       /\ received[n].item \in 1..Len(published)
       /\ received[n].event = ParseEvent(published[received[n].item])
  /\ \A m, n \in 1..Len(received) : m < n => received[m].item < received[n].item

\* The latest klines of the bars of a symbol among the first payloads of a list.
LatestOf(list, symbol, len) ==
  {n \in 1..len :
     /\ IsKlineOf(list[n], symbol)
     /\ \A m \in 1..len : IsKlineOf(list[m], symbol) /\ m > n => list[m].t # list[n].t}

\* The rows of an answer given when the list was that long are the last of them.
Answers(rows, list, symbol, len) ==
  \E A \in SUBSET LatestOf(list, symbol, len) :
    /\ ToSet(rows) = {FromRow(list[n]) : n \in A}
    /\ rows # <<>> =>
         \E h \in A : /\ Head(rows) = FromRow(list[h])
                      /\ \A n \in LatestOf(list, symbol, len) : n >= h => n \in A

\* A payload has been received on a connection or is under way.
Known(list, messages, c, i) ==
  \/ \E n \in 1..Len(list) : list[n].item = i /\ list[n].conn = c
  \/ \E n \in 1..Len(messages) : messages[n].type = "data" /\ messages[n].item = i

\* A connection gives all that is published since an answer asked on it.
AnswerInv ==
  backfill # None =>
    /\ backfill[1].conn \in 0..connects
    /\ conn = "live" /\ backfill[1].conn = connects =>
         \E len \in 0..Len(published) :
           /\ Answers(backfill[1].rows, published, backfill[1].symbol, len)
           /\ \A i \in (len + 1)..Len(published) : Known(received, wire, connects, i)

IInv ==
  FeedInv /\ KlinesInOrder(published) /\ TimesInOrder(published) /\ ReadInOrder /\ AnswerInv

\* What is published grows by payloads that fit the open bar of their symbol.
LEMMA PublishedGrows ==
  ASSUME IsSeq(published), TimesInOrder(published), Publish
  PROVE  \E item : published' = Append(published, item) /\ FitsNext(published, item)
<1>1. PICK item \in (UNION {Payloads(stream) : stream \in Streams}) \cup {[e |-> "other"]} :
        published' = Append(published, item)
  BY DEF Publish
<1>2. CASE item = [e |-> "other"]
  <2>1. item.e = "other"
    BY <1>2
  <2>. QED BY <1>1, <2>1 DEF FitsNext, FitsOpen, TimesFit, TimesFollow
<1>3. CASE item # [e |-> "other"]
  <2>1. PICK stream \in Streams : item \in Payloads(stream)
    BY <1>3
  <2>. QED BY <1>1, <2>1, PayloadsFit
<1>. QED BY <1>2, <1>3

LEMMA PublishedOrStays ==
  ASSUME [Next]_vars
  PROVE  Publish \/ published' = published
BY DEF Next, vars, reader, NextEvent, Read, DropCall, Connect, Ping, Close, Break, Klines

LEMMA PublishedInOrder ==
  ASSUME FeedInv, KlinesInOrder(published), TimesInOrder(published), [Next]_vars
  PROVE  KlinesInOrder(published') /\ TimesInOrder(published')
<1>1. CASE Publish
  <2>1. IsSeq(published)
    BY DEF FeedInv
  <2>2. PICK item : published' = Append(published, item) /\ FitsNext(published, item)
    BY <1>1, <2>1, PublishedGrows
  <2>3. KlinesInOrder(Append(published, item)) /\ TimesInOrder(Append(published, item))
    BY <2>1, <2>2, KlinesStep, TimesStep DEF FitsNext
  <2>. QED BY <2>2, <2>3
<1>2. CASE published' = published
  BY <1>2
<1>. QED BY <1>1, <1>2, PublishedOrStays

\* What a step receives, if anything, is the first message under way.
LEMMA ReceivedOrStays ==
  ASSUME FeedInv, [Next]_vars, received' # received
  PROVE  /\ wire # <<>> /\ wire[1].type = "data" /\ wire' = Tail(wire)
         /\ received' = Append(received, [conn |-> connects, item |-> wire[1].item,
                                          event |-> ParseEvent(published[wire[1].item])])
         /\ published' = published
<1>1. Read
  BY DEF Next, vars, reader, NextEvent, DropCall, Connect, Publish, Ping, Close, Break, Klines
<1>2. wire # <<>> /\ wire' = Tail(wire) /\ ReadData /\ published' = published
  BY <1>1 DEF Read, ReadPing, ReadClose, ReadError
<1>3. Head(wire) = wire[1]
  BY <1>2, RestContiguous DEF FeedInv
<1>. QED BY <1>2, <1>3 DEF ReadData

LEMMA ReadStep ==
  ASSUME FeedInv, ReadInOrder, [Next]_vars
  PROVE  ReadInOrder'
<1>1. IsSeq(received) /\ IsSeq(published) /\ Len(received) \in Nat /\ Len(published) \in Nat
  BY LenProperties DEF FeedInv, IsSeq
<1>2. CASE received' = received
  <2>1. /\ Len(published') \in Nat /\ Len(published') >= Len(published)
        /\ \A n \in 1..Len(published) : published'[n] = published[n]
    <3>1. CASE Publish
      <4>1. PICK item : published' = Append(published, item)
        BY <3>1 DEF Publish
      <4>. QED BY <1>1, <4>1, AppendIsSeq
    <3>2. CASE published' = published
      BY <1>1, <3>2
    <3>. QED BY <3>1, <3>2, PublishedOrStays
  <2>2. ASSUME NEW n \in 1..Len(received)
        PROVE  /\ received[n].item \in 1..Len(published')
               /\ received[n].event = ParseEvent(published'[received[n].item])
    <3>1. received[n].item \in 1..Len(published)
          /\ received[n].event = ParseEvent(published[received[n].item])
      BY DEF ReadInOrder
    <3>2. published'[received[n].item] = published[received[n].item]
      BY <2>1, <3>1
    <3>3. received[n].item \in 1..Len(published')
      BY <1>1, <2>1, <3>1
    <3>. QED BY <3>1, <3>2, <3>3
  <2>. QED BY <1>2, <2>2 DEF ReadInOrder
<1>3. CASE received' # received
  <2> DEFINE item == wire[1].item
             answer == [conn |-> connects, item |-> item, event |-> ParseEvent(published[item])]
             len == Len(received)
  <2>1. /\ wire # <<>> /\ wire[1].type = "data"
        /\ received' = Append(received, answer) /\ published' = published
    BY <1>3, ReceivedOrStays
  <2>2. item \in 1..Len(published) /\ item > At
    BY <2>1, NextItem
  <2>3. /\ Len(received') = len + 1
        /\ \A n \in 1..len : received'[n] = received[n]
        /\ received'[len + 1] = answer
    BY <1>1, <2>1, AppendIsSeq
  <2>4. answer.item = item /\ answer.event = ParseEvent(published[item])
    OBVIOUS
  <2>5. ASSUME NEW n \in 1..len PROVE received[n].item < item
    <3>1. len \in 1..len /\ received # <<>>
      BY <1>1, EmptySeq
    <3>2. received[n].item \in Nat /\ received[len].item \in Nat
          /\ (n < len => received[n].item < received[len].item)
      BY <3>1 DEF ReadInOrder
    <3>3. At = received[len].item
      BY <3>1 DEF At
    <3>. QED BY <1>1, <2>2, <3>2, <3>3
  <2> HIDE DEF answer, item, len
  <2>6. \A n \in 1..Len(received') : n \in 1..len \/ n = len + 1
    BY <1>1, <2>3 DEF len
  <2>7. ASSUME NEW n \in 1..Len(received')
        PROVE  /\ received'[n].item \in 1..Len(published)
               /\ received'[n].event = ParseEvent(published[received'[n].item])
    BY <2>2, <2>3, <2>4, <2>6 DEF ReadInOrder, len
  <2>8. ASSUME NEW m \in 1..Len(received'), NEW n \in 1..Len(received'), m < n
        PROVE  received'[m].item < received'[n].item
    <3>1. m \in 1..len
      BY <1>1, <2>3, <2>8 DEF len
    <3>2. CASE n = len + 1
      BY <2>3, <2>4, <2>5, <3>1, <3>2
    <3>3. CASE n \in 1..len
      BY <2>3, <2>8, <3>1, <3>3 DEF ReadInOrder, len
    <3>. QED BY <2>6, <3>2, <3>3
  <2>. QED BY <2>1, <2>7, <2>8 DEF ReadInOrder
<1>. QED BY <1>2, <1>3

\* An answer has the latest klines of the last bars.
LEMMA BarsAnswer ==
  ASSUME IsSeq(published), NEW symbol,
         NEW rows, rows = [n \in 1..Len(BarsOf(symbol)) |-> FromRow(BarsOf(symbol)[n])]
  PROVE  Answers(rows, published, symbol, Len(published))
<1> DEFINE len == Len(published)
           klines == {n \in 1..len : IsKlineOf(published[n], symbol)}
           latest == {n \in klines : \A m \in klines : m > n => published[m].t # published[n].t}
           after(n) == {m \in latest : m > n}
           asked == {n \in latest : Cardinality(after(n)) < Limit}
           c == Cardinality(asked)
<1>1. len \in Nat
  BY LenProperties DEF IsSeq
<1>2. latest = LatestOf(published, symbol, len)
  BY DEF LatestOf
<1>3. BarsOf(symbol) = Chosen(published, asked)
  BY DEF BarsOf
<1>4. latest \in SUBSET Int /\ IsFiniteSet(latest)
  <2>1. latest \in SUBSET (1..len) /\ latest \in SUBSET Int /\ IsFiniteSet(1..len)
    BY <1>1, FS_Interval
  <2> HIDE DEF latest
  <2>. QED BY <2>1, FS_Subset
<1>5. asked \in SUBSET latest /\ IsFiniteSet(asked) /\ asked \in SUBSET Int
  <2>1. asked \in SUBSET latest
    OBVIOUS
  <2> HIDE DEF latest, asked
  <2>2. IsFiniteSet(asked)
    BY <1>4, <2>1, FS_Subset
  <2>3. asked \in SUBSET Int
    BY <1>4, <2>1
  <2>. QED BY <2>1, <2>2, <2>3
<1>6. PICK place \in Bijection(1..c, asked) :
        /\ \A k, l \in 1..c : k < l => place[k] < place[l]
        /\ \A k \in 1..c : Chosen(published, asked)[k] = published[place[k]]
  <2> HIDE DEF asked
  <2>. QED BY SMTT(30), <1>5, ChosenIs
<1>7. c \in Nat /\ Len(BarsOf(symbol)) = c
  <2> HIDE DEF asked
  <2>1. c \in Nat /\ Chosen(published, asked) = [k \in 1..c |-> Chosen(published, asked)[k]]
    BY <1>5, ChosenIs
  <2> HIDE DEF c
  <2>2. Len([k \in 1..c |-> Chosen(published, asked)[k]]) = c
    BY <2>1
  <2>. QED BY <1>3, <2>1, <2>2
<1>8. /\ \A k \in 1..c : place[k] \in asked
      /\ \A n \in asked : \E k \in 1..c : place[k] = n
  <2> DEFINE D == 1..c
             R == asked
  <2>1. place \in Bijection(D, R)
    OBVIOUS
  <2> HIDE DEF D, R
  <2>2. place \in [D -> R] /\ \A n \in R : \E k \in D : place[k] = n
    BY <2>1, Fun_BijectionProperties
  <2>3. \A k \in D : place[k] \in R
    BY <2>2
  <2>. QED BY <2>2, <2>3 DEF D, R
<1> HIDE DEF asked, c, latest
<1>9. rows = [k \in 1..c |-> FromRow(published[place[k]])]
  BY <1>3, <1>6, <1>7
<1>10. ToSet(rows) = {FromRow(published[n]) : n \in asked}
  <2>1. ToSet(rows) = {FromRow(published[place[k]]) : k \in 1..c}
    <3>1. DOMAIN rows = 1..c /\ \A k \in 1..c : rows[k] = FromRow(published[place[k]])
      BY <1>9
    <3>2. ToSet(rows) = {rows[k] : k \in 1..c}
      BY <3>1 DEF ToSet
    <3>. QED BY <3>1, <3>2
  <2>. QED BY <1>8, <2>1
<1>11. ASSUME rows # <<>>
       PROVE  \E h \in asked : /\ Head(rows) = FromRow(published[h])
                               /\ \A n \in latest : n >= h => n \in asked
  <2>1. c # 0
    <3>1. c = 0 => rows = <<>>
      BY <1>9
    <3>. QED BY <1>11, <3>1
  <2>2. 1 \in 1..c
    BY <1>7, <2>1
  <2>3. Head(rows) = FromRow(published[place[1]])
    BY <1>9, <2>2, <1>11
  <2>4. place[1] \in asked
    BY <1>8, <2>2
  <2>5. ASSUME NEW n \in latest, n >= place[1]
        PROVE  n \in asked
    <3> DEFINE a == after(n)
               b == after(place[1])
    <3>1. \A m \in latest : m \in Int
      BY <1>4
    <3>2. a \in SUBSET b /\ b \in SUBSET latest
      <4> DEFINE h == place[1]
      <4>1. n \in Int /\ h \in Int /\ n >= h
        BY <1>5, <2>4, <2>5, <3>1
      <4> HIDE DEF h
      <4>2. \A m \in latest : m > n => m > h
        BY <3>1, <4>1
      <4>. QED BY <4>2 DEF h
    <3> HIDE DEF a, b
    <3>3. IsFiniteSet(a) /\ IsFiniteSet(b)
      BY <1>4, <3>2, FS_Subset
    <3>4. Cardinality(a) <= Cardinality(b) /\ Cardinality(a) \in Nat /\ Cardinality(b) \in Nat
      BY <3>2, <3>3, FS_Subset, FS_CardinalityType
    <3>5. Cardinality(b) < Limit
      BY <2>4 DEF asked, b
    <3>6. Cardinality(a) < Limit
      BY <3>4, <3>5, BoundsAssumption
    <3>. QED BY <3>6 DEF asked, a
  <2>. QED BY <2>3, <2>4, <2>5
<1>. QED BY <1>2, <1>5, <1>10, <1>11 DEF Answers

\* An answer stays the answer of its moment.
LEMMA AnswersStay ==
  ASSUME NEW list, NEW next, NEW rows, NEW symbol, NEW len,
         \A n \in 1..len : next[n] = list[n], Answers(rows, list, symbol, len)
  PROVE  Answers(rows, next, symbol, len)
<1>1. LatestOf(next, symbol, len) = LatestOf(list, symbol, len)
  BY DEF LatestOf
<1>2. PICK A \in SUBSET LatestOf(list, symbol, len) :
        /\ ToSet(rows) = {FromRow(list[n]) : n \in A}
        /\ rows # <<>> =>
             \E h \in A : /\ Head(rows) = FromRow(list[h])
                          /\ \A n \in LatestOf(list, symbol, len) : n >= h => n \in A
  BY DEF Answers
<1>3. \A n \in A : next[n] = list[n]
  BY DEF LatestOf
<1>4. {FromRow(next[n]) : n \in A} = {FromRow(list[n]) : n \in A}
  BY <1>3
<1>5. rows # <<>> =>
        \E h \in A : /\ Head(rows) = FromRow(next[h])
                     /\ \A n \in LatestOf(next, symbol, len) : n >= h => n \in A
  BY <1>1, <1>2, <1>3
<1>. QED BY <1>1, <1>2, <1>4, <1>5 DEF Answers

\* What is known of a connection stays known while it lasts.
LEMMA KnownStays ==
  ASSUME FeedInv, [Next]_vars, conn = "live", conn' = "live",
         NEW i, Known(received, wire, connects, i)
  PROVE  Known(received', wire', connects, i)
<1>1. IsSeq(received) /\ Len(received) \in Nat /\ Contiguous(wire)
  BY LenProperties DEF FeedInv, IsSeq
<1>2. wire \in Seq(Messages) /\ Len(wire) \in Nat /\ IsSeq(wire)
  BY <1>1, LenProperties, ElementsOfSeq DEF Contiguous, IsSeq, Elements
<1>3. \/ UNCHANGED <<received, wire>>
      \/ wire # <<>> /\ wire' = Tail(wire)
      \/ received' = received /\ \E message : wire' = Append(wire, message)
  BY DEF Next, vars, reader, NextEvent, Read, DropCall, Connect, Publish, Send, Ping, Close,
         Break, Klines
<1>4. CASE UNCHANGED <<received, wire>>
  BY <1>4
<1>5. CASE received' = received /\ \E message : wire' = Append(wire, message)
  <2>1. PICK message : wire' = Append(wire, message)
    BY <1>5
  <2>2. Len(wire') = Len(wire) + 1 /\ \A n \in 1..Len(wire) : wire'[n] = wire[n]
    BY <1>2, <2>1, AppendIsSeq
  <2>3. \A n \in 1..Len(wire) : n \in 1..Len(wire')
    BY <1>2, <2>2
  <2>. QED BY <1>5, <2>2, <2>3 DEF Known
<1>6. CASE wire # <<>> /\ wire' = Tail(wire)
  <2>1. /\ Len(wire') = Len(wire) - 1 /\ Len(wire) \in Nat \ {0}
        /\ \A n \in 1..Len(wire') : wire'[n] = wire[n + 1]
        /\ Head(wire) = wire[1]
    BY <1>1, <1>6, RestContiguous
  <2>2. \/ received' = received /\ wire[1].type # "data"
        \/ /\ wire[1].type = "data"
           /\ received' = Append(received, [conn |-> connects, item |-> wire[1].item,
                                            event |-> ParseEvent(published[wire[1].item])])
    <3>1. wire' # wire
      BY <1>2, <2>1
    <3>2. Read \/ Break \/ Connect \/ Publish \/ Ping \/ Close
      BY <3>1 DEF Next, vars, reader, NextEvent, DropCall, Klines
    <3>3. Read
      <4>1. ~Break /\ ~Close /\ ~Connect
        BY DEF Break, Close, Connect
      <4>2. Publish \/ Ping => \E message : wire' = Append(wire, message)
        BY <3>1 DEF Publish, Ping, Send
      <4>3. ASSUME NEW message, wire' = Append(wire, message)
            PROVE  FALSE
        BY <1>2, <2>1, <4>3, AppendIsSeq
      <4>. QED BY <3>2, <4>1, <4>2, <4>3
    <3>. QED BY <2>1, <3>1, <3>3 DEF Read, ReadData, ReadPing, ReadClose, ReadError
  <2>3. CASE \E n \in 1..Len(received) : received[n].item = i /\ received[n].conn = connects
    <3>1. \A n \in 1..Len(received) : n \in 1..Len(received') /\ received'[n] = received[n]
      BY <1>1, <2>2, AppendIsSeq
    <3>. QED BY <2>3, <3>1 DEF Known
  <2>4. CASE \E n \in 1..Len(wire) : wire[n].type = "data" /\ wire[n].item = i
    <3>1. PICK n \in 1..Len(wire) : wire[n].type = "data" /\ wire[n].item = i
      BY <2>4
    <3>2. CASE n = 1
      <4> DEFINE answer == [conn |-> connects, item |-> wire[1].item,
                            event |-> ParseEvent(published[wire[1].item])]
      <4>1. received' = Append(received, answer)
        BY <2>2, <3>1, <3>2
      <4>2. answer.item = i /\ answer.conn = connects
        BY <3>1, <3>2
      <4> HIDE DEF answer
      <4>3. Len(received) + 1 \in 1..Len(received') /\ received'[Len(received) + 1] = answer
        BY <1>1, <4>1, AppendIsSeq
      <4>. QED BY <4>2, <4>3 DEF Known
    <3>3. CASE n # 1
      <4>1. n - 1 \in 1..Len(wire') /\ wire'[n - 1] = wire[(n - 1) + 1] /\ (n - 1) + 1 = n
        BY <2>1, <3>3
      <4>. QED BY <3>1, <4>1 DEF Known
    <3>. QED BY <3>2, <3>3
  <2>. QED BY <2>3, <2>4 DEF Known
<1>. QED BY <1>3, <1>4, <1>5, <1>6

LEMMA AnswerStep ==
  ASSUME FeedInv, AnswerInv, [Next]_vars
  PROVE  AnswerInv'
<1>1. IsSeq(published) /\ Len(published) \in Nat /\ connects \in Nat
  BY LenProperties DEF FeedInv, IsSeq
<1>2. \/ /\ UNCHANGED <<conn, published, connects, received, wire>>
         /\ \E symbol : Klines(symbol)
      \/ backfill' = backfill
  BY DEF Next, vars, reader, NextEvent, Read, DropCall, Connect, Publish, Ping, Close, Break,
         Klines
<1>3. CASE /\ UNCHANGED <<conn, published, connects, received, wire>>
           /\ \E symbol : Klines(symbol)
  <2>1. PICK symbol : Klines(symbol)
    BY <1>3
  <2> DEFINE rows == [n \in 1..Len(BarsOf(symbol)) |-> FromRow(BarsOf(symbol)[n])]
             answer == [conn |-> connects, symbol |-> symbol, rows |-> rows]
  <2>2. backfill' = Some(answer) /\ answer.conn = connects /\ answer.symbol = symbol
        /\ answer.rows = rows
    BY <2>1 DEF Klines
  <2>3. Answers(rows, published, symbol, Len(published))
    BY <1>1, BarsAnswer
  <2> HIDE DEF rows, answer
  <2>4. backfill'[1] = answer
    BY <2>2 DEF Some
  <2>5. /\ backfill'[1].conn \in 0..connects'
        /\ Answers(backfill'[1].rows, published', backfill'[1].symbol, Len(published))
        /\ Len(published) \in 0..Len(published')
        /\ \A i \in (Len(published) + 1)..Len(published') :
             Known(received', wire', connects', i)
    BY <1>1, <1>3, <2>2, <2>3, <2>4
  <2>. QED BY <2>5 DEF AnswerInv
<1>4. CASE backfill' = backfill
  <2> SUFFICES ASSUME backfill # None
               PROVE  /\ backfill[1].conn \in 0..connects'
                      /\ conn' = "live" /\ backfill[1].conn = connects' =>
                           \E len \in 0..Len(published') :
                             /\ Answers(backfill[1].rows, published', backfill[1].symbol, len)
                             /\ \A i \in (len + 1)..Len(published') :
                                  Known(received', wire', connects', i)
    BY <1>4 DEF AnswerInv
  <2>1. backfill[1].conn \in 0..connects
    BY DEF AnswerInv
  <2>2. CASE Connect
    <3>1. connects' = connects + 1
      BY <2>2 DEF Connect
    <3>. QED BY <1>1, <2>1, <3>1
  <2>3. CASE ~Connect
    <3>1. connects' = connects /\ (conn' = "live" => conn = "live")
      BY <2>3 DEF Next, vars, reader, NextEvent, Read, DropCall, Publish, Ping, Close, Break,
                  Klines
    <3> SUFFICES ASSUME conn' = "live", conn = "live", backfill[1].conn = connects
                 PROVE  \E len \in 0..Len(published') :
                          /\ Answers(backfill[1].rows, published', backfill[1].symbol, len)
                          /\ \A i \in (len + 1)..Len(published') :
                               Known(received', wire', connects, i)
      BY <2>1, <3>1
    <3>2. PICK len \in 0..Len(published) :
            /\ Answers(backfill[1].rows, published, backfill[1].symbol, len)
            /\ \A i \in (len + 1)..Len(published) : Known(received, wire, connects, i)
      BY DEF AnswerInv
    <3>3. \A i \in (len + 1)..Len(published) : Known(received', wire', connects, i)
      BY <3>2, KnownStays
    <3>4. CASE published' = published
      BY <3>2, <3>3, <3>4
    <3>5. CASE Publish
      <4> DEFINE next == Len(published')
      <4>1. PICK item : published' = Append(published, item)
        BY <3>5 DEF Publish
      <4>2. next = Len(published) + 1
            /\ \A n \in 1..Len(published) : published'[n] = published[n]
        BY <1>1, <4>1, AppendIsSeq
      <4>3. Known(received', wire', connects, next)
        <5> DEFINE message == [type |-> "data", item |-> next]
        <5>1. wire' = Append(wire, message)
          BY <3>5 DEF Publish, Send
        <5>2. message.type = "data" /\ message.item = next
          OBVIOUS
        <5>3. wire \in Seq(Messages) /\ Len(wire) \in Nat
          BY InvFacts
        <5>4. IsSeq(wire)
          BY <5>3, ElementsOfSeq DEF IsSeq, Elements
        <5> HIDE DEF message
        <5>5. Len(wire) + 1 \in 1..Len(wire') /\ wire'[Len(wire) + 1] = message
          BY <5>1, <5>3, <5>4, AppendIsSeq
        <5>. QED BY <5>2, <5>5 DEF Known
      <4> HIDE DEF next
      <4>4. ASSUME NEW i \in (len + 1)..next PROVE Known(received', wire', connects, i)
        <5>1. i = next \/ i \in (len + 1)..Len(published)
          BY <1>1, <3>2, <4>2
        <5>. QED BY <3>3, <4>3, <5>1
      <4>5. Answers(backfill[1].rows, published', backfill[1].symbol, len)
        <5>1. \A n \in 1..len : n \in 1..Len(published)
          BY <1>1, <3>2
        <5>2. \A n \in 1..len : published'[n] = published[n]
          BY <4>2, <5>1
        <5>. QED BY <3>2, <5>2, AnswersStay
      <4>6. len \in 0..next
        BY <1>1, <3>2, <4>2
      <4>. QED BY <4>4, <4>5, <4>6 DEF next
    <3>. QED BY <3>4, <3>5, PublishedOrStays
  <2>. QED BY <2>2, <2>3
<1>. QED BY <1>2, <1>3, <1>4

LEMMA InvariantHolds == Spec => []IInv
<1>1. Init => IInv
  <2> SUFFICES ASSUME Init PROVE IInv
    OBVIOUS
  <2>1. FeedInv
    BY InitHolds
  <2>2. published = <<>> /\ received = <<>> /\ backfill = None /\ Len(<<>>) = 0
    BY EmptySeq DEF Init
  <2>3. KlinesInOrder(published) /\ TimesInOrder(published) /\ ReadInOrder
    BY <2>2 DEF KlinesInOrder, TimesInOrder, ReadInOrder
  <2>. QED BY <2>1, <2>2, <2>3 DEF IInv, AnswerInv
<1>2. IInv /\ [Next]_vars => IInv'
  <2> SUFFICES ASSUME IInv, [Next]_vars PROVE IInv'
    OBVIOUS
  <2>1. FeedInv'
    BY FeedStep DEF IInv
  <2>2. KlinesInOrder(published') /\ TimesInOrder(published')
    BY PublishedInOrder DEF IInv
  <2>3. ReadInOrder' /\ AnswerInv'
    BY ReadStep, AnswerStep DEF IInv
  <2>. QED BY <2>1, <2>2, <2>3 DEF IInv
<1>. QED BY <1>1, <1>2, PTL DEF Spec

\* The bars received are of the klines published.
LEMMA BarIs ==
  ASSUME ReadInOrder, NEW n \in 1..Len(received), IsBar(n)
  PROVE  LET p == published[received[n].item]
         IN  /\ p.e = "kline"
             /\ Got(n).kline = IntoKline(p)
             /\ Got(n).type = "bar_closed" <=> p.x
<1> DEFINE p == published[received[n].item]
<1>1. received[n].event = ParseEvent(p)
  BY DEF ReadInOrder
<1> HIDE DEF p
<1>2. ParseEvent(p) # None /\ ParseEvent(p)[1].type \in {"kline", "bar_closed"}
      /\ Got(n) = ParseEvent(p)[1]
  BY <1>1 DEF IsBar, Got
<1>3. p.e = "kline"
  <2>1. p.e \in Told
    BY <1>2 DEF ParseEvent, Told
  <2>2. p.e = "aggTrade" => ParseEvent(p)[1].type = "tick"
    BY DEF ParseEvent, Some
  <2>3. p.e = "bookTicker" => ParseEvent(p)[1].type = "book_ticker"
    BY DEF ParseEvent, Some
  <2>. QED BY <1>2, <2>1, <2>2, <2>3 DEF Told
<1> DEFINE k == IntoKline(p)
           e == [type |-> IF p.x THEN "bar_closed" ELSE "kline", kline |-> k]
<1>4. ParseEvent(p) = <<e>>
  BY <1>3 DEF ParseEvent, Some
<1>5. e.kline = k /\ (e.type = "bar_closed" <=> p.x)
  OBVIOUS
<1> HIDE DEF e, k
<1>6. Got(n) = e
  BY <1>2, <1>4
<1>. QED BY <1>3, <1>5, <1>6 DEF p, k

\* The engines' caches may count on the closed bars a reader gives, whatever
\* connections it reads: none comes again, and no bar comes after a later one.
THEOREM BarsCorrectness == Spec => []BarsCloseOnce
<1>1. IInv => BarsCloseOnce
  <2> SUFFICES ASSUME IInv, NEW m \in 1..Len(received), NEW n \in 1..Len(received),
                      m < n, IsBar(m), IsBar(n), Got(m).type = "bar_closed",
                      Got(n).kline.symbol = Got(m).kline.symbol
               PROVE  Got(n).kline.open_time > Got(m).kline.open_time
    BY DEF BarsCloseOnce
  <2> DEFINE i == received[m].item
             j == received[n].item
  <2>1. i \in 1..Len(published) /\ j \in 1..Len(published) /\ i < j
    BY DEF IInv, ReadInOrder
  <2>2. /\ published[i].e = "kline" /\ Got(m).kline = IntoKline(published[i])
        /\ published[i].x
        /\ published[j].e = "kline" /\ Got(n).kline = IntoKline(published[j])
    BY BarIs DEF IInv
  <2> HIDE DEF i, j
  <2>3. published[i].s = published[j].s
    BY <2>2 DEF IntoKline
  <2>4. KlinesFollow(published, i, j) /\ KlineFits(published, i) /\ KlineFits(published, j)
    BY <2>1 DEF IInv, KlinesInOrder
  <2>5. published[i].t < published[j].t /\ published[i].t \in Nat /\ published[j].t \in Nat
    BY <2>1, <2>2, <2>3, <2>4 DEF KlinesFollow, KlineFits
  <2>6. /\ Got(m).kline.open_time = MsToNs(published[i].t)
        /\ Got(n).kline.open_time = MsToNs(published[j].t)
    BY <2>2 DEF IntoKline
  <2>. QED BY <2>5, <2>6 DEF MsToNs
<1>. QED BY <1>1, InvariantHolds, PTL

LEMMA FromFinalRow ==
  ASSUME NEW p, p.x = TRUE
  PROVE  FromRow(p) = IntoKline(p)
<1> DEFINE f == "is_final"
           D == {"symbol", "interval", "open_time", "close_time", "close", f}
           k == IntoKline(p)
<1>1. DOMAIN k = D /\ k = [field \in D |-> k[field]]
  BY DEF IntoKline
<1>2. k[f] = TRUE
  BY DEF IntoKline
<1>3. FromRow(p) = [k EXCEPT ![f] = TRUE]
  BY DEF FromRow
<1> HIDE DEF k, D
<1>4. [k EXCEPT ![f] = TRUE] = k
  BY <1>1, <1>2
<1>. QED BY <1>3, <1>4 DEF k

LEMMA SameOpening ==
  ASSUME NEW p, p.t \in Int
  PROVE  /\ IntoKline(p).open_time = MsToNs(p.t) /\ FromRow(p).open_time = MsToNs(p.t)
         /\ \A q : /\ q.t \in Int
                   => /\ MsToNs(p.t) = MsToNs(q.t) <=> p.t = q.t
                      /\ MsToNs(p.t) >= MsToNs(q.t) <=> p.t >= q.t
                      /\ MsToNs(p.t) <= MsToNs(q.t) <=> p.t <= q.t
<1>1. IntoKline(p).open_time = MsToNs(p.t) /\ FromRow(p).open_time = MsToNs(p.t)
  BY DEF IntoKline, FromRow
<1>. QED BY <1>1 DEF MsToNs

\* A caller that asks for klines on a connection and merges them with the bars
\* of that connection has every closed bar as it closed, and after them no more
\* than the open one.
THEOREM MergeCorrectness == Spec => []MergeIsExact
<1>1. IInv => MergeIsExact
  <2> SUFFICES ASSUME IInv, conn = "live", wire = <<>>, backfill # None,
                      backfill[1].conn = connects, backfill[1].rows # <<>>
               PROVE  LET rows   == backfill[1].rows
                          finals == {IntoKline(published[n]) : n \in Finals(backfill[1].symbol)}
                      IN  /\ \A k \in finals : k.open_time >= Head(rows).open_time => k \in Merged
                          /\ \A k \in Merged \ finals :
                               \A other \in Merged : other.open_time <= k.open_time
    BY DEF MergeIsExact
  <2> DEFINE symbol == backfill[1].symbol
             rows == backfill[1].rows
             Firsts == FinalsOf(published, symbol)
             finals == {IntoKline(published[n]) : n \in Firsts}
             P == 1..Len(published)
             open == OpenOf(published, symbol)
             live == {Got(n).kline : n \in {n \in 1..Len(received) :
                        /\ received[n].conn = connects /\ IsBar(n)
                        /\ Got(n).type = "bar_closed" /\ Got(n).kline.symbol = symbol}}
  <2>1. finals = {IntoKline(published[n]) : n \in Finals(symbol)}
    BY FinalsAre
  <2>2. Merged = live \cup {row \in ToSet(rows) : \A k \in live : k.open_time # row.open_time}
    BY DEF Merged
  <2>3. PICK len \in 0..Len(published) :
          /\ Answers(rows, published, symbol, len)
          /\ \A i \in (len + 1)..Len(published) : Known(received, wire, connects, i)
    BY DEF IInv, AnswerInv
  <2> DEFINE L == LatestOf(published, symbol, len)
  <2>4. PICK A \in SUBSET L :
          /\ ToSet(rows) = {FromRow(published[n]) : n \in A}
          /\ \E h \in A : /\ Head(rows) = FromRow(published[h])
                          /\ \A n \in L : n >= h => n \in A
    BY <2>3 DEF Answers
  <2>5. PICK h \in A : /\ Head(rows) = FromRow(published[h])
                       /\ \A n \in L : n >= h => n \in A
    BY <2>4
  <2>6. Len(published) \in Nat
    BY LenProperties DEF IInv, FeedInv, IsSeq
  \* The closed bars received are final klines.
  <2>7. ASSUME NEW k \in live
        PROVE  \E g \in Firsts : k = IntoKline(published[g])
    <3>1. PICK n \in 1..Len(received) : /\ IsBar(n) /\ Got(n).type = "bar_closed"
                                        /\ Got(n).kline.symbol = symbol /\ k = Got(n).kline
      BY <2>7
    <3> DEFINE i == received[n].item
    <3>2. i \in P
      BY DEF IInv, ReadInOrder
    <3>3. published[i].e = "kline" /\ Got(n).kline = IntoKline(published[i]) /\ published[i].x
      BY <3>1, BarIs DEF IInv
    <3> HIDE DEF i
    <3>4. published[i].s = symbol
      BY <3>1, <3>3 DEF IntoKline
    <3>5. i \in Firsts
      BY <3>2, <3>3, <3>4 DEF FinalsOf, IsKlineOf
    <3>. QED BY <3>1, <3>3, <3>5
  \* Every final kline since the answer has been received.
  <2>8. ASSUME NEW f \in Firsts, f > len
        PROVE  IntoKline(published[f]) \in live
    <3>1. f \in P /\ published[f].e = "kline" /\ published[f].s = symbol /\ published[f].x
      BY DEF FinalsOf, IsKlineOf
    <3>2. f \in (len + 1)..Len(published)
      BY <2>3, <2>6, <2>8, <3>1
    <3>3. Len(wire) = 0
      BY EmptySeq
    <3>4. PICK n \in 1..Len(received) : received[n].item = f /\ received[n].conn = connects
      BY <2>3, <3>2, <3>3 DEF Known
    <3> DEFINE k == IntoKline(published[f])
               e == [type |-> "bar_closed", kline |-> k]
    <3>5. received[n].event = <<e>>
      BY <3>1, <3>4 DEF IInv, ReadInOrder, ParseEvent, Some
    <3>6. k.symbol = symbol
      BY <3>1 DEF IntoKline
    <3>7. e.type = "bar_closed" /\ e.kline = k
      OBVIOUS
    <3> HIDE DEF e, k
    <3>8. IsBar(n) /\ Got(n) = e
      BY <3>5, <3>7 DEF IsBar, Got, None
    <3>9. k \in live
      BY <3>4, <3>6, <3>7, <3>8
    <3>. QED BY <3>9 DEF k
  \* What holds of the klines published.
  <2>9. ASSUME NEW n \in P, IsKlineOf(published[n], symbol)
        PROVE  /\ published[n].t \in Nat /\ published[n].t <= open /\ open \in Nat
               /\ published[n].x \in BOOLEAN
               /\ published[n].t < open => \E f \in Firsts : f >= n /\ published[f].t = published[n].t
    <3>1. KlineFits(published, n) /\ IsSeq(published)
      BY DEF IInv, KlinesInOrder, FeedInv
    <3>. QED BY <2>9, <3>1, FinalsFinite DEF KlineFits, IsKlineOf
  <2>10. ASSUME NEW m \in P, IsKlineOf(published[m], symbol),
                NEW n \in P, IsKlineOf(published[n], symbol), m < n
         PROVE  /\ published[m].t <= published[n].t
                /\ published[m].x => published[m].t < published[n].t
    <3>1. KlinesFollow(published, m, n)
      BY DEF IInv, KlinesInOrder
    <3>. QED BY <2>10, <3>1 DEF KlinesFollow, IsKlineOf
  <2>11. ASSUME NEW n \in Firsts
         PROVE  n \in P /\ n \in Int /\ IsKlineOf(published[n], symbol) /\ published[n].x
                /\ published[n].t \in Int
    BY <2>6, <2>9 DEF FinalsOf
  <2>12. ASSUME NEW n \in L
         PROVE  /\ n \in 1..len /\ n \in P /\ n \in Int /\ IsKlineOf(published[n], symbol)
                /\ published[n].t \in Int
                /\ \A m \in 1..len :
                     IsKlineOf(published[m], symbol) /\ m > n => published[m].t # published[n].t
    BY <2>3, <2>6, <2>9 DEF LatestOf
  <2>13. \A n \in Firsts : published[n].x = TRUE
    BY <2>9, <2>11
  <2> HIDE DEF Firsts, L, P, open, live, symbol, rows
  \* Of a bar that has closed there is one final kline.
  <2>14. ASSUME NEW f \in Firsts, NEW g \in Firsts, published[f].t = published[g].t
         PROVE  f = g
    <3>1. f = g \/ f < g \/ g < f
      BY <2>11
    <3>. QED BY <2>10, <2>11, <2>14, <3>1
  <2>15. ASSUME NEW f \in Firsts, IntoKline(published[f]).open_time >= Head(rows).open_time
         PROVE  IntoKline(published[f]) \in Merged
    <3> DEFINE k == IntoKline(published[f])
    <3>1. CASE f > len
      BY <2>2, <2>8, <3>1
    <3>2. CASE ~(f > len)
      <4>1. f \in 1..len
        <5>1. f \in P /\ f \in Int
          BY <2>11
        <5>. QED BY <2>3, <2>6, <3>2, <5>1 DEF P
      <4>2. ASSUME NEW m \in 1..len, IsKlineOf(published[m], symbol), m > f
            PROVE  published[m].t # published[f].t
        <5>1. m \in P
          BY <2>3, <2>6 DEF P
        <5>2. published[f].t < published[m].t /\ published[f].t \in Int
              /\ published[m].t \in Int
          BY <2>9, <2>10, <2>11, <4>2, <5>1
        <5>. QED BY <5>2
      <4>3. f \in L
        BY <2>11, <4>1, <4>2 DEF L, LatestOf
      <4>4. f >= h
        <5>1. h \in L /\ f \in Int /\ h \in Int
          BY <2>11, <2>12
        <5>2. published[f].t >= published[h].t
          BY <2>5, <2>11, <2>12, <2>15, <5>1, SameOpening
        <5>3. ASSUME f < h
              PROVE  FALSE
          <6>1. published[f].t < published[h].t
            BY <2>10, <2>11, <2>12, <5>1, <5>3
          <6>. QED BY <2>11, <2>12, <5>1, <5>2, <6>1
        <5>. QED BY <5>1, <5>3
      <4>5. f \in A
        BY <2>5, <4>3, <4>4
      <4>6. FromRow(published[f]) = k
        BY <2>13, FromFinalRow
      <4>7. k \in ToSet(rows)
        BY <2>4, <4>5, <4>6
      <4>8. CASE \A o \in live : o.open_time # k.open_time
        BY <2>2, <4>7, <4>8
      <4>9. CASE \E o \in live : o.open_time = k.open_time
        <5>1. PICK o \in live : o.open_time = k.open_time
          BY <4>9
        <5>2. PICK g \in Firsts : o = IntoKline(published[g])
          BY <2>7
        <5>3. published[g].t = published[f].t
          BY <2>11, <5>1, <5>2, SameOpening
        <5>4. o = k
          BY <2>14, <5>2, <5>3
        <5>. QED BY <2>2, <5>4
      <4>. QED BY <4>8, <4>9
    <3>. QED BY <3>1, <3>2
  \* A row that is not of a closed bar is of the open one.
  <2>16. ASSUME NEW n \in A, FromRow(published[n]) \notin finals,
                \A k \in live : k.open_time # FromRow(published[n]).open_time
         PROVE  published[n].t = open
    <3> SUFFICES ASSUME published[n].t # open
                 PROVE  FALSE
      OBVIOUS
    <3>1. n \in L
      OBVIOUS
    <3>2. published[n].t < open
      <4>1. published[n].t <= open /\ published[n].t \in Nat /\ open \in Nat
        BY <2>9, <2>12, <3>1
      <4>. QED BY <4>1
    <3>3. PICK f \in Firsts : f >= n /\ published[f].t = published[n].t
      BY <2>9, <2>12, <3>1, <3>2
    <3>4. CASE f > len
      BY <2>8, <2>11, <2>12, <2>16, <3>1, <3>3, <3>4, SameOpening
    <3>5. CASE ~(f > len)
      <4>1. f \in 1..len /\ IsKlineOf(published[f], symbol)
        <5>1. f \in P /\ f \in Int
          BY <2>11
        <5>. QED BY <2>3, <2>6, <2>11, <3>5, <5>1 DEF P
      <4>2. f = n
        BY <2>11, <2>12, <3>1, <3>3, <4>1
      <4>3. FromRow(published[n]) = IntoKline(published[f])
        BY <2>13, <4>2, FromFinalRow
      <4>. QED BY <2>16, <4>3
    <3>. QED BY <3>4, <3>5
  <2>17. ASSUME NEW k \in Merged
         PROVE  \E n \in P : /\ IsKlineOf(published[n], symbol)
                             /\ k.open_time = MsToNs(published[n].t)
    <3>1. CASE k \in live
      <4>1. PICK g \in Firsts : k = IntoKline(published[g])
        BY <2>7, <3>1
      <4>. QED BY <2>11, <4>1, SameOpening
    <3>2. CASE k \in ToSet(rows)
      <4>1. PICK n \in A : k = FromRow(published[n])
        BY <2>4, <3>2
      <4>. QED BY <2>12, <4>1, SameOpening
    <3>. QED BY <2>2, <3>1, <3>2
  <2>18. ASSUME NEW k \in Merged, k \notin finals, NEW other \in Merged
         PROVE  other.open_time <= k.open_time
    <3>1. k \in ToSet(rows) /\ \A o \in live : o.open_time # k.open_time
      <4>1. k \notin live
        BY <2>7, <2>18
      <4>. QED BY <2>2, <4>1
    <3>2. PICK n \in A : k = FromRow(published[n])
      BY <2>4, <3>1
    <3>3. published[n].t = open /\ k.open_time = MsToNs(open) /\ open \in Nat
      BY <2>9, <2>12, <2>16, <2>18, <3>1, <3>2, SameOpening
    <3>4. PICK m \in P : /\ IsKlineOf(published[m], symbol)
                         /\ other.open_time = MsToNs(published[m].t)
      BY <2>17
    <3>5. published[m].t <= open /\ published[m].t \in Nat
      BY <2>9, <3>4
    <3>. QED BY <3>3, <3>4, <3>5 DEF MsToNs
  <2>19. \A k \in finals : k.open_time >= Head(rows).open_time => k \in Merged
    BY <2>15
  <2>20. \A k \in Merged \ finals : \A other \in Merged : other.open_time <= k.open_time
    BY <2>18
  <2> HIDE DEF finals
  <2>. QED BY <2>1, <2>19, <2>20 DEF symbol, rows
<1>. QED BY <1>1, InvariantHolds, PTL

\* What is read of a payload has its time and is of its stream.
LEMMA EventIs ==
  ASSUME NEW p, ParseEvent(p) # None
  PROVE  LET event == ParseEvent(p)[1]
         IN  /\ p.e \in Told
             /\ EventTs(event) = MsToNs(TimeOf(p))
             /\ \A stream \in Streams :
                  IsOf(stream, event) <=> stream.e = p.e /\ stream.s = p.s
             /\ event.type = "bar_closed" =>
                  /\ p.e = "kline"
                  /\ event.kline.symbol = p.s /\ event.kline.open_time = MsToNs(p.t)
             /\ event.type = "tick" => EventTs(event) = event.tick.ts_event
<1>1. p.e \in Told
  BY DEF ParseEvent, Told
<1>2. CASE p.e = "kline"
  <2> DEFINE k == IntoKline(p)
             e == [type |-> IF p.x THEN "bar_closed" ELSE "kline", kline |-> k]
  <2>1. ParseEvent(p) = <<e>>
    BY <1>2 DEF ParseEvent, Some
  <2>2. k.close_time = MsToNs(p.T) /\ k.symbol = p.s /\ k.open_time = MsToNs(p.t)
    BY DEF IntoKline
  <2>3. e.type \in {"kline", "bar_closed"} /\ e.kline = k
    OBVIOUS
  <2>4. TimeOf(p) = p.T
    BY <1>2 DEF TimeOf
  <2> HIDE DEF k, e
  <2>5. EventTs(e) = MsToNs(p.T)
    BY <2>2, <2>3 DEF EventTs
  <2>6. \A stream \in Streams : IsOf(stream, e) <=> stream.e = "kline" /\ stream.s = p.s
    BY <2>2, <2>3, StreamsAssumption DEF IsOf
  <2>7. ParseEvent(p)[1] = e /\ e.type # "tick"
    BY <2>1, <2>3
  <2>. QED BY <1>1, <1>2, <2>2, <2>3, <2>4, <2>5, <2>6, <2>7
<1>3. CASE p.e = "aggTrade"
  <2> DEFINE tick == IntoTick(p)
             e == [type |-> "tick", tick |-> tick]
  <2>1. ParseEvent(p) = <<e>>
    BY <1>3 DEF ParseEvent, Some
  <2>2. tick.ts_event = MsToNs(p.T) /\ tick.symbol = p.s
    BY DEF IntoTick
  <2>3. e.type = "tick" /\ e.tick = tick
    OBVIOUS
  <2>4. TimeOf(p) = p.T
    BY <1>3 DEF TimeOf
  <2> HIDE DEF tick, e
  <2>5. EventTs(e) = tick.ts_event
    BY <2>3 DEF EventTs
  <2>6. \A stream \in Streams : IsOf(stream, e) <=> stream.e = "aggTrade" /\ stream.s = p.s
    BY <2>2, <2>3, StreamsAssumption DEF IsOf
  <2>7. ParseEvent(p)[1] = e
    BY <2>1
  <2>. QED BY <1>1, <1>3, <2>2, <2>3, <2>4, <2>5, <2>6, <2>7
<1>4. CASE p.e = "bookTicker"
  <2> DEFINE quote == IntoBookTicker(p)
             e == [type |-> "book_ticker", book_ticker |-> quote]
  <2>1. ParseEvent(p) = <<e>>
    BY <1>4 DEF ParseEvent, Some
  <2>2. quote.ts_event = MsToNs(TimeOf(p)) /\ quote.symbol = p.s
    BY <1>4 DEF IntoBookTicker, TimeOf
  <2>3. e.type = "book_ticker" /\ e.book_ticker = quote
    OBVIOUS
  <2> HIDE DEF quote, e
  <2>4. EventTs(e) = quote.ts_event
    BY <2>3 DEF EventTs
  <2>5. \A stream \in Streams : IsOf(stream, e) <=> stream.e = "bookTicker" /\ stream.s = p.s
    BY <2>2, <2>3, StreamsAssumption DEF IsOf
  <2>6. ParseEvent(p)[1] = e
    BY <2>1
  <2>. QED BY <1>1, <1>4, <2>2, <2>3, <2>4, <2>5, <2>6
<1>. QED BY <1>1, <1>2, <1>3, <1>4 DEF Told

\* A replay of everything that was received, sorted by its times, keeps the
\* order of each stream, and gives every closed bar after its symbol's trades
\* of before the bar's last moment and before those of after its end, however
\* early or late the exchange dates the trades.
THEOREM ReplayCorrectness == Spec => []ReplayKeepsOrder
<1>1. IInv => ReplayKeepsOrder
  <2> SUFFICES ASSUME IInv PROVE ReplayKeepsOrder
    OBVIOUS
  <2> DEFINE R == 1..Len(received)
             readable == {n \in R : received[n].event # None}
             events == [n \in R |-> received[n].event[1]]
             given == Chosen(events, readable)
             c == Cardinality(readable)
             S == {events[n] : n \in readable}
             payload(n) == published[received[n].item]
  <2>1. Len(received) \in Nat
    BY LenProperties DEF IInv, FeedInv, IsSeq
  <2>2. readable \in SUBSET Int /\ IsFiniteSet(readable)
    <3>1. readable \in SUBSET R /\ R \in SUBSET Int /\ IsFiniteSet(R)
      BY <2>1, FS_Interval
    <3> HIDE DEF readable, R
    <3>2. IsFiniteSet(readable)
      BY <3>1, FS_Subset
    <3>. QED BY <3>1, <3>2
  <2>3. ASSUME NEW n \in readable
        PROVE  /\ n \in R /\ received[n].item \in 1..Len(published)
               /\ ParseEvent(payload(n)) # None /\ events[n] = ParseEvent(payload(n))[1]
    BY DEF IInv, ReadInOrder
  <2> HIDE DEF readable, events
  <2>4. ASSUME NEW n \in readable
        PROVE  /\ payload(n).e \in Told /\ TimeOf(payload(n)) \in Nat
               /\ EventTs(events[n]) = MsToNs(TimeOf(payload(n)))
    <3>1. payload(n).e \in Told /\ EventTs(events[n]) = MsToNs(TimeOf(payload(n)))
      BY <2>3, EventIs
    <3>2. received[n].item \in 1..Len(published)
      BY <2>3
    <3>3. TimeOf(payload(n)) \in Nat
      BY <3>1, <3>2, TimeIs DEF IInv
    <3>. QED BY <3>1, <3>3
  <2>5. ASSUME NEW stream \in Streams, NEW n \in readable
        PROVE  IsOf(stream, events[n]) <=> stream.e = payload(n).e /\ stream.s = payload(n).s
    BY <2>3, EventIs
  <2>6. ASSUME NEW stream \in Streams, NEW m \in readable, NEW n \in readable, m < n,
               IsOf(stream, events[m]), IsOf(stream, events[n])
        PROVE  EventTs(events[m]) <= EventTs(events[n])
    <3> DEFINE i == received[m].item
               j == received[n].item
    <3>1. /\ i \in 1..Len(published) /\ j \in 1..Len(published)
          /\ m \in R /\ n \in R
      BY <2>3
    <3>2. i < j
      BY <2>6, <3>1 DEF IInv, ReadInOrder
    <3>3. /\ published[i].e = published[j].e /\ published[i].s = published[j].s
          /\ published[j].e \in Told
      BY <2>4, <2>5, <2>6
    <3> HIDE DEF i, j
    <3>4. TimeOf(published[i]) <= TimeOf(published[j])
      BY <3>1, <3>2, <3>3, StreamTimes DEF IInv
    <3>5. TimeOf(payload(m)) <= TimeOf(payload(n))
      BY <3>4 DEF i, j
    <3>. QED BY <2>4, <3>5 DEF MsToNs
  <2>7. \A n \in readable : EventTs(events[n]) \in Int
    BY <2>4 DEF MsToNs
  <2>8. PICK place \in Bijection(1..c, readable) :
          /\ \A k, l \in 1..c : k < l => place[k] < place[l]
          /\ \A k \in 1..c : given[k] = events[place[k]]
    BY <2>2, ChosenIs
  <2>9. c \in Nat /\ given = [k \in 1..c |-> given[k]]
    BY <2>2, ChosenIs
  <2>10. \A k \in 1..c : place[k] \in readable
    <3> DEFINE E == 1..c
    <3>1. place \in Bijection(E, readable)
      OBVIOUS
    <3> HIDE DEF E
    <3>2. place \in [E -> readable]
      BY <3>1, Fun_BijectionProperties
    <3>. QED BY <3>2 DEF E
  <2>11. given \in Seq(S) /\ Len(given) = c
    <3>1. \A k \in 1..c : given[k] \in S
      BY <2>8, <2>10
    <3> HIDE DEF given, S, c
    <3>2. given \in Seq(S)
      BY <2>9, <3>1, IsASeq
    <3>. QED BY <2>9, <3>2, LenProperties
  <2> HIDE DEF given, c
  <2>12. \A n \in 1..Len(given) : EventTs(given[n]) \in Int
    BY <2>7, <2>8, <2>10, <2>11
  <2> DEFINE replay == StableSort(given)
  <2>13. replay \in Seq(S) /\ Len(replay) = Len(given)
    <3> HIDE DEF S
    <3>. QED BY <2>11, <2>12, StableSortProperties
  <2>14. /\ \A n \in 1..Len(replay) : EventTs(replay[n]) \in Int
         /\ \A m, n \in 1..Len(replay) :
              m <= n => EventTs(replay[m]) <= EventTs(replay[n])
    <3> HIDE DEF S
    <3>1. /\ \A n \in 1..Len(given) : EventTs(StableSort(given)[n]) \in Int
          /\ \A m, n \in 1..Len(given) :
               m <= n => EventTs(StableSort(given)[m]) <= EventTs(StableSort(given)[n])
      BY <2>11, <2>12, StableSortOrders
    <3>. QED BY <2>13, <3>1
  <2> HIDE DEF replay
  <2>15. ASSUME NEW stream \in Streams
         PROVE  Chosen(replay, {n \in 1..Len(replay) : IsOf(stream, replay[n])})
                  = Chosen(given, {n \in 1..Len(given) : IsOf(stream, given[n])})
    <3> HIDE DEF S
    <3> DEFINE class == {e \in S : IsOf(stream, e)}
    <3>1. ASSUME NEW m \in 1..Len(given), NEW n \in 1..Len(given),
                 m < n, given[m] \in class, given[n] \in class
          PROVE  EventTs(given[m]) <= EventTs(given[n])
      <4>1. /\ given[m] = events[place[m]] /\ given[n] = events[place[n]]
            /\ place[m] < place[n] /\ place[m] \in readable /\ place[n] \in readable
        BY <2>8, <2>10, <2>11, <3>1
      <4>2. IsOf(stream, events[place[m]]) /\ IsOf(stream, events[place[n]])
        BY <3>1, <4>1
      <4>. QED BY <2>6, <4>1, <4>2
    <3>2. \A n \in 1..Len(given) : given[n] \in class <=> IsOf(stream, given[n])
      BY <2>11, ElementOfSeq
    <3>3. \A n \in 1..Len(replay) : replay[n] \in class <=> IsOf(stream, replay[n])
      BY <2>13, ElementOfSeq
    <3> HIDE DEF class
    <3>4. Chosen(replay, {n \in 1..Len(replay) : replay[n] \in class})
            = Chosen(given, {n \in 1..Len(given) : given[n] \in class})
      BY ZenonT(60), <2>11, <2>12, <3>1, SortKeepsClass DEF replay
    <3>5. /\ {n \in 1..Len(given) : given[n] \in class}
               = {n \in 1..Len(given) : IsOf(stream, given[n])}
          /\ {n \in 1..Len(replay) : replay[n] \in class}
               = {n \in 1..Len(replay) : IsOf(stream, replay[n])}
      BY <3>2, <3>3
    <3>. QED BY <3>4, <3>5
  <2>16. ASSUME NEW k \in 1..Len(replay)
         PROVE  \E n \in readable : replay[k] = events[n]
    <3>1. replay[k] \in S
      <4> HIDE DEF S
      <4>. QED BY <2>13, ElementOfSeq
    <3>. QED BY <3>1
  <2>17. ASSUME NEW m \in 1..Len(replay), NEW n \in 1..Len(replay),
                replay[m].type = "bar_closed", replay[n].type = "tick"
         PROVE  LET opens == replay[m].kline.open_time
                    time  == replay[n].tick.ts_event
                IN  /\ time < opens + MsToNs(BarMs - 1) => n < m
                    /\ time >= opens + MsToNs(BarMs) => m < n
    <3>1. PICK i \in readable : replay[m] = events[i]
      BY <2>16
    <3>2. PICK j \in readable : replay[n] = events[j]
      BY <2>16
    <3>3. /\ payload(i).e = "kline"
          /\ replay[m].kline.open_time = MsToNs(payload(i).t)
          /\ EventTs(replay[m]) = MsToNs(TimeOf(payload(i)))
      BY <2>3, <2>17, <3>1, EventIs
    <3>4. replay[n].tick.ts_event = EventTs(replay[n])
      BY <2>3, <2>17, <3>2, EventIs
    <3>5. payload(i).t \in Nat /\ payload(i).T = payload(i).t + BarMs - 1
      BY <2>3, <3>3 DEF IInv, KlinesInOrder, KlineFits
    <3>6. TimeOf(payload(i)) = payload(i).t + BarMs - 1
      BY <3>3, <3>5 DEF TimeOf
    <3> DEFINE t == payload(i).t
               time == EventTs(replay[n])
    <3>7. /\ EventTs(replay[m]) = MsToNs(t + BarMs - 1) /\ t \in Nat /\ time \in Int
          /\ replay[m].kline.open_time = MsToNs(t) /\ replay[n].tick.ts_event = time
      BY <2>14, <3>3, <3>4, <3>5, <3>6
    <3> HIDE DEF t, time
    <3>8. /\ MsToNs(t + BarMs - 1) = MsToNs(t) + MsToNs(BarMs - 1)
          /\ MsToNs(t + BarMs - 1) < MsToNs(t) + MsToNs(BarMs)
          /\ MsToNs(t) \in Int /\ MsToNs(BarMs) \in Int /\ MsToNs(BarMs - 1) \in Int
      BY <3>7 DEF MsToNs, BarMs
    <3>9. m <= n => EventTs(replay[m]) <= time
      BY <2>14 DEF time
    <3>10. n <= m => time <= EventTs(replay[m])
      BY <2>14 DEF time
    <3>11. m \in Int /\ n \in Int
      OBVIOUS
    <3>. QED BY <3>7, <3>8, <3>9, <3>10, <3>11
  <2>. QED BY <2>15, <2>17 DEF ReplayKeepsOrder, given, replay, events, readable
<1>. QED BY <1>1, InvariantHolds, PTL
=============================================================================
