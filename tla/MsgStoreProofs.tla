--------------------------- MODULE MsgStoreProofs ---------------------------
(***************************************************************************)
(* MsgStore: the store is a LogFeed and loses messages in no other way     *)
(* than those named, for any number of producers, messages and listeners   *)
(* and any size of the history and of the channel.                         *)
(***************************************************************************)
EXTENDS MsgStore, SequenceTheorems, WellFoundedInduction, TLAPS

-----------------------------------------------------------------------------
(* The invariant.                                                          *)

\* The messages of one producer are in their order.
Ordered(s) == \A i, j \in DOMAIN s : i < j /\ s[i][1] = s[j][1] => s[i][2] < s[j][2]
\* The messages of S are older than those of T.
Older(S, T) == \A m \in S, o \in T : m[1] = o[1] => m[2] < o[2]
\* The messages sent before position n.
SentBefore(n) == {sent[i] : i \in {j \in DOMAIN sent : j < n}}

\* A producer has sent as many messages as it counted.
Counted ==
    /\ Ordered(sent)
    /\ \A p \in Producer : \A n \in 1 .. Amount[p] : <<p, n>> \in Elements(sent) <=> n <= count[p]

\* What is appended to the history was sent, later than the history of its producer.
Pushed ==
    /\ Ordered(history) /\ Elements(history) \subseteq Elements(sent)
    /\ \A p \in Producer \cup {End} : pushing[p] # None =>
        /\ pushing[p][1] = p /\ pushing[p] \in Elements(sent)
        /\ Older(Elements(history), {pushing[p]})

\* One closer removes the store from the map and announces the end.
Closing ==
    /\ registered => \A c \in Closer : closer[c] = "idle"
    /\ \A c, d \in Closer : closer[c] \in {"finish", "append"} /\ closer[d] \in {"finish", "append"}
        => c = d
    /\ (registered \/ \E c \in Closer : closer[c] = "finish") <=> Finished \notin Elements(sent)

\* What a listener has and what it will read from the copied history is older than
\* what it will read from the channel, and nothing before that is unaccounted for.
Copied(l) ==
    /\ seen[l] <= Len(sent)
    /\ Elements(buf[l]) \subseteq SentBefore(seen[l] + 1)
    /\ SentBefore(seen[l] + 1) \subseteq Elements(buf[l]) \cup gone[l]
Live(l) ==
    /\ pos[l] \in 1 .. Len(sent) + 1
    /\ Elements(got[l]) \cup Elements(buf[l]) \subseteq SentBefore(pos[l])
    /\ SentBefore(pos[l]) \subseteq Elements(got[l]) \cup Elements(buf[l]) \cup gone[l]
Replayed(l) ==
    /\ l # Writer /\ Finished \in Elements(sent)
    /\ Elements(buf[l]) \subseteq Elements(sent)
    /\ settled \subseteq Elements(got[l]) \cup Elements(buf[l]) \cup gone[l]
\* A listener at its end has everything, or was never given the log.
Through(l) ==
    \/ got[l] = <<>>
    \/ Finished \in Elements(sent) /\ settled \subseteq Elements(got[l]) \cup gone[l]
Follows(l) ==
    /\ at[l] \in {"off", "found"} => buf[l] = <<>>
    /\ at[l] \in {"off", "found", "gap"} => got[l] = <<>>
    /\ at[l] = "gap" => Copied(l)
    /\ at[l] = "live" => Live(l)
    /\ at[l] = "replay" => Replayed(l)
    /\ at[l] = "done" => Through(l)
    /\ Ordered(got[l]) /\ Elements(got[l]) \subseteq Elements(sent)
    /\ at[l] # "done" => Ordered(buf[l]) /\ Older(Elements(got[l]), Elements(buf[l]))
Following == \A l \in Listener : Follows(l)

\* The log file has the messages of the forwarder that the writer received, in order.
Written ==
    /\ Ordered(file)
    /\ Elements(file) = {m \in Elements(got[Writer]) : m[1] = Forwarder}

\* What was pushed completely before Finished was sent comes before Finished, in the
\* channel, in the history and in its copies.
EndsLast(s) == \A i, j \in DOMAIN s : i < j /\ s[i] = Finished => s[j] \notin settled
Ending ==
    /\ Finished \notin Elements(sent) => settled = {}
    /\ \A i \in DOMAIN sent : sent[i] = Finished => settled \subseteq SentBefore(i)
    /\ \A p \in Producer : pushing[p] \notin settled
    /\ EndsLast(history)
    /\ \A l \in Listener : at[l] # "done" => EndsLast(buf[l])

FeedInv == Counted /\ Pushed /\ Closing /\ Following /\ Written
StoreInv == TypeOK /\ HistoryBounded /\ FeedInv /\ Ending /\ NothingElseLost
-----------------------------------------------------------------------------
(* Messages and sequences of them.                                         *)

\* A message is a producer and a number, or Finished.
LEMMA MessageFacts ==
    /\ \A p \in Producer : \A n \in 1 .. Amount[p] : <<p, n>> \in Message
    /\ Finished \in Message
    /\ \A m \in Message : /\ m = <<m[1], m[2]>> /\ m[1] \in Producer \cup {End} /\ m[2] \in Nat
                          /\ m[1] \in Producer => m[2] \in 1 .. Amount[m[1]]
                          /\ m[1] = End => m = Finished
<1>1. \A p \in Producer : Amount[p] \in Nat
  BY StoreAssumption
<1> DEFINE Of(p) == {p} \X (1 .. Amount[p])
           All == {Of(p) : p \in Producer}
<1>2. Message = (UNION All) \cup {Finished}
  BY DEF Message
<1>3. ASSUME NEW p \in Producer, NEW m
      PROVE  m \in Of(p) <=> m = <<m[1], m[2]>> /\ m[1] = p /\ m[2] \in 1 .. Amount[p]
  OBVIOUS
<1> HIDE DEF Of
<1>4. \A p \in Producer : Of(p) \subseteq Message
  BY <1>2
<1>5. \A p \in Producer : \A n \in 1 .. Amount[p] : <<p, n>> \in Message
  BY <1>3, <1>4
<1>6. ASSUME NEW m \in Message
      PROVE  /\ m = <<m[1], m[2]>> /\ m[1] \in Producer \cup {End} /\ m[2] \in Nat
             /\ m[1] \in Producer => m[2] \in 1 .. Amount[m[1]]
             /\ m[1] = End => m = Finished
  <2>1. CASE m = Finished
    BY <2>1, StoreAssumption DEF Finished
  <2>2. CASE m # Finished
    <3>1. PICK p \in Producer : m \in Of(p)
      BY <1>2, <2>2
    <3> QED BY <1>1, <1>3, <3>1, StoreAssumption
  <2> QED BY <2>1, <2>2
<1> QED BY <1>2, <1>5, <1>6

\* What appending a message adds.
LEMMA AppendFacts ==
    ASSUME NEW s \in Seq(Message), NEW m \in Message
    PROVE  /\ Append(s, m) \in Seq(Message)
           /\ Elements(Append(s, m)) = Elements(s) \cup {m}
           /\ Ordered(s) /\ Older(Elements(s), {m}) => Ordered(Append(s, m))
           /\ EndsLast(s) /\ m \notin settled => EndsLast(Append(s, m))
           /\ EndsLast(s) /\ Finished \notin Elements(s) => EndsLast(Append(s, m))
<1>1. /\ Append(s, m) \in Seq(Message) /\ DOMAIN s = 1 .. Len(s) /\ Len(s) \in Nat
      /\ DOMAIN Append(s, m) = 1 .. Len(s) + 1
      /\ \A i \in 1 .. Len(s) : Append(s, m)[i] = s[i]
      /\ Append(s, m)[Len(s) + 1] = m
  OBVIOUS
<1>2. Elements(Append(s, m)) = Elements(s) \cup {m}
  BY <1>1 DEF Elements
<1>3. Ordered(s) /\ Older(Elements(s), {m}) => Ordered(Append(s, m))
  BY <1>1 DEF Ordered, Older, Elements
<1>4. EndsLast(s) /\ (m \notin settled \/ Finished \notin Elements(s)) => EndsLast(Append(s, m))
  BY <1>1 DEF EndsLast, Elements
<1> QED BY <1>1, <1>2, <1>3, <1>4

\* What is left when the front is dropped.
LEMMA DropFacts ==
    ASSUME NEW s \in Seq(Message), NEW k \in 0 .. Len(s)
    PROVE  LET t == SubSeq(s, k + 1, Len(s)) IN
           /\ t \in Seq(Message) /\ Len(t) = Len(s) - k
           /\ \A i \in 1 .. Len(t) : t[i] = s[k + i]
           /\ Elements(t) \subseteq Elements(s)
           /\ Ordered(s) => Ordered(t)
           /\ EndsLast(s) => EndsLast(t)
<1> DEFINE t == SubSeq(s, k + 1, Len(s))
<1>1. /\ t \in Seq(Message) /\ Len(s) \in Nat /\ Len(t) = Len(s) - k
      /\ DOMAIN s = 1 .. Len(s) /\ DOMAIN t = 1 .. Len(t)
      /\ \A i \in 1 .. Len(t) : t[i] = s[k + i]
  OBVIOUS
<1> HIDE DEF t
<1>2. \A i \in DOMAIN t : k + i \in DOMAIN s
  BY <1>1
<1>3. Elements(t) \subseteq Elements(s)
  BY <1>1, <1>2 DEF Elements
<1>4. Ordered(s) => Ordered(t)
  <2> SUFFICES ASSUME Ordered(s), NEW i \in DOMAIN t, NEW j \in DOMAIN t, i < j, t[i][1] = t[j][1]
               PROVE  t[i][2] < t[j][2]
    BY DEF Ordered
  <2>1. t[i] = s[k + i] /\ t[j] = s[k + j]
    BY <1>1
  <2>2. k + i < k + j
    <3>1. k \in Int /\ i \in Int /\ j \in Int
      BY <1>1
    <3> QED BY <3>1
  <2> QED BY <1>2, <2>1, <2>2 DEF Ordered
<1>5. EndsLast(s) => EndsLast(t)
  BY <1>1, <1>2 DEF EndsLast
<1> QED BY <1>1, <1>3, <1>4, <1>5 DEF t

\* The first message and the others.
LEMMA TailFacts ==
    ASSUME NEW s \in Seq(Message), s # <<>>
    PROVE  /\ Head(s) \in Message /\ Tail(s) \in Seq(Message)
           /\ Elements(s) = {Head(s)} \cup Elements(Tail(s))
           /\ Ordered(s) => Ordered(Tail(s)) /\ Older({Head(s)}, Elements(Tail(s)))
           /\ EndsLast(s) => EndsLast(Tail(s))
           /\ EndsLast(s) /\ Head(s) = Finished => Elements(Tail(s)) \cap settled = {}
<1>1. /\ Head(s) = s[1] /\ Head(s) \in Message /\ Tail(s) \in Seq(Message)
      /\ Len(s) \in Nat \ {0} /\ Len(Tail(s)) = Len(s) - 1
      /\ DOMAIN s = 1 .. Len(s) /\ DOMAIN Tail(s) = 1 .. Len(s) - 1
      /\ \A i \in 1 .. Len(s) - 1 : Tail(s)[i] = s[i + 1]
  BY HeadTailProperties
<1>2. \A i \in DOMAIN s : i = 1 \/ (i - 1 \in DOMAIN Tail(s) /\ s[i] = Tail(s)[i - 1])
  BY <1>1
<1>3. Elements(s) = {Head(s)} \cup Elements(Tail(s))
  <2>1. Elements(s) \subseteq {Head(s)} \cup Elements(Tail(s))
    <3> SUFFICES ASSUME NEW i \in DOMAIN s PROVE s[i] \in {Head(s)} \cup Elements(Tail(s))
      BY DEF Elements
    <3> QED BY <1>1, <1>2 DEF Elements
  <2>2. \A i \in DOMAIN Tail(s) : i + 1 \in DOMAIN s /\ Tail(s)[i] = s[i + 1]
    BY <1>1
  <2>3. {Head(s)} \cup Elements(Tail(s)) \subseteq Elements(s)
    BY <1>1, <2>2 DEF Elements
  <2> QED BY <2>1, <2>3
<1>4. Ordered(s) => Ordered(Tail(s)) /\ Older({Head(s)}, Elements(Tail(s)))
  <2> SUFFICES ASSUME Ordered(s) PROVE Ordered(Tail(s)) /\ Older({Head(s)}, Elements(Tail(s)))
    OBVIOUS
  <2>1. \A i \in DOMAIN Tail(s) : /\ i + 1 \in DOMAIN s /\ 1 < i + 1 /\ Tail(s)[i] = s[i + 1]
                                 /\ \A j \in DOMAIN Tail(s) : i < j => i + 1 < j + 1
    BY <1>1
  <2>2. Ordered(Tail(s))
    BY <2>1 DEF Ordered
  <2>3. 1 \in DOMAIN s
    BY <1>1
  <2>4. \A i \in DOMAIN Tail(s) : Head(s)[1] = Tail(s)[i][1] => Head(s)[2] < Tail(s)[i][2]
    BY <1>1, <2>1, <2>3 DEF Ordered
  <2> QED BY <2>2, <2>4 DEF Older, Elements
<1>5. EndsLast(s) => EndsLast(Tail(s))
  BY <1>1 DEF EndsLast
<1>6. EndsLast(s) /\ Head(s) = Finished => Elements(Tail(s)) \cap settled = {}
  BY <1>1 DEF EndsLast, Elements
<1> QED BY <1>1, <1>3, <1>4, <1>5, <1>6

\* A part of a sequence of messages has messages.
LEMMA PartFacts ==
    ASSUME NEW s \in Seq(Message), NEW a \in Nat \ {0}, NEW b \in Nat, b <= Len(s)
    PROVE  Elements(SubSeq(s, a, b)) \subseteq Message
<1>1. \A i \in a .. b : s[i] \in Message
  OBVIOUS
<1>2. SubSeq(s, a, b) \in Seq(Message)
  BY <1>1, SubSeqProperties
<1> QED BY <1>2 DEF Elements

\* There is nothing in the empty sequence.
LEMMA EmptyFacts ==
    <<>> \in Seq(Message) /\ Elements(<<>>) = {} /\ Ordered(<<>>) /\ EndsLast(<<>>)
BY DEF Elements, Ordered, EndsLast

\* What was sent before a position of the channel is older than what is there, and
\* grows as the position does.
LEMMA SentFacts ==
    ASSUME sent \in Seq(Message)
    PROVE  /\ SentBefore(1) = {} /\ SentBefore(Len(sent) + 1) = Elements(sent)
           /\ \A n \in Nat : SentBefore(n) \subseteq Elements(sent)
           /\ \A n \in 1 .. Len(sent) : /\ sent[n] \in Message /\ sent[n] \in Elements(sent)
                                        /\ SentBefore(n + 1) = SentBefore(n) \cup {sent[n]}
                                        /\ Ordered(sent) => Older(SentBefore(n), {sent[n]})
           /\ \A n, k \in Nat : n <= k /\ k <= Len(sent) =>
                SentBefore(k + 1) = SentBefore(n + 1) \cup Elements(SubSeq(sent, n + 1, k))
<1>1. DOMAIN sent = 1 .. Len(sent) /\ Len(sent) \in Nat
  OBVIOUS
<1>2. SentBefore(1) = {} /\ SentBefore(Len(sent) + 1) = Elements(sent)
  BY <1>1 DEF SentBefore, Elements
<1>3. \A n \in Nat : SentBefore(n) \subseteq Elements(sent)
  BY DEF SentBefore, Elements
<1>4. ASSUME NEW n \in 1 .. Len(sent)
      PROVE  /\ sent[n] \in Message /\ sent[n] \in Elements(sent)
             /\ SentBefore(n + 1) = SentBefore(n) \cup {sent[n]}
             /\ Ordered(sent) => Older(SentBefore(n), {sent[n]})
  <2>1. sent[n] \in Message /\ sent[n] \in Elements(sent)
    BY <1>1 DEF Elements
  <2>2. SentBefore(n + 1) = SentBefore(n) \cup {sent[n]}
    <3>1. \A i \in DOMAIN sent : i < n + 1 <=> i < n \/ i = n
      BY <1>1
    <3> QED BY <1>1, <3>1 DEF SentBefore
  <2>3. Ordered(sent) => Older(SentBefore(n), {sent[n]})
    BY <1>1 DEF SentBefore, Older, Ordered
  <2> QED BY <2>1, <2>2, <2>3
<1>5. ASSUME NEW n \in Nat, NEW k \in Nat, n <= k, k <= Len(sent)
      PROVE  SentBefore(k + 1) = SentBefore(n + 1) \cup Elements(SubSeq(sent, n + 1, k))
  <2> DEFINE t == SubSeq(sent, n + 1, k)
  <2>1. DOMAIN t = 1 .. k - n /\ \A i \in 1 .. k - n : t[i] = sent[n + i]
    BY <1>5
  <2> HIDE DEF t
  <2>2. \A i \in DOMAIN sent : n < i /\ i < k + 1 => i - n \in DOMAIN t /\ t[i - n] = sent[i]
    BY <1>1, <1>5, <2>1
  <2>3. \A i \in DOMAIN t : n + i \in DOMAIN sent /\ n + i < k + 1 /\ t[i] = sent[n + i]
    BY <1>1, <1>5, <2>1
  <2>4. SentBefore(k + 1) \subseteq SentBefore(n + 1) \cup Elements(t)
    BY <1>1, <2>2 DEF SentBefore, Elements
  <2>5. SentBefore(n + 1) \cup Elements(t) \subseteq SentBefore(k + 1)
    BY <1>1, <1>5, <2>3 DEF SentBefore, Elements
  <2> QED BY <2>4, <2>5 DEF t
<1> QED BY <1>2, <1>3, <1>4, <1>5

\* Sending one more message leaves what was sent before.
LEMMA SendFacts ==
    ASSUME sent \in Seq(Message), NEW m \in Message, sent' = Append(sent, m)
    PROVE  /\ Elements(sent') = Elements(sent) \cup {m}
           /\ Len(sent') = Len(sent) + 1 /\ sent'[Len(sent) + 1] = m
           /\ \A i \in 1 .. Len(sent) : sent'[i] = sent[i]
           /\ \A n \in 0 .. Len(sent) + 1 : SentBefore(n)' = SentBefore(n)
<1>1. /\ Len(sent') = Len(sent) + 1 /\ sent'[Len(sent) + 1] = m
      /\ DOMAIN sent = 1 .. Len(sent) /\ DOMAIN sent' = 1 .. Len(sent) + 1
      /\ \A i \in 1 .. Len(sent) : sent'[i] = sent[i]
      /\ Len(sent) \in Nat
  OBVIOUS
<1>2. ASSUME NEW n \in 0 .. Len(sent) + 1 PROVE SentBefore(n)' = SentBefore(n)
  <2>1. {j \in DOMAIN sent' : j < n} = {j \in DOMAIN sent : j < n}
    BY <1>1
  <2>2. \A i \in {j \in DOMAIN sent : j < n} : sent'[i] = sent[i]
    BY <1>1
  <2> QED BY <2>1, <2>2 DEF SentBefore
<1> QED BY <1>1, <1>2, AppendFacts
-----------------------------------------------------------------------------
(* What Bytes computes, by induction over sets of numbers.                 *)

\* A set of numbers that has 0 and each successor has all numbers.
LEMMA SetInduction ==
    ASSUME NEW S \in SUBSET Nat, 0 \in S, \A n \in S : n + 1 \in S
    PROVE  S = Nat
<1> SUFFICES ASSUME Nat \ S # {} PROVE FALSE
  OBVIOUS
<1>1. PICK x \in Nat \ S : \A y \in Nat \ S : ~(<<y, x>> \in OpToRel(<, Nat))
  BY NatLessThanWellFounded, WFMin, Zenon
<1>2. \A y \in Nat \ S : ~(y < x)
  BY <1>1 DEF OpToRel
<1>3. x \in Nat /\ x # 0 /\ x \notin S
  OBVIOUS
<1>4. x - 1 \in Nat /\ x - 1 < x /\ (x - 1) + 1 = x
  BY <1>3
<1>5. x - 1 \in S
  BY <1>2, <1>4
<1> QED BY <1>3, <1>4, <1>5

\* f sums up the bytes of h.
SumsUp(f, h) ==
    /\ f \in [0 .. Len(h) -> Nat] /\ f[0] = 0
    /\ \A i \in 1 .. Len(h) : f[i] = f[i - 1] + Size[h[i][1]]

\* A message has bytes.
LEMMA SizeFacts == \A m \in Message : Size[m[1]] \in Nat \ {0}
BY MessageFacts, StoreAssumption

\* There are such sums ...
LEMMA SumsExist ==
    ASSUME NEW h \in Seq(Message)
    PROVE  \E f : SumsUp(f, h)
<1> DEFINE Sums(f, n) == /\ f \in [0 .. n -> Nat] /\ f[0] = 0
                         /\ \A i \in 1 .. n : f[i] = f[i - 1] + Size[h[i][1]]
           S == {n \in Nat : n <= Len(h) => \E f : Sums(f, n)}
<1>1. 0 \in S
  <2>1. Sums([i \in 0 .. 0 |-> 0], 0)
    OBVIOUS
  <2> QED BY <2>1, Zenon
<1>2. ASSUME NEW n \in Nat, NEW f, n + 1 <= Len(h), Sums(f, n) PROVE \E g : Sums(g, n + 1)
  <2>1. Size[h[n + 1][1]] \in Nat
    BY <1>2, SizeFacts
  <2> DEFINE g == [i \in 0 .. n + 1 |-> IF i = n + 1 THEN f[n] + Size[h[n + 1][1]] ELSE f[i]]
  <2>2. g \in [0 .. n + 1 -> Nat] /\ g[0] = 0
    BY <1>2, <2>1
  <2>3. \A i \in 1 .. n + 1 : g[i] = g[i - 1] + Size[h[i][1]]
    BY <1>2
  <2> QED BY <2>2, <2>3
<1>3. S = Nat
  <2>1. S \subseteq Nat
    OBVIOUS
  <2>2. \A n \in S : n + 1 \in S
    <3> HIDE DEF Sums
    <3> QED BY <1>2
  <2> HIDE DEF S, Sums
  <2> QED BY <1>1, <2>1, <2>2, SetInduction
<1>4. \E f : Sums(f, Len(h))
  <2>1. Len(h) \in Nat /\ Len(h) <= Len(h)
    OBVIOUS
  <2> HIDE DEF Sums
  <2> QED BY <1>3, <2>1
<1>5. PICK f : Sums(f, Len(h))
  BY <1>4, Zenon
<1> QED BY <1>5, Zenon DEF SumsUp

\* ... only one kind ...
LEMMA SumsUnique ==
    ASSUME NEW h \in Seq(Message), NEW f, SumsUp(f, h), NEW g, SumsUp(g, h)
    PROVE  f = g
<1> DEFINE S == {n \in Nat : n <= Len(h) => f[n] = g[n]}
<1>1. 0 \in S
  BY DEF SumsUp
<1>2. ASSUME NEW n \in S PROVE n + 1 \in S
  BY DEF SumsUp
<1>3. S = Nat
  <2>1. S \subseteq Nat
    OBVIOUS
  <2> HIDE DEF S
  <2> QED BY <1>1, <1>2, <2>1, SetInduction
<1> QED BY <1>3 DEF SumsUp

\* ... and Bytes is the last of them.
LEMMA BytesSum ==
    ASSUME NEW h \in Seq(Message), NEW f, SumsUp(f, h)
    PROVE  Bytes(h) = f[Len(h)]
<1> DEFINE F(u) == [i \in 0 .. Len(h) |-> IF i = 0 THEN 0 ELSE u[i - 1] + Size[h[i][1]]]
           g == CHOOSE u : u = F(u)
<1>1. f = F(f)
  BY DEF SumsUp
<1>2. g = F(g)
  BY <1>1
<1>3. Bytes(h) = g[Len(h)]
  BY DEF Bytes
<1>4. SumsUp(g, h)
  <2> HIDE DEF g
  <2>1. /\ DOMAIN g = 0 .. Len(h) /\ g = [i \in 0 .. Len(h) |-> g[i]] /\ g[0] = 0
        /\ \A i \in 1 .. Len(h) : g[i] = g[i - 1] + Size[h[i][1]]
    BY <1>2
  <2> DEFINE S == {n \in Nat : n <= Len(h) => g[n] \in Nat}
  <2>2. 0 \in S
    BY <2>1
  <2>3. ASSUME NEW n \in S PROVE n + 1 \in S
    <3>1. n + 1 <= Len(h) => Size[h[n + 1][1]] \in Nat
      BY SizeFacts
    <3> QED BY <2>1, <3>1
  <2>4. S = Nat
    <3>1. S \subseteq Nat
      OBVIOUS
    <3> HIDE DEF S
    <3> QED BY <2>2, <2>3, <3>1, SetInduction
  <2>5. \A n \in 0 .. Len(h) : g[n] \in Nat
    BY <2>4
  <2> QED BY <2>1, <2>5 DEF SumsUp
<1> QED BY <1>3, <1>4, SumsUnique

\* Appending a message adds its bytes, and the bytes of a history are those of its
\* front and of what is left.
LEMMA BytesFacts ==
    ASSUME NEW h \in Seq(Message)
    PROVE  /\ Bytes(h) \in Nat
           /\ \A m \in Message : Bytes(Append(h, m)) = Bytes(h) + Size[m[1]]
           /\ \A k \in 0 .. Len(h) :
                Bytes(h) = Bytes(SubSeq(h, 1, k)) + Bytes(SubSeq(h, k + 1, Len(h)))
<1>1. PICK f : SumsUp(f, h)
  BY SumsExist
<1>2. Bytes(h) = f[Len(h)] /\ Bytes(h) \in Nat
  BY <1>1, BytesSum DEF SumsUp
<1>3. ASSUME NEW m \in Message PROVE Bytes(Append(h, m)) = Bytes(h) + Size[m[1]]
  <2> DEFINE n == Len(h)
             t == Append(h, m)
             g == [i \in 0 .. n + 1 |-> IF i = n + 1 THEN f[n] + Size[m[1]] ELSE f[i]]
  <2>1. /\ t \in Seq(Message) /\ Len(t) = n + 1 /\ n \in Nat /\ t[n + 1] = m
        /\ \A i \in 1 .. n : t[i] = h[i]
    OBVIOUS
  <2>2. Size[m[1]] \in Nat
    BY SizeFacts
  <2> HIDE DEF t
  <2>3. SumsUp(g, t)
    <3>1. f \in [0 .. n -> Nat] /\ f[0] = 0 /\ \A i \in 1 .. n : f[i] = f[i - 1] + Size[h[i][1]]
      BY <1>1 DEF SumsUp
    <3> HIDE DEF n
    <3>2. g \in [0 .. n + 1 -> Nat] /\ g[0] = 0
      BY <2>1, <2>2, <3>1
    <3>3. ASSUME NEW i \in 1 .. n + 1 PROVE g[i] = g[i - 1] + Size[t[i][1]]
      <4>1. CASE i = n + 1
        <5>1. i - 1 = n /\ n \in 0 .. n + 1 /\ n # n + 1 /\ t[i] = m
          BY <2>1, <4>1
        <5> QED BY <4>1, <5>1
      <4>2. CASE i # n + 1
        <5>1. i \in 1 .. n /\ i \in 0 .. n + 1 /\ i - 1 \in 0 .. n + 1 /\ i - 1 # n + 1
          BY <2>1, <4>2
        <5> QED BY <2>1, <3>1, <4>2, <5>1
      <4> QED BY <4>1, <4>2
    <3> HIDE DEF g
    <3> QED BY <2>1, <3>2, <3>3 DEF SumsUp
  <2> HIDE DEF n
  <2>4. Bytes(t) = g[n + 1]
    BY <2>1, <2>3, BytesSum
  <2> QED BY <1>2, <2>1, <2>4 DEF t, n
<1>4. ASSUME NEW k \in 0 .. Len(h)
      PROVE  Bytes(h) = Bytes(SubSeq(h, 1, k)) + Bytes(SubSeq(h, k + 1, Len(h)))
  <2> DEFINE front == SubSeq(h, 1, k)
             rest == SubSeq(h, k + 1, Len(h))
             u == [i \in 0 .. k |-> f[i]]
             v == [i \in 0 .. Len(h) - k |-> f[k + i] - f[k]]
  <2>1. front \in Seq(Message) /\ Len(front) = k /\ \A i \in 1 .. k : front[i] = h[i]
    OBVIOUS
  <2>2. /\ rest \in Seq(Message) /\ Len(rest) = Len(h) - k /\ Len(h) \in Nat
        /\ \A i \in 1 .. Len(h) - k : rest[i] = h[k + i]
    BY DropFacts
  <2> HIDE DEF front, rest
  <2>3. Bytes(front) = f[k]
    <3>0. \A i \in 0 .. k : i \in 0 .. Len(h)
      BY <2>2
    <3>1. \A i \in 0 .. k : u[i] = f[i] /\ f[i] \in Nat
      BY <1>1, <3>0 DEF SumsUp
    <3>2. \A i \in 1 .. k : i \in 0 .. k /\ i - 1 \in 0 .. k /\ i \in 1 .. Len(h)
      BY <2>2
    <3>3. u \in [0 .. k -> Nat] /\ u[0] = 0
      BY <1>1, <3>1 DEF SumsUp
    <3>4. ASSUME NEW i \in 1 .. k PROVE u[i] = u[i - 1] + Size[front[i][1]]
      BY <1>1, <2>1, <3>1, <3>2 DEF SumsUp
    <3>5. SumsUp(u, front)
      <4> HIDE DEF u
      <4> QED BY <2>1, <3>3, <3>4 DEF SumsUp
    <3> QED BY <2>1, <3>1, <3>5, BytesSum
  <2>4. Bytes(rest) = f[Len(h)] - f[k]
    <3>1. \A i \in 0 .. Len(h) - k : k + i \in 0 .. Len(h)
      BY <2>2
    <3>2. \A i \in 1 .. Len(h) - k : /\ k + i \in 1 .. Len(h) /\ k + (i - 1) = (k + i) - 1
                                     /\ Size[h[k + i][1]] \in Nat
      BY <2>2, SizeFacts
    <3>3. f[k] \in Nat /\ \A i \in 0 .. Len(h) : f[i] \in Nat
      BY <1>1 DEF SumsUp
    <3>4. v[0] = 0 /\ DOMAIN v = 0 .. Len(h) - k
      BY <2>2, <3>3
    <3>5. ASSUME NEW i \in 1 .. Len(h) - k
          PROVE  v[i] = v[i - 1] + Size[rest[i][1]]
      <4>1. f[k + i] = f[(k + i) - 1] + Size[h[k + i][1]]
        BY <1>1, <3>2 DEF SumsUp
      <4>2. v[i] = f[k + i] - f[k] /\ v[i - 1] = f[(k + i) - 1] - f[k]
        <5>1. i \in 0 .. Len(h) - k /\ i - 1 \in 0 .. Len(h) - k
          BY <2>2
        <5> QED BY <3>2, <5>1
      <4>3. f[(k + i) - 1] \in Nat /\ rest[i] = h[k + i]
        <5>1. (k + i) - 1 \in 0 .. Len(h)
          BY <2>2
        <5> QED BY <2>2, <3>3, <5>1
      <4> QED BY <3>2, <3>3, <4>1, <4>2, <4>3
    <3> DEFINE S == {n \in Nat : n <= Len(h) - k => v[n] \in Nat}
    <3>6. S = Nat
      <4> HIDE DEF v
      <4>1. 0 \in S
        BY <3>4
      <4>2. ASSUME NEW n \in S PROVE n + 1 \in S
        <5>1. n + 1 <= Len(h) - k => v[n + 1] = v[n] + Size[rest[n + 1][1]]
                                     /\ Size[rest[n + 1][1]] \in Nat
          <6> SUFFICES ASSUME n + 1 <= Len(h) - k
                       PROVE  /\ v[n + 1] = v[n] + Size[rest[n + 1][1]]
                              /\ Size[rest[n + 1][1]] \in Nat
            OBVIOUS
          <6>1. n + 1 \in 1 .. Len(h) - k /\ (n + 1) - 1 = n
            BY <2>2
          <6>2. rest[n + 1] \in Message
            BY <2>2, <6>1
          <6> QED BY <3>5, <6>1, <6>2, SizeFacts
        <5> QED BY <2>2, <5>1
      <4>3. S \subseteq Nat
        OBVIOUS
      <4> HIDE DEF S
      <4> QED BY <4>1, <4>2, <4>3, SetInduction
    <3>7. v \in [0 .. Len(h) - k -> Nat]
      <4>1. \A n \in 0 .. Len(h) - k : v[n] \in Nat
        <5> HIDE DEF v
        <5> QED BY <3>6, <2>2
      <4> QED BY <4>1
    <3>8. SumsUp(v, rest)
      <4> HIDE DEF v
      <4> QED BY <2>2, <3>4, <3>5, <3>7 DEF SumsUp
    <3>9. Bytes(rest) = v[Len(h) - k]
      BY <2>2, <3>8, BytesSum
    <3> QED BY <2>2, <3>9
  <2>5. f[k] \in Nat /\ f[Len(h)] \in Nat
    BY <1>1, <2>2 DEF SumsUp
  <2> QED BY <1>2, <2>3, <2>4, <2>5 DEF front, rest
<1> QED BY <1>2, <1>3, <1>4
-----------------------------------------------------------------------------
(* Types, and the bound of the history.                                    *)

\* What an append does to the history: a front goes, the message comes, and the
\* bytes are counted.
LEMMA AppendHistoryFacts ==
    ASSUME TypeOK, HistoryBounded, Pushed, NEW p \in Producer \cup {End}, AppendHistory(p)
    PROVE  /\ pushing[p] \in Message /\ pushing[p] # None
           /\ \E k \in 0 .. Len(history) :
                history' = Append(SubSeq(history, k + 1, Len(history)), pushing[p])
           /\ history' \in Seq(Message) /\ total' \in Nat /\ HistoryBounded'
           /\ pushing' \in [Producer \cup {End} -> Message \cup {None}]
<1>1. pushing[p] \in Message /\ pushing[p] # None /\ pushing[p][1] = p
  BY DEF AppendHistory, TypeOK, Pushed
<1>2. PICK k \in 0 .. Len(history) :
        /\ Evicts(Size[p], k)
        /\ history' = Append(SubSeq(history, k + 1, Len(history)), pushing[p])
        /\ total' = total - Bytes(Front(k)) + Size[p]
  BY DEF AppendHistory
<1> DEFINE kept == SubSeq(history, k + 1, Len(history))
<1>3. history \in Seq(Message) /\ Len(history) \in Nat /\ total = Bytes(history)
  BY DEF TypeOK, HistoryBounded
<1>4. kept \in Seq(Message) /\ Len(kept) = Len(history) - k
  BY <1>3, DropFacts
<1>5. Front(k) \in Seq(Message)
  BY <1>3 DEF Front
<1>6. Bytes(kept) \in Nat /\ Bytes(Front(k)) \in Nat
  BY <1>4, <1>5, BytesFacts
<1>7. Bytes(history) = Bytes(Front(k)) + Bytes(kept)
  BY <1>3, BytesFacts DEF Front
<1>8. Size[p] \in Nat
  BY <1>1, SizeFacts
<1> HIDE DEF kept
<1>9. history' \in Seq(Message) /\ Len(history') = Len(kept) + 1
  BY <1>1, <1>2, <1>4 DEF kept
<1>10. Bytes(history') = Bytes(kept) + Size[p]
  BY <1>1, <1>2, <1>4, BytesFacts DEF kept
<1>11. total' = Bytes(kept) + Size[p] /\ total' \in Nat
  BY <1>2, <1>3, <1>6, <1>7, <1>8
<1>12. total' <= HistoryBytes \/ Len(history') = 1
  BY <1>2, <1>3, <1>4, <1>9 DEF Evicts
<1>13. HistoryBounded'
  BY <1>10, <1>11, <1>12 DEF HistoryBounded
<1>14. pushing' \in [Producer \cup {End} -> Message \cup {None}]
  BY DEF AppendHistory, TypeOK
<1> QED BY <1>1, <1>2, <1>9, <1>11, <1>13, <1>14 DEF kept

\* The steps of producers and closers keep the types and the bound.
LEMMA PushType ==
    ASSUME TypeOK, HistoryBounded, Pushed,
           \/ \E p \in Producer : ProducerStep(p)
           \/ \E c \in Closer : CloserStep(c)
    PROVE  TypeOK' /\ HistoryBounded'
<1> USE DEF TypeOK
<1>1. ASSUME NEW p \in Producer, Send(p) PROVE TypeOK' /\ HistoryBounded'
  <2>1. count[p] + 1 \in 1 .. Amount[p]
    <3>1. Amount[p] \in Nat
      BY StoreAssumption
    <3>2. count[p] \in Nat /\ count[p] < Amount[p]
      BY <1>1 DEF Send
    <3> QED BY <3>1, <3>2
  <2>2. <<p, count[p] + 1>> \in Message
    BY <2>1, MessageFacts
  <2>3. sent' \in Seq(Message)
    BY <1>1, <2>2, AppendFacts DEF Send
  <2>4. count' \in [Producer -> Nat]
    BY <1>1 DEF Send
  <2>5. pushing' \in [Producer \cup {End} -> Message \cup {None}]
    BY <1>1, <2>2 DEF Send
  <2> QED BY <1>1, <2>3, <2>4, <2>5 DEF Send, stored, listeners, received, HistoryBounded
<1>2. ASSUME NEW p \in Producer, Store(p) PROVE TypeOK' /\ HistoryBounded'
  <2>1. /\ history' \in Seq(Message) /\ total' \in Nat /\ HistoryBounded'
        /\ pushing' \in [Producer \cup {End} -> Message \cup {None}]
    BY <1>2, AppendHistoryFacts DEF Store
  <2> QED BY <1>2, <2>1 DEF Store, listeners, received
<1>3. ASSUME NEW p \in Producer, EndOfStream(p) PROVE TypeOK' /\ HistoryBounded'
  BY <1>3 DEF EndOfStream, stored, listeners, received, HistoryBounded
<1>4. ASSUME NEW c \in Closer, Unregister(c) PROVE TypeOK' /\ HistoryBounded'
  BY <1>4 DEF Unregister, pushes, stored, listeners, received, HistoryBounded
<1>5. ASSUME NEW c \in Closer, SendFinished(c) PROVE TypeOK' /\ HistoryBounded'
  <2>1. sent' \in Seq(Message) /\ Finished \in Message
    BY <1>5, MessageFacts, AppendFacts DEF SendFinished
  <2>2. pushing' \in [Producer \cup {End} -> Message \cup {None}]
    BY <1>5, <2>1 DEF SendFinished
  <2>3. Elements(sent) \subseteq Message
    BY DEF Elements
  <2> QED BY <1>5, <2>1, <2>2, <2>3 DEF SendFinished, stored, listeners, received, HistoryBounded
<1>6. ASSUME NEW c \in Closer, StoreFinished(c) PROVE TypeOK' /\ HistoryBounded'
  <2>1. /\ history' \in Seq(Message) /\ total' \in Nat /\ HistoryBounded'
        /\ pushing' \in [Producer \cup {End} -> Message \cup {None}]
    BY <1>6, AppendHistoryFacts DEF StoreFinished
  <2> QED BY <1>6, <2>1 DEF StoreFinished, listeners, received
<1> QED BY <1>1, <1>2, <1>3, <1>4, <1>5, <1>6 DEF ProducerStep, CloserStep

\* A listener that receives a message keeps the types.
LEMMA ReceiveType ==
    ASSUME TypeOK, NEW l \in Listener, NEW m \in Message, Receive(l, m)
    PROVE  /\ got' \in [Listener -> Seq(Message)] /\ file' \in Seq(Message)
           /\ at' \in [Listener -> {"off", "found", "gap", "live", "replay", "done"}]
<1>1. Append(got[l], m) \in Seq(Message) /\ Append(file, m) \in Seq(Message)
  BY AppendFacts DEF TypeOK
<1> QED BY <1>1 DEF Receive, TypeOK

\* The steps of listeners keep the types and the bound.
LEMMA ListenerType ==
    ASSUME TypeOK, HistoryBounded, Following, NEW l \in Listener, ListenerStep(l)
    PROVE  TypeOK' /\ HistoryBounded'
<1> USE DEF TypeOK
<1>1. UNCHANGED <<pushes, stored, registered, closer, settled>> /\ HistoryBounded'
  BY DEF ListenerStep, Lookup, CopyHistory, Subscribe, FromHistory, FromChannel, HangUp, stored,
         HistoryBounded
<1>2. ASSUME NEW a \in Nat \ {0}, NEW b \in Nat, b <= Len(sent)
      PROVE  Elements(SubSeq(sent, a, b)) \subseteq Message
  BY <1>2, PartFacts
<1>3. CASE Lookup(l)
  <2>1. Append(file, Finished) \in Seq(Message)
    BY MessageFacts, AppendFacts
  <2>2. NotInFile \subseteq Message
    BY DEF NotInFile, Elements
  <2> QED BY <1>1, <1>3, <2>1, <2>2 DEF Lookup, pushes, stored, received
<1>4. CASE CopyHistory(l)
  <2>1. Elements(sent) \subseteq Message /\ Len(sent) \in Nat
    BY DEF Elements
  <2> QED BY <1>1, <1>4, <2>1 DEF CopyHistory, pushes, stored, received
<1>5. CASE Subscribe(l)
  <2>1. seen[l] + 1 \in Nat \ {0} /\ Len(sent) \in Nat
    OBVIOUS
  <2>2. Elements(SubSeq(sent, seen[l] + 1, Len(sent))) \subseteq Message
    <3>1. sent \in Seq(Message) /\ Len(sent) <= Len(sent)
      BY <2>1
    <3> QED BY <2>1, <3>1, PartFacts
  <2>3. gone' \in [Listener -> SUBSET Message]
    BY <1>5, <2>2 DEF Subscribe
  <2> QED BY <1>1, <1>5, <2>1, <2>3 DEF Subscribe, pushes, stored, received
<1>6. CASE FromHistory(l)
  BY <1>1, <1>6, TailFacts, ReceiveType DEF FromHistory, pushes, stored
<1>7. CASE FromChannel(l)
  <2>1. pos[l] \in 1 .. Len(sent) /\ sent[pos[l]] \in Message
    <3>1. Live(l) /\ pos[l] <= Len(sent)
      BY <1>7 DEF FromChannel, Following, Follows
    <3> QED BY <3>1 DEF Live
  <2>2. CASE Receive(l, sent[pos[l]]) /\ pos' = [pos EXCEPT ![l] = @ + 1] /\ UNCHANGED gone
    <3>1. /\ got' \in [Listener -> Seq(Message)] /\ file' \in Seq(Message)
          /\ at' \in [Listener -> {"off", "found", "gap", "live", "replay", "done"}]
      BY <2>1, <2>2, ReceiveType
    <3>2. UNCHANGED <<buf, seen>>
      BY <1>7 DEF FromChannel
    <3>3. pos' \in [Listener -> Nat]
      BY <2>2
    <3> QED BY <1>1, <2>2, <3>1, <3>2, <3>3 DEF pushes, stored
  <2> DEFINE oldest == Len(sent) - Capacity + 1
  <2>3. CASE /\ pos[l] < oldest /\ pos' = [pos EXCEPT ![l] = oldest]
             /\ gone' = [gone EXCEPT ![l] = @ \cup Elements(SubSeq(sent, pos[l], oldest - 1))]
             /\ UNCHANGED <<received, at>>
    <3>1. oldest \in Nat /\ oldest - 1 \in Nat /\ oldest - 1 <= Len(sent) /\ pos[l] \in Nat \ {0}
      <4>1. Len(sent) \in Nat /\ Capacity \in Nat \ {0} /\ pos[l] < oldest
        BY <2>3, StoreAssumption
      <4> QED BY <2>1, <4>1
    <3>2. Elements(SubSeq(sent, pos[l], oldest - 1)) \subseteq Message
      BY <1>2, <3>1
    <3> HIDE DEF oldest
    <3> QED BY <1>1, <1>7, <2>3, <3>1, <3>2 DEF FromChannel, pushes, stored, received
  <2> QED BY <1>7, <2>2, <2>3 DEF FromChannel
<1>8. CASE HangUp(l)
  BY <1>1, <1>8 DEF HangUp, pushes, stored, received
<1> QED BY <1>3, <1>4, <1>5, <1>6, <1>7, <1>8 DEF ListenerStep
-----------------------------------------------------------------------------
(* The steps of producers and closers.                                     *)

\* What was complete when Finished was sent had been sent, and Finished was not.
LEMMA SettledFacts ==
    ASSUME TypeOK, Counted, Ending
    PROVE  settled \subseteq Elements(sent) /\ Finished \notin settled
<1>1. CASE Finished \notin Elements(sent)
  BY <1>1 DEF Ending
<1>2. CASE Finished \in Elements(sent)
  <2>1. PICK i \in DOMAIN sent : sent[i] = Finished
    BY <1>2 DEF Elements
  <2>2. settled \subseteq SentBefore(i)
    BY <2>1 DEF Ending
  <2>3. i \in 1 .. Len(sent) /\ i \in Nat /\ sent \in Seq(Message) /\ Ordered(sent)
    BY DEF TypeOK, Counted
  <2>4. SentBefore(i) \subseteq Elements(sent) /\ Older(SentBefore(i), {Finished})
    BY <2>1, <2>3, SentFacts
  <2>5. Finished \notin SentBefore(i)
    BY <2>4 DEF Older, Finished
  <2> QED BY <2>2, <2>4, <2>5
<1> QED BY <1>1, <1>2

\* What a listener has and will read was sent.
LEMMA FollowsSent ==
    ASSUME TypeOK, NEW l \in Listener, Follows(l)
    PROVE  at[l] # "done" => Elements(buf[l]) \subseteq Elements(sent)
<1>1. sent \in Seq(Message) /\ seen[l] + 1 \in Nat /\ pos[l] \in Nat
  BY DEF TypeOK
<1>2. /\ SentBefore(seen[l] + 1) \subseteq Elements(sent)
      /\ SentBefore(pos[l]) \subseteq Elements(sent)
  BY <1>1, SentFacts
<1>3. at[l] \in {"off", "found", "gap", "live", "replay", "done"}
  BY DEF TypeOK
<1>4. CASE at[l] \in {"off", "found"}
  BY <1>4, EmptyFacts DEF Follows
<1>5. CASE at[l] = "gap"
  BY <1>2, <1>5 DEF Follows, Copied
<1>6. CASE at[l] = "live"
  BY <1>2, <1>6 DEF Follows, Live
<1>7. CASE at[l] = "replay"
  BY <1>7 DEF Follows, Replayed
<1> QED BY <1>3, <1>4, <1>5, <1>6, <1>7

\* A message that is sent changes nothing for what listeners have accounted for.
LEMMA FollowingGrows ==
    ASSUME TypeOK, Following, NEW m \in Message, sent' = Append(sent, m), UNCHANGED listeners,
           UNCHANGED settled \/ Finished \notin Elements(sent)
    PROVE  Following'
<1> SUFFICES ASSUME NEW l \in Listener PROVE Follows(l)'
  BY DEF Following
<1>1. sent \in Seq(Message) /\ Len(sent) \in Nat /\ seen[l] \in Nat /\ pos[l] \in Nat
  BY DEF TypeOK
<1>2. /\ Elements(sent') = Elements(sent) \cup {m} /\ Len(sent') = Len(sent) + 1
      /\ \A n \in 0 .. Len(sent) + 1 : SentBefore(n)' = SentBefore(n)
  BY <1>1, SendFacts
<1>3. UNCHANGED <<at, buf, pos, seen, got, gone>>
  BY DEF listeners, received
<1>4. Follows(l)
  BY DEF Following
<1>5. Copied(l) => Copied(l)'
  <2> SUFFICES ASSUME Copied(l) PROVE Copied(l)'
    OBVIOUS
  <2>1. seen[l] + 1 \in 0 .. Len(sent) + 1 /\ seen[l] <= Len(sent) + 1
    BY <1>1 DEF Copied
  <2>2. SentBefore(seen[l] + 1)' = SentBefore(seen[l] + 1)
    BY <1>2, <1>3, <2>1
  <2> QED BY <1>2, <1>3, <2>1, <2>2 DEF Copied
<1>6. Live(l) => Live(l)'
  <2> SUFFICES ASSUME Live(l) PROVE Live(l)'
    OBVIOUS
  <2>1. pos[l] \in 0 .. Len(sent) + 1 /\ pos[l] \in 1 .. (Len(sent) + 1) + 1
    BY <1>1 DEF Live
  <2>2. SentBefore(pos[l])' = SentBefore(pos[l])
    BY <1>2, <1>3, <2>1
  <2> QED BY <1>2, <1>3, <2>1, <2>2 DEF Live
<1>7. (Replayed(l) => Replayed(l)') /\ (Through(l) => Through(l)')
  BY <1>2, <1>3 DEF Replayed, Through
<1> QED BY <1>2, <1>3, <1>4, <1>5, <1>6, <1>7 DEF Follows

\* What was settled stays before Finished when another message is sent.
LEMMA EndingGrows ==
    ASSUME TypeOK, Ending, NEW m \in Message, sent' = Append(sent, m), m # Finished,
           UNCHANGED settled
    PROVE  /\ Finished \notin Elements(sent)' => settled' = {}
           /\ \A i \in DOMAIN sent' : sent'[i] = Finished => settled' \subseteq SentBefore(i)'
<1>1. sent \in Seq(Message) /\ Len(sent) \in Nat /\ DOMAIN sent = 1 .. Len(sent)
  BY DEF TypeOK
<1>2. /\ Elements(sent') = Elements(sent) \cup {m} /\ Len(sent') = Len(sent) + 1
      /\ sent'[Len(sent) + 1] = m /\ \A i \in 1 .. Len(sent) : sent'[i] = sent[i]
      /\ \A n \in 0 .. Len(sent) + 1 : SentBefore(n)' = SentBefore(n)
  BY <1>1, SendFacts
<1>3. Finished \notin Elements(sent)' => settled' = {}
  BY <1>2 DEF Ending
<1>4. ASSUME NEW i \in DOMAIN sent', sent'[i] = Finished PROVE settled' \subseteq SentBefore(i)'
  <2>1. i \in 1 .. Len(sent) + 1
    BY <1>1
  <2>2. i \in 1 .. Len(sent) /\ sent[i] = Finished /\ i \in 0 .. Len(sent) + 1
    BY <1>1, <1>2, <1>4, <2>1
  <2> QED BY <1>1, <1>2, <2>2 DEF Ending
<1> QED BY <1>3, <1>4

\* A producer's next message is newer than all it sent.
LEMMA SendKeeps ==
    ASSUME StoreInv, NEW p \in Producer, Send(p)
    PROVE  FeedInv' /\ Ending' /\ NothingElseLost'
<1> DEFINE m == <<p, count[p] + 1>>
<1> USE DEF StoreInv, FeedInv
<1>1. /\ p \in open /\ pushing[p] = None /\ count[p] < Amount[p]
      /\ count' = [count EXCEPT ![p] = @ + 1]
      /\ pushing' = [pushing EXCEPT ![p] = m] /\ sent' = Append(sent, m)
      /\ UNCHANGED <<open, stored, registered, closer, listeners, settled>>
  BY DEF Send
<1>2. /\ count[p] \in Nat /\ Amount[p] \in Nat /\ count[p] + 1 \in 1 .. Amount[p] /\ m \in Message
      /\ sent \in Seq(Message) /\ p # End
  <2>1. count[p] \in Nat /\ sent \in Seq(Message)
    BY DEF TypeOK
  <2>2. Amount[p] \in Nat /\ p # End
    BY StoreAssumption
  <2>3. count[p] + 1 \in 1 .. Amount[p]
    BY <1>1, <2>1, <2>2
  <2> QED BY <2>1, <2>2, <2>3, MessageFacts
<1>3. m # Finished /\ m[1] = p /\ m[2] = count[p] + 1
  BY <1>2 DEF Finished
<1>4. m \notin Elements(sent) /\ Older(Elements(sent), {m})
  <2> SUFFICES ASSUME NEW o \in Elements(sent), o[1] = p PROVE o[2] < count[p] + 1
    BY <1>2, <1>3 DEF Older
  <2>1. o \in Message
    BY <1>2 DEF Elements
  <2>2. o = <<p, o[2]>> /\ o[2] \in 1 .. Amount[p]
    BY <2>1, MessageFacts
  <2>3. o[2] <= count[p]
    BY <2>2 DEF Counted
  <2> QED BY <1>2, <2>2, <2>3
<1>5. Elements(sent') = Elements(sent) \cup {m}
  BY <1>1, <1>2, SendFacts
<1>6. Counted'
  <2>1. Ordered(sent')
    BY <1>1, <1>2, <1>4, AppendFacts DEF Counted
  <2>2. ASSUME NEW q \in Producer, NEW n \in 1 .. Amount[q]
        PROVE  <<q, n>> \in Elements(sent') <=> n <= count'[q]
    <3>1. <<q, n>> \in Elements(sent) <=> n <= count[q]
      BY DEF Counted
    <3>2. CASE q = p
      <4>1. count'[q] = count[p] + 1 /\ n \in Nat /\ (<<q, n>> = m <=> n = count[p] + 1)
        BY <1>1, <1>2, <3>2 DEF TypeOK
      <4> HIDE DEF m
      <4> QED BY <1>2, <1>5, <3>1, <3>2, <4>1
    <3>3. CASE q # p
      <4>1. count'[q] = count[q] /\ <<q, n>> # m
        BY <1>1, <3>3 DEF TypeOK
      <4> HIDE DEF m
      <4> QED BY <1>5, <3>1, <4>1
    <3> QED BY <3>2, <3>3
  <2> QED BY <2>1, <2>2 DEF Counted
<1> HIDE DEF m
<1>7. Pushed'
  <2>1. UNCHANGED history
    BY <1>1 DEF stored
  <2>2. ASSUME NEW q \in Producer \cup {End}, pushing'[q] # None
        PROVE  /\ pushing'[q][1] = q /\ pushing'[q] \in Elements(sent')
               /\ Older(Elements(history), {pushing'[q]})
    <3>1. CASE q = p
      <4>1. pushing'[q] = m
        BY <1>1, <3>1 DEF TypeOK
      <4>2. Older(Elements(history), {m})
        BY <1>4 DEF Older, Pushed
      <4> QED BY <1>3, <1>5, <3>1, <4>1, <4>2
    <3>2. CASE q # p
      <4>1. pushing'[q] = pushing[q]
        BY <1>1, <3>2 DEF TypeOK
      <4> QED BY <1>5, <2>2, <4>1 DEF Pushed
    <3> QED BY <3>1, <3>2
  <2> QED BY <1>5, <2>1, <2>2 DEF Pushed
<1>8. Closing'
  BY <1>1, <1>3, <1>5 DEF Closing
<1>9. Following'
  BY <1>1, <1>2, FollowingGrows
<1>10. UNCHANGED <<got, gone, buf, at, file, history>>
  BY <1>1 DEF listeners, received, stored
<1>11. Written'
  BY <1>10 DEF Written
<1>12. Ending'
  <2>1. /\ Finished \notin Elements(sent)' => settled' = {}
        /\ \A i \in DOMAIN sent' : sent'[i] = Finished => settled' \subseteq SentBefore(i)'
    BY <1>1, <1>2, <1>3, EndingGrows
  <2>2. m \notin settled
    BY <1>4, SettledFacts
  <2>3. \A q \in Producer : pushing'[q] \notin settled
    BY <1>1, <2>2 DEF Ending, TypeOK
  <2> QED BY <1>1, <1>10, <2>1, <2>3 DEF Ending, EndsLast
<1>13. NothingElseLost'
  BY <1>1, <1>10 DEF NothingElseLost
<1> QED BY <1>6, <1>7, <1>8, <1>9, <1>11, <1>12, <1>13

\* The message appended is newer than the history of its producer, and it was not
\* settled, or it is Finished itself.
LEMMA AppendKeeps ==
    ASSUME StoreInv, NEW p \in Producer \cup {End}, AppendHistory(p),
           UNCHANGED <<count, sent, listeners, settled>>
    PROVE  Counted' /\ Pushed' /\ Following' /\ Written' /\ Ending' /\ NothingElseLost'
<1> USE DEF StoreInv, FeedInv
<1>1. UNCHANGED <<at, buf, pos, seen, got, gone, file>>
  BY DEF listeners, received
<1>2. Counted' /\ Written' /\ NothingElseLost'
  BY <1>1 DEF Counted, Written, NothingElseLost
<1>3. Following'
  BY <1>1 DEF Following, Follows, Copied, Live, Replayed, Through, SentBefore
<1>4. PICK k \in 0 .. Len(history) :
        history' = Append(SubSeq(history, k + 1, Len(history)), pushing[p])
  BY AppendHistoryFacts
<1>5. /\ pushing[p] \in Message /\ pushing[p] # None /\ pushing[p][1] = p
      /\ pushing[p] \in Elements(sent) /\ Older(Elements(history), {pushing[p]})
  BY AppendHistoryFacts DEF Pushed
<1>6. /\ pushing' \in [Producer \cup {End} -> Message \cup {None}] /\ pushing'[p] = None
      /\ \A q \in Producer \cup {End} : q # p => pushing'[q] = pushing[q]
  BY AppendHistoryFacts DEF AppendHistory, TypeOK
<1> DEFINE kept == SubSeq(history, k + 1, Len(history))
<1>7. /\ history \in Seq(Message) /\ Ordered(history) /\ Elements(history) \subseteq Elements(sent)
      /\ EndsLast(history)
  BY DEF TypeOK, Pushed, Ending
<1>8. /\ kept \in Seq(Message) /\ Elements(kept) \subseteq Elements(history)
      /\ Ordered(kept) /\ EndsLast(kept)
  BY <1>7, DropFacts
<1>9. history' = Append(kept, pushing[p])
  BY <1>4
<1> HIDE DEF kept
<1>10. Older(Elements(kept), {pushing[p]})
  BY <1>5, <1>8 DEF Older
<1>11. Elements(history') = Elements(kept) \cup {pushing[p]} /\ Ordered(history')
  BY <1>5, <1>8, <1>9, <1>10, AppendFacts
<1>12. pushing[p] \notin settled
  <2>1. CASE p \in Producer
    BY <2>1 DEF Ending
  <2>2. CASE p = End
    BY <1>5, <2>2, MessageFacts, SettledFacts
  <2> QED BY <2>1, <2>2
<1>13. EndsLast(history')
  BY <1>5, <1>8, <1>9, <1>12, AppendFacts
<1>14. Pushed'
  <2>1. ASSUME NEW q \in Producer \cup {End}, pushing'[q] # None
        PROVE  /\ pushing'[q][1] = q /\ pushing'[q] \in Elements(sent)
               /\ Older(Elements(history'), {pushing'[q]})
    <3>1. q # p /\ pushing'[q] = pushing[q]
      BY <1>6, <2>1
    <3>2. /\ pushing[q][1] = q /\ pushing[q] \in Elements(sent)
          /\ Older(Elements(history), {pushing[q]})
      BY <2>1, <3>1 DEF Pushed
    <3>3. Older(Elements(history'), {pushing[q]})
      BY <1>5, <1>8, <1>11, <3>1, <3>2 DEF Older
    <3> QED BY <3>1, <3>2, <3>3
  <2>2. Elements(history') \subseteq Elements(sent)
    BY <1>5, <1>7, <1>8, <1>11
  <2> QED BY <1>11, <2>1, <2>2 DEF Pushed
<1>15. Ending'
  <2>1. ASSUME NEW q \in Producer PROVE pushing'[q] \notin settled
    <3>1. CASE q = p
      BY <1>6, <3>1, StoreAssumption DEF TypeOK
    <3>2. CASE q # p
      BY <1>6, <3>2 DEF Ending
    <3> QED BY <3>1, <3>2
  <2>2. EndsLast(history)'
    BY <1>13 DEF EndsLast
  <2>3. \A l \in Listener : at'[l] # "done" => EndsLast(buf[l])'
    BY <1>1 DEF Ending, EndsLast
  <2>4. \A i \in DOMAIN sent' : sent'[i] = Finished => settled' \subseteq SentBefore(i)'
    BY DEF Ending, SentBefore
  <2> QED BY <2>1, <2>2, <2>3, <2>4 DEF Ending
<1> QED BY <1>2, <1>3, <1>14, <1>15

\* What a listener has accounted for depends on its own state and on the channel.
LEMMA FollowsFrame ==
    ASSUME NEW l \in Listener, Follows(l), UNCHANGED <<sent, settled>>,
           at'[l] = at[l], buf'[l] = buf[l], pos'[l] = pos[l], seen'[l] = seen[l],
           got'[l] = got[l], gone'[l] = gone[l]
    PROVE  Follows(l)'
<1>1. /\ (Copied(l) => Copied(l)') /\ (Live(l) => Live(l)')
      /\ (Replayed(l) => Replayed(l)') /\ (Through(l) => Through(l)')
  BY DEF Copied, Live, Replayed, Through, SentBefore
<1> QED BY <1>1 DEF Follows

\* Steps that neither send nor append and that no listener takes.
LEMMA IdleKeeps ==
    ASSUME StoreInv, UNCHANGED <<count, pushing, sent, stored, listeners, settled>>
    PROVE  Counted' /\ Pushed' /\ Following' /\ Written' /\ Ending' /\ NothingElseLost'
<1> USE DEF StoreInv, FeedInv
<1>1. UNCHANGED <<at, buf, pos, seen, got, gone, file, history>>
  BY DEF listeners, received, stored
<1>2. Counted' /\ Pushed' /\ Written' /\ NothingElseLost'
  BY <1>1 DEF Counted, Pushed, Written, NothingElseLost
<1>3. Following'
  BY <1>1, FollowsFrame DEF Following
<1>4. Ending'
  BY <1>1 DEF Ending, EndsLast, SentBefore
<1> QED BY <1>2, <1>3, <1>4

\* Finished is sent once, after everything that is settled then.
LEMMA FinishKeeps ==
    ASSUME StoreInv, NEW c \in Closer, SendFinished(c)
    PROVE  FeedInv' /\ Ending' /\ NothingElseLost'
<1> USE DEF StoreInv, FeedInv
<1>1. /\ closer[c] = "finish" /\ closer' = [closer EXCEPT ![c] = "append"]
      /\ pushing' = [pushing EXCEPT ![End] = Finished] /\ sent' = Append(sent, Finished)
      /\ settled' = Elements(sent) \ {pushing[p] : p \in Producer}
      /\ UNCHANGED <<count, open, stored, registered, listeners>>
  BY DEF SendFinished
<1>2. Finished \in Message /\ Finished[1] = End /\ sent \in Seq(Message) /\ Len(sent) \in Nat
  BY MessageFacts DEF TypeOK, Finished
<1>3. Finished \notin Elements(sent)
  BY <1>1 DEF Closing
<1>4. /\ Elements(sent') = Elements(sent) \cup {Finished} /\ Len(sent') = Len(sent) + 1
      /\ DOMAIN sent' = 1 .. Len(sent) + 1
      /\ \A i \in 1 .. Len(sent) : sent'[i] = sent[i]
      /\ \A n \in 0 .. Len(sent) + 1 : SentBefore(n)' = SentBefore(n)
  <2>1. DOMAIN sent' = 1 .. Len(sent) + 1
    BY <1>1, <1>2
  <2> QED BY <1>1, <1>2, <2>1, SendFacts
<1>5. Older(Elements(sent), {Finished})
  <2>1. \A o \in Elements(sent) : o \in Message /\ o # Finished
    BY <1>2, <1>3 DEF Elements
  <2> QED BY <1>2, <2>1, MessageFacts DEF Older
<1>6. UNCHANGED <<at, buf, pos, seen, got, gone, file, history>>
  BY <1>1 DEF listeners, received, stored
<1>7. Counted'
  <2>1. Ordered(sent')
    BY <1>1, <1>2, <1>5, AppendFacts DEF Counted
  <2>2. \A q \in Producer : \A n \in 1 .. Amount[q] : <<q, n>> # Finished
    BY StoreAssumption DEF Finished
  <2> QED BY <1>1, <1>4, <2>1, <2>2 DEF Counted
<1>8. Pushed'
  <2>1. ASSUME NEW q \in Producer \cup {End}, pushing'[q] # None
        PROVE  /\ pushing'[q][1] = q /\ pushing'[q] \in Elements(sent')
               /\ Older(Elements(history), {pushing'[q]})
    <3>1. CASE q = End
      <4>1. pushing'[q] = Finished
        BY <1>1, <3>1 DEF TypeOK
      <4>2. Older(Elements(history), {Finished})
        BY <1>5 DEF Older, Pushed
      <4> QED BY <1>2, <1>4, <3>1, <4>1, <4>2
    <3>2. CASE q # End
      <4>1. pushing'[q] = pushing[q]
        BY <1>1, <3>2 DEF TypeOK
      <4> QED BY <1>4, <2>1, <4>1 DEF Pushed
    <3> QED BY <3>1, <3>2
  <2> QED BY <1>4, <1>6, <2>1 DEF Pushed
<1>9. Closing'
  <2>1. ~registered
    BY <1>1 DEF Closing
  <2>2. \A d \in Closer : closer'[d] = IF d = c THEN "append" ELSE closer[d]
    BY <1>1 DEF TypeOK
  <2>3. \A d \in Closer : closer'[d] # "finish"
    BY <1>1, <2>2 DEF Closing
  <2>4. \A d, e \in Closer :
          closer'[d] \in {"finish", "append"} /\ closer'[e] \in {"finish", "append"} => d = e
    BY <1>1, <2>2 DEF Closing
  <2> QED BY <1>1, <1>4, <2>1, <2>3, <2>4 DEF Closing
<1>10. Following'
  BY <1>1, <1>2, <1>3, FollowingGrows
<1>11. Written'
  BY <1>6 DEF Written
<1>12. Ending'
  <2>1. ASSUME NEW i \in DOMAIN sent', sent'[i] = Finished PROVE settled' \subseteq SentBefore(i)'
    <3>1. i \in 1 .. Len(sent) + 1 /\ DOMAIN sent = 1 .. Len(sent)
      BY <1>2, <1>4
    <3>2. \A j \in 1 .. Len(sent) : sent'[j] \in Elements(sent)
      BY <1>4, <3>1 DEF Elements
    <3>3. i = Len(sent) + 1
      BY <1>2, <1>3, <2>1, <3>1, <3>2
    <3>4. SentBefore(i)' = Elements(sent)
      <4>1. i \in 0 .. Len(sent) + 1
        BY <1>2, <3>3
      <4>2. SentBefore(i)' = SentBefore(i)
        BY <1>4, <4>1
      <4> QED BY <1>2, <3>3, <4>2, SentFacts
    <3> QED BY <1>1, <3>4
  <2>2. \A q \in Producer : pushing'[q] \notin settled'
    BY <1>1, StoreAssumption DEF TypeOK
  <2>3. EndsLast(history)'
    <3>1. Finished \notin Elements(history)
      BY <1>3 DEF Pushed
    <3> QED BY <1>6, <3>1 DEF EndsLast, Elements
  <2>4. ASSUME NEW l \in Listener, at'[l] # "done" PROVE EndsLast(buf[l])'
    <3>1. Finished \notin Elements(buf[l])
      BY <1>3, <1>6, <2>4, FollowsSent DEF Following
    <3> QED BY <1>6, <3>1 DEF EndsLast, Elements
  <2> QED BY <1>4, <2>1, <2>2, <2>3, <2>4 DEF Ending
<1>13. NothingElseLost'
  BY <1>3, <1>6 DEF NothingElseLost, Following, Follows
<1> QED BY <1>7, <1>8, <1>9, <1>10, <1>11, <1>12, <1>13

\* Only the closer that finds the store in the map announces the end.
LEMMA CloserKeeps ==
    ASSUME StoreInv, NEW c \in Closer, CloserStep(c)
    PROVE  FeedInv' /\ Ending' /\ NothingElseLost'
<1> USE DEF StoreInv, FeedInv
<1>1. CASE Unregister(c)
  <2>1. Counted' /\ Pushed' /\ Following' /\ Written' /\ Ending' /\ NothingElseLost'
    BY <1>1, IdleKeeps DEF Unregister, pushes
  <2>2. /\ closer[c] = "idle" /\ ~registered' /\ UNCHANGED sent
        /\ closer' = [closer EXCEPT ![c] = IF registered THEN "finish" ELSE "done"]
    BY <1>1 DEF Unregister, pushes
  <2>3. Closing'
    <3>1. CASE registered
      <4>1. \A d \in Closer : closer'[d] = IF d = c THEN "finish" ELSE "idle"
        BY <2>2, <3>1 DEF Closing, TypeOK
      <4> QED BY <2>2, <3>1, <4>1 DEF Closing
    <3>2. CASE ~registered
      <4>1. \A d \in Closer : closer'[d] = IF d = c THEN "done" ELSE closer[d]
        BY <2>2, <3>2 DEF TypeOK
      <4> QED BY <2>2, <4>1 DEF Closing
    <3> QED BY <3>1, <3>2
  <2> QED BY <2>1, <2>3
<1>2. CASE SendFinished(c)
  BY <1>2, FinishKeeps
<1>3. CASE StoreFinished(c)
  <2>1. Counted' /\ Pushed' /\ Following' /\ Written' /\ Ending' /\ NothingElseLost'
    BY <1>3, AppendKeeps DEF StoreFinished
  <2>2. Closing'
    <3>1. UNCHANGED <<sent, registered>> /\ closer[c] = "append"
      BY <1>3 DEF StoreFinished
    <3>2. \A d \in Closer : closer'[d] = IF d = c THEN "done" ELSE closer[d]
      BY <1>3 DEF StoreFinished, TypeOK
    <3> QED BY <3>1, <3>2 DEF Closing
  <2> QED BY <2>1, <2>2
<1> QED BY <1>1, <1>2, <1>3 DEF CloserStep

\* The steps of a producer.
LEMMA ProducerKeeps ==
    ASSUME StoreInv, NEW p \in Producer, ProducerStep(p)
    PROVE  FeedInv' /\ Ending' /\ NothingElseLost'
<1> USE DEF FeedInv
<1>1. CASE Send(p)
  BY <1>1, SendKeeps
<1>2. CASE Store(p)
  <2>1. Counted' /\ Pushed' /\ Following' /\ Written' /\ Ending' /\ NothingElseLost'
    BY <1>2, AppendKeeps DEF Store
  <2>2. Closing'
    BY <1>2 DEF Store, StoreInv, Closing
  <2> QED BY <2>1, <2>2
<1>3. CASE EndOfStream(p)
  <2>1. Counted' /\ Pushed' /\ Following' /\ Written' /\ Ending' /\ NothingElseLost'
    BY <1>3, IdleKeeps DEF EndOfStream
  <2>2. Closing'
    BY <1>3 DEF EndOfStream, StoreInv, Closing
  <2> QED BY <2>1, <2>2
<1> QED BY <1>1, <1>2, <1>3 DEF ProducerStep
-----------------------------------------------------------------------------
(* The steps of listeners.                                                 *)

\* A listener's step leaves the others, the store and the channel alone.
LEMMA OnlyListener ==
    ASSUME TypeOK, NEW l \in Listener, ListenerStep(l)
    PROVE  /\ UNCHANGED <<count, pushing, sent, history, registered, closer, settled>>
           /\ \A o \in Listener : o # l =>
                /\ at'[o] = at[o] /\ buf'[o] = buf[o] /\ pos'[o] = pos[o] /\ seen'[o] = seen[o]
                /\ got'[o] = got[o] /\ gone'[o] = gone[o]
<1> USE DEF TypeOK, pushes, stored, received
<1>1. CASE Lookup(l)
  BY <1>1 DEF Lookup
<1>2. CASE CopyHistory(l)
  BY <1>2 DEF CopyHistory
<1>3. CASE Subscribe(l)
  BY <1>3 DEF Subscribe
<1>4. CASE FromHistory(l)
  BY <1>4 DEF FromHistory, Receive
<1>5. CASE FromChannel(l)
  BY <1>5 DEF FromChannel, Receive
<1>6. CASE HangUp(l)
  BY <1>6 DEF HangUp
<1> QED BY <1>1, <1>2, <1>3, <1>4, <1>5, <1>6 DEF ListenerStep

\* So it is enough to look at the listener itself and at the log file.
LEMMA ListenerFrame ==
    ASSUME StoreInv, NEW l \in Listener, ListenerStep(l),
           Follows(l)', Written', at'[l] # "done" => EndsLast(buf[l])',
           Finished \in Elements(got'[l]) => settled \subseteq Elements(got'[l]) \cup gone'[l]
    PROVE  FeedInv' /\ Ending' /\ NothingElseLost'
<1> USE DEF StoreInv, FeedInv
<1>1. /\ UNCHANGED <<count, pushing, sent, history, registered, closer, settled>>
      /\ \A o \in Listener : o # l =>
           /\ at'[o] = at[o] /\ buf'[o] = buf[o] /\ pos'[o] = pos[o] /\ seen'[o] = seen[o]
           /\ got'[o] = got[o] /\ gone'[o] = gone[o]
  BY OnlyListener
<1>2. Counted' /\ Pushed' /\ Closing'
  BY <1>1 DEF Counted, Pushed, Closing
<1>3. Following'
  BY <1>1, FollowsFrame DEF Following
<1>4. \A o \in Listener : at'[o] # "done" => EndsLast(buf[o])'
  BY <1>1 DEF Ending, EndsLast
<1>5. Ending'
  <2>1. /\ EndsLast(history)'
        /\ \A i \in DOMAIN sent' : sent'[i] = Finished => settled' \subseteq SentBefore(i)'
    BY <1>1 DEF Ending, EndsLast, SentBefore
  <2> QED BY <1>1, <1>4, <2>1 DEF Ending
<1>6. NothingElseLost'
  BY <1>1 DEF NothingElseLost
<1> QED BY <1>2, <1>3, <1>5, <1>6

\* A message that is newer than what the listener has of its producer: it comes in
\* order, and the writer adds it in order to the log file.
LEMMA ReceiveFacts ==
    ASSUME StoreInv, NEW l \in Listener, NEW m \in Message, Receive(l, m),
           m \in Elements(sent), Older(Elements(got[l]), {m})
    PROVE  /\ Elements(got'[l]) = Elements(got[l]) \cup {m} /\ Ordered(got'[l])
           /\ Elements(got'[l]) \subseteq Elements(sent)
           /\ at'[l] \in {at[l], "done"} /\ Written'
<1> USE DEF StoreInv, FeedInv
<1>1. /\ got[l] \in Seq(Message) /\ file \in Seq(Message) /\ Writer \in Listener
      /\ Ordered(got[l]) /\ Elements(got[l]) \subseteq Elements(sent)
  BY DEF TypeOK, Following, Follows, Listener
<1>2. got'[l] = Append(got[l], m) /\ at'[l] \in {at[l], "done"}
  BY DEF Receive, TypeOK
<1>3. Elements(got'[l]) = Elements(got[l]) \cup {m} /\ Ordered(got'[l])
  BY <1>1, <1>2, AppendFacts
<1>4. Written'
  <2>1. CASE l = Writer /\ m[1] = Forwarder
    <3>1. file' = Append(file, m)
      BY <2>1 DEF Receive
    <3>2. Older(Elements(file), {m})
      BY <2>1 DEF Older, Written
    <3>3. Elements(file') = Elements(file) \cup {m} /\ Ordered(file')
      BY <1>1, <3>1, <3>2, AppendFacts DEF Written
    <3> QED BY <1>3, <2>1, <3>3 DEF Written
  <2>2. CASE ~(l = Writer /\ m[1] = Forwarder)
    <3>1. file' = file
      BY <2>2 DEF Receive
    <3>2. {o \in Elements(got'[Writer]) : o[1] = Forwarder} =
            {o \in Elements(got[Writer]) : o[1] = Forwarder}
      <4>1. CASE l = Writer
        BY <1>3, <2>2, <4>1
      <4>2. CASE l # Writer
        BY <1>1, <4>2 DEF Receive, TypeOK
      <4> QED BY <4>1, <4>2
    <3> QED BY <3>1, <3>2 DEF Written
  <2> QED BY <2>1, <2>2
<1> QED BY <1>1, <1>2, <1>3, <1>4

\* The lookup: a client that finds no store gets the log file.
LEMMA LookupKeeps ==
    ASSUME StoreInv, NEW l \in Listener, Lookup(l)
    PROVE  FeedInv' /\ Ending' /\ NothingElseLost'
<1> USE DEF StoreInv, FeedInv
<1> DEFINE replay == ~registered /\ l # Writer /\ file # <<>>
<1>1. /\ at[l] = "off" /\ MapFree /\ UNCHANGED <<sent, pos, seen, got, file, settled>>
      /\ at'[l] = IF registered THEN "found" ELSE IF replay THEN "replay" ELSE "done"
      /\ buf'[l] = IF replay THEN Append(file, Finished) ELSE buf[l]
      /\ replay => gone'[l] = NotInFile
  BY DEF Lookup, received, pushes, TypeOK
<1>2. buf[l] = <<>> /\ got[l] = <<>>
  BY <1>1 DEF Following, Follows
<1>3. /\ file \in Seq(Message) /\ Writer \in Listener /\ got[Writer] \in Seq(Message)
      /\ Finished \in Message
  BY MessageFacts DEF TypeOK, Listener
<1>4. Written'
  BY <1>1 DEF Written
<1>5. Ordered(<<>>) /\ Elements(<<>>) = {} /\ EndsLast(<<>>) /\ \A S : Older({}, S)
  BY EmptyFacts DEF Older
<1>6. CASE ~replay
  <2>1. at'[l] \in {"found", "done"} /\ buf'[l] = <<>> /\ got'[l] = <<>>
    BY <1>1, <1>2, <1>6
  <2>2. Follows(l)'
    BY <1>5, <2>1 DEF Follows, Through
  <2>3. EndsLast(buf[l])'
    BY <2>1 DEF EndsLast
  <2> QED BY <1>4, <1>5, <2>1, <2>2, <2>3, ListenerFrame DEF ListenerStep
<1>7. CASE replay
  <2>1. /\ at'[l] = "replay" /\ buf'[l] = Append(file, Finished) /\ got'[l] = <<>>
        /\ gone'[l] = NotInFile
    BY <1>1, <1>2, <1>7
  <2>2. Finished \in Elements(sent)
    BY <1>1, <1>7 DEF Closing, MapFree
  <2>3. Elements(file) \subseteq Elements(sent)
    BY <1>3 DEF Written, Following, Follows
  <2>4. \A m \in Elements(file) : m # Finished /\ m[1] # Finished[1]
    BY StoreAssumption DEF Written, Finished
  <2>5. /\ Elements(buf'[l]) = Elements(file) \cup {Finished} /\ Ordered(buf'[l])
        /\ \A i, j \in DOMAIN buf'[l] : i < j => buf'[l][i] # Finished
    <3>1. Older(Elements(file), {Finished})
      BY <2>4 DEF Older
    <3>2. Elements(buf'[l]) = Elements(file) \cup {Finished} /\ Ordered(buf'[l])
      BY <1>3, <2>1, <3>1, AppendFacts DEF Written
    <3>3. \A i \in DOMAIN file : file[i] # Finished
      BY <2>4 DEF Elements
    <3>4. \A i, j \in DOMAIN buf'[l] : i < j => i \in DOMAIN file /\ buf'[l][i] = file[i]
      BY <1>3, <2>1
    <3> QED BY <3>2, <3>3, <3>4
  <2>6. settled \subseteq Elements(buf'[l]) \cup NotInFile
    <3> SUFFICES ASSUME NEW m \in settled, m \notin Elements(file), m[1] = Forwarder,
                        at[Writer] = "done"
                 PROVE  m \in gone[Writer]
      BY <2>5, SettledFacts DEF NotInFile
    <3>1. Elements(file) # {}
      <4>1. 1 \in DOMAIN file
        BY <1>3, <1>7
      <4> QED BY <4>1 DEF Elements
    <3>2. got[Writer] # <<>>
      BY <1>5, <3>1 DEF Written
    <3>3. m \in Elements(got[Writer]) \cup gone[Writer]
      BY <1>3, <3>2 DEF Following, Follows, Through
    <3> QED BY <3>3 DEF Written
  <2>7. Replayed(l)'
    BY <1>1, <1>7, <2>1, <2>2, <2>3, <2>5, <2>6 DEF Replayed
  <2>8. Follows(l)'
    BY <1>5, <2>1, <2>5, <2>7 DEF Follows
  <2>9. EndsLast(buf[l])'
    BY <2>5 DEF EndsLast
  <2> QED BY <1>4, <1>5, <2>1, <2>8, <2>9, ListenerFrame DEF ListenerStep
<1> QED BY <1>6, <1>7

\* The copy of the history: what was sent and is not in it is gone.
LEMMA CopyKeeps ==
    ASSUME StoreInv, NEW l \in Listener, CopyHistory(l)
    PROVE  FeedInv' /\ Ending' /\ NothingElseLost'
<1> USE DEF StoreInv, FeedInv
<1>1. /\ at[l] = "found" /\ UNCHANGED <<sent, got, file, settled>>
      /\ at'[l] = "gap" /\ buf'[l] = history /\ seen'[l] = Len(sent)
      /\ gone'[l] = Elements(sent) \ Elements(history)
  BY DEF CopyHistory, received, pushes, TypeOK
<1>2. got[l] = <<>> /\ sent \in Seq(Message) /\ Len(sent) \in Nat
  BY <1>1 DEF Following, Follows, TypeOK
<1>3. SentBefore(Len(sent) + 1)' = Elements(sent)
  BY <1>1, <1>2, SentFacts DEF SentBefore
<1>4. Copied(l)'
  <2>1. SentBefore(seen[l] + 1)' = Elements(sent)
    BY <1>1, <1>3 DEF SentBefore
  <2> QED BY <1>1, <1>2, <2>1 DEF Copied, Pushed
<1>5. Ordered(<<>>) /\ Elements(<<>>) = {} /\ Older({}, Elements(history))
  BY EmptyFacts DEF Older
<1>6. Follows(l)'
  BY <1>1, <1>2, <1>4, <1>5 DEF Follows, Pushed
<1>7. EndsLast(buf[l])'
  BY <1>1 DEF EndsLast, Ending
<1>8. Written'
  BY <1>1 DEF Written
<1> QED BY <1>1, <1>2, <1>5, <1>6, <1>7, <1>8, ListenerFrame DEF ListenerStep

\* The subscription: what was sent since the copy is gone.
LEMMA SubscribeKeeps ==
    ASSUME StoreInv, NEW l \in Listener, Subscribe(l)
    PROVE  FeedInv' /\ Ending' /\ NothingElseLost'
<1> USE DEF StoreInv, FeedInv
<1>1. /\ at[l] = "gap" /\ UNCHANGED <<sent, buf, got, file, settled>>
      /\ at'[l] = "live" /\ pos'[l] = Len(sent) + 1
      /\ gone'[l] = gone[l] \cup Elements(SubSeq(sent, seen[l] + 1, Len(sent)))
  BY DEF Subscribe, received, pushes, TypeOK
<1>2. got[l] = <<>> /\ Copied(l) /\ Ordered(buf[l]) /\ Older(Elements(got[l]), Elements(buf[l]))
  BY <1>1 DEF Following, Follows
<1>3. sent \in Seq(Message) /\ Len(sent) \in Nat /\ seen[l] \in Nat /\ seen[l] <= Len(sent)
  BY <1>2 DEF Copied, TypeOK
<1>4. SentBefore(Len(sent) + 1) =
        SentBefore(seen[l] + 1) \cup Elements(SubSeq(sent, seen[l] + 1, Len(sent)))
  BY <1>3, SentFacts
<1>5. Live(l)'
  <2>1. SentBefore(pos[l])' = SentBefore(Len(sent) + 1)
    BY <1>1 DEF SentBefore
  <2>2. pos'[l] \in 1 .. Len(sent') + 1
    BY <1>1, <1>3
  <2>3. Elements(got'[l]) = {}
    BY <1>1, <1>2, EmptyFacts
  <2>4. /\ Elements(buf[l]) \subseteq SentBefore(Len(sent) + 1)
        /\ SentBefore(Len(sent) + 1) \subseteq Elements(buf[l]) \cup gone'[l]
    BY <1>1, <1>2, <1>4 DEF Copied
  <2> QED BY <1>1, <2>1, <2>2, <2>3, <2>4 DEF Live
<1>6. Ordered(<<>>) /\ Elements(<<>>) = {}
  BY EmptyFacts
<1>7. Follows(l)'
  BY <1>1, <1>2, <1>5, <1>6 DEF Follows
<1>8. EndsLast(buf[l])' /\ Written'
  BY <1>1 DEF EndsLast, Ending, Written
<1> QED BY <1>1, <1>2, <1>6, <1>7, <1>8, ListenerFrame DEF ListenerStep

\* What is settled was sent before any position after Finished.
LEMMA SettledBefore ==
    ASSUME TypeOK, Ending, NEW n \in 1 .. Len(sent) + 1, Finished \in SentBefore(n)
    PROVE  settled \subseteq SentBefore(n)
<1>1. PICK i \in DOMAIN sent : i < n /\ sent[i] = Finished
  BY DEF SentBefore
<1>2. settled \subseteq SentBefore(i)
  BY <1>1 DEF Ending
<1>3. DOMAIN sent = 1 .. Len(sent) /\ Len(sent) \in Nat
  BY DEF TypeOK
<1>4. SentBefore(i) \subseteq SentBefore(n)
  BY <1>1, <1>3 DEF SentBefore
<1> QED BY <1>2, <1>4

\* The next message of the copied history.
LEMMA FromHistoryKeeps ==
    ASSUME StoreInv, NEW l \in Listener, FromHistory(l)
    PROVE  FeedInv' /\ Ending' /\ NothingElseLost'
<1> USE DEF StoreInv, FeedInv
<1> DEFINE m == Head(buf[l])
           rest == Tail(buf[l])
<1>1. /\ at[l] \in {"live", "replay"} /\ buf[l] # <<>> /\ buf[l] \in Seq(Message)
      /\ Receive(l, m) /\ UNCHANGED <<sent, pos, gone, settled>> /\ buf'[l] = rest
  BY DEF FromHistory, pushes, TypeOK
<1>2. /\ Follows(l) /\ EndsLast(buf[l]) /\ Ordered(buf[l])
      /\ Older(Elements(got[l]), Elements(buf[l])) /\ Elements(buf[l]) \subseteq Elements(sent)
  BY <1>1, FollowsSent DEF Following, Follows, Ending
<1>3. /\ m \in Message /\ Elements(buf[l]) = {m} \cup Elements(rest)
      /\ Ordered(rest) /\ Older({m}, Elements(rest)) /\ EndsLast(rest)
      /\ m = Finished => Elements(rest) \cap settled = {}
  BY <1>1, <1>2, TailFacts
<1> HIDE DEF m, rest
<1>4. /\ m \in Elements(sent) /\ Older(Elements(got[l]), {m})
      /\ Older(Elements(got[l]), Elements(rest))
  BY <1>2, <1>3 DEF Older
<1>5. /\ Elements(got'[l]) = Elements(got[l]) \cup {m} /\ Ordered(got'[l])
      /\ Elements(got'[l]) \subseteq Elements(sent)
      /\ at'[l] \in {at[l], "done"} /\ Written'
  BY <1>1, <1>3, <1>4, ReceiveFacts
<1>6. Older(Elements(got'[l]), Elements(rest))
  BY <1>3, <1>4, <1>5 DEF Older
<1>7. CASE at[l] = "live"
  <2>1. Live(l)
    BY <1>2, <1>7 DEF Follows
  <2>2. Live(l)'
    <3>1. SentBefore(pos[l])' = SentBefore(pos[l])
      BY <1>1 DEF SentBefore
    <3> QED BY <1>1, <1>3, <1>5, <2>1, <3>1 DEF Live
  <2>3. ASSUME Finished \in Elements(got'[l])
        PROVE  settled \subseteq Elements(got'[l]) \cup gone'[l]
    <3>1. CASE m = Finished
      <4>1. pos[l] \in 1 .. Len(sent) + 1 /\ Finished \in SentBefore(pos[l])
        BY <1>3, <2>1, <3>1 DEF Live
      <4>2. settled \subseteq SentBefore(pos[l])
        BY <4>1, SettledBefore
      <4> QED BY <1>1, <1>3, <1>5, <2>1, <3>1, <4>2 DEF Live
    <3>2. CASE m # Finished
      BY <1>1, <1>5, <2>3, <3>2 DEF NothingElseLost
    <3> QED BY <3>1, <3>2
  <2>4. Follows(l)'
    <3>1. at'[l] = "done" => Finished \in Elements(got'[l])
      BY <1>1, <1>3, <1>5, <1>7 DEF Receive, TypeOK
    <3>2. Through(l)' \/ at'[l] # "done"
      BY <1>1, <1>5, <2>3, <3>1 DEF Through
    <3> QED BY <1>1, <1>3, <1>5, <1>6, <1>7, <2>2, <3>2 DEF Follows
  <2>5. EndsLast(buf[l])'
    BY <1>1, <1>3 DEF EndsLast
  <2> QED BY <1>5, <2>3, <2>4, <2>5, ListenerFrame DEF ListenerStep
<1>8. CASE at[l] = "replay"
  <2>1. Replayed(l)
    BY <1>2, <1>8 DEF Follows
  <2>2. Replayed(l)'
    BY <1>1, <1>3, <1>5, <2>1 DEF Replayed
  <2>3. at'[l] = "replay"
    BY <1>1, <1>8, <2>1 DEF Receive, TypeOK, Replayed
  <2>4. Follows(l)'
    BY <1>1, <1>3, <1>5, <1>6, <2>2, <2>3 DEF Follows
  <2>5. ASSUME Finished \in Elements(got'[l])
        PROVE  settled \subseteq Elements(got'[l]) \cup gone'[l]
    <3>1. CASE m = Finished
      BY <1>1, <1>3, <1>5, <2>1, <3>1 DEF Replayed
    <3>2. CASE m # Finished
      BY <1>1, <1>5, <2>5, <3>2 DEF NothingElseLost
    <3> QED BY <3>1, <3>2
  <2>6. EndsLast(buf[l])'
    BY <1>1, <1>3 DEF EndsLast
  <2> QED BY <1>5, <2>4, <2>5, <2>6, ListenerFrame DEF ListenerStep
<1> QED BY <1>1, <1>7, <1>8

\* The next message of the channel, or the oldest one that it retains.
LEMMA FromChannelKeeps ==
    ASSUME StoreInv, NEW l \in Listener, FromChannel(l)
    PROVE  FeedInv' /\ Ending' /\ NothingElseLost'
<1> USE DEF StoreInv, FeedInv
<1> DEFINE m == sent[pos[l]]
           oldest == Len(sent) - Capacity + 1
<1>1. /\ at[l] = "live" /\ buf[l] = <<>> /\ pos[l] <= Len(sent)
      /\ UNCHANGED <<sent, buf, settled>>
      /\ sent \in Seq(Message) /\ Len(sent) \in Nat
  BY DEF FromChannel, pushes, TypeOK
<1>2. /\ Follows(l) /\ Live(l) /\ Ordered(sent)
  BY <1>1 DEF Following, Follows, Counted
<1>3. pos[l] \in 1 .. Len(sent) /\ pos[l] \in Nat
  BY <1>1, <1>2 DEF Live
<1>4. /\ m \in Message /\ m \in Elements(sent) /\ Older(SentBefore(pos[l]), {m})
      /\ SentBefore(pos[l] + 1) = SentBefore(pos[l]) \cup {m}
  BY <1>1, <1>2, <1>3, SentFacts
<1>5. /\ Elements(<<>>) = {} /\ Ordered(<<>>) /\ EndsLast(<<>>)
      /\ \A S : Older(S, {})
  BY EmptyFacts DEF Older
<1>6. /\ Elements(got[l]) \subseteq SentBefore(pos[l])
      /\ SentBefore(pos[l]) \subseteq Elements(got[l]) \cup gone[l]
  BY <1>1, <1>2, <1>5 DEF Live
<1>7. EndsLast(buf[l])'
  BY <1>1, <1>5 DEF EndsLast
<1> HIDE DEF m, oldest
<1>8. CASE Receive(l, m) /\ pos' = [pos EXCEPT ![l] = @ + 1] /\ UNCHANGED gone
  <2>1. Older(Elements(got[l]), {m})
    BY <1>4, <1>6 DEF Older
  <2>2. /\ Elements(got'[l]) = Elements(got[l]) \cup {m} /\ Ordered(got'[l])
        /\ Elements(got'[l]) \subseteq Elements(sent)
        /\ at'[l] \in {at[l], "done"} /\ Written'
    BY <1>4, <1>8, <2>1, ReceiveFacts
  <2>3. pos'[l] = pos[l] + 1 /\ pos'[l] \in 1 .. Len(sent) + 1
    BY <1>1, <1>3, <1>8 DEF TypeOK
  <2>4. Live(l)'
    <3>1. SentBefore(pos[l])' = SentBefore(pos[l]) \cup {m}
      BY <1>1, <1>4, <2>3 DEF SentBefore
    <3>2. Elements(buf'[l]) = {}
      BY <1>1, <1>5
    <3> QED BY <1>1, <1>6, <1>8, <2>2, <2>3, <3>1, <3>2 DEF Live
  <2>5. ASSUME Finished \in Elements(got'[l])
        PROVE  settled \subseteq Elements(got'[l]) \cup gone'[l]
    <3>1. CASE m = Finished
      <4>1. settled \subseteq SentBefore(pos[l])
        BY <1>1, <1>3, <3>1 DEF Ending, m
      <4> QED BY <1>6, <1>8, <2>2, <4>1
    <3>2. CASE m # Finished
      BY <1>8, <2>2, <2>5, <3>2 DEF NothingElseLost
    <3> QED BY <3>1, <3>2
  <2>6. Follows(l)'
    <3>1. at'[l] = "done" => Finished \in Elements(got'[l])
      BY <1>1, <1>8, <2>2 DEF Receive, TypeOK
    <3>2. Through(l)' \/ at'[l] # "done"
      BY <1>1, <2>2, <2>5, <3>1 DEF Through
    <3> QED BY <1>1, <1>5, <2>2, <2>4, <3>2 DEF Follows
  <2> QED BY <1>7, <2>2, <2>5, <2>6, ListenerFrame DEF ListenerStep
<1>9. CASE /\ pos[l] < oldest /\ pos' = [pos EXCEPT ![l] = oldest]
           /\ gone' = [gone EXCEPT ![l] = @ \cup Elements(SubSeq(sent, pos[l], oldest - 1))]
           /\ UNCHANGED <<received, at>>
  <2>1. oldest \in 1 .. Len(sent) + 1 /\ oldest - 1 \in Nat /\ oldest - 1 <= Len(sent)
    BY <1>1, <1>3, <1>9, StoreAssumption DEF oldest
  <2>2. /\ pos[l] - 1 \in Nat /\ (pos[l] - 1) + 1 = pos[l] /\ (oldest - 1) + 1 = oldest
        /\ pos[l] - 1 <= oldest - 1
    BY <1>3, <1>9, <2>1
  <2>3. SentBefore(oldest) = SentBefore(pos[l]) \cup Elements(SubSeq(sent, pos[l], oldest - 1))
    <3>1. SentBefore((oldest - 1) + 1) =
            SentBefore((pos[l] - 1) + 1) \cup Elements(SubSeq(sent, (pos[l] - 1) + 1, oldest - 1))
      BY <1>1, <2>1, <2>2, SentFacts
    <3> QED BY <2>2, <3>1
  <2>4. /\ pos'[l] = oldest /\ got' = got /\ at' = at /\ file' = file
        /\ gone'[l] = gone[l] \cup Elements(SubSeq(sent, pos[l], oldest - 1))
    BY <1>9 DEF TypeOK, received
  <2>5. Live(l)'
    <3>1. SentBefore(pos[l])' = SentBefore(oldest)
      BY <1>1, <2>4 DEF SentBefore
    <3>2. Elements(buf'[l]) = {}
      BY <1>1, <1>5
    <3> QED BY <1>1, <1>6, <2>1, <2>3, <2>4, <3>1, <3>2 DEF Live
  <2>6. Follows(l)'
    BY <1>1, <1>2, <2>4, <2>5 DEF Follows
  <2>7. Written'
    BY <2>4 DEF Written
  <2>8. Finished \in Elements(got'[l]) => settled \subseteq Elements(got'[l]) \cup gone'[l]
    BY <2>4 DEF NothingElseLost
  <2> QED BY <1>7, <2>6, <2>7, <2>8, ListenerFrame DEF ListenerStep
<1> QED BY <1>8, <1>9 DEF FromChannel, m, oldest

\* A listener that has everything may stop.
LEMMA HangUpFrame ==
    ASSUME StoreInv, NEW l \in Listener, HangUp(l), Through(l)
    PROVE  FeedInv' /\ Ending' /\ NothingElseLost'
<1> USE DEF StoreInv, FeedInv
<1>1. at'[l] = "done" /\ UNCHANGED <<sent, got, gone, file, settled>>
  BY DEF HangUp, pushes, received, TypeOK
<1>2. Through(l)' /\ Written'
  BY <1>1 DEF Through, Written
<1>3. Follows(l)'
  BY <1>1, <1>2 DEF Following, Follows
<1>4. Finished \in Elements(got'[l]) => settled \subseteq Elements(got'[l]) \cup gone'[l]
  BY <1>1 DEF NothingElseLost
<1> QED BY <1>1, <1>2, <1>3, <1>4, ListenerFrame DEF ListenerStep

\* A listener stops: it keeps what it has.
LEMMA HangUpKeeps ==
    ASSUME StoreInv, NEW l \in Listener, HangUp(l)
    PROVE  FeedInv' /\ Ending' /\ NothingElseLost'
<1> USE DEF StoreInv, FeedInv
<1>1. /\ at[l] \in {"live", "replay"} /\ buf[l] = <<>> /\ at'[l] = "done"
      /\ at[l] = "live" => pos[l] > Len(sent) /\ ~Held
      /\ UNCHANGED <<sent, got, gone, file, settled>>
  BY DEF HangUp, pushes, received, TypeOK
<1>2. Follows(l) /\ Elements(buf[l]) = {}
  BY <1>1, EmptyFacts DEF Following
<1>3. CASE at[l] = "live"
  <2>1. Live(l) /\ sent \in Seq(Message) /\ Len(sent) \in Nat
    BY <1>2, <1>3 DEF Follows, TypeOK
  <2>2. SentBefore(pos[l]) = Elements(sent)
    <3>1. pos[l] = Len(sent) + 1
      BY <1>1, <1>3, <2>1 DEF Live
    <3> QED BY <2>1, <3>1, SentFacts
  <2>3. Finished \in Elements(sent)
    BY <1>1, <1>3 DEF Held, Closing
  <2> QED BY <1>1, <1>2, <2>1, <2>2, <2>3, SettledFacts, HangUpFrame DEF Live, Through
<1>4. CASE at[l] = "replay"
  <2>1. Replayed(l)
    BY <1>2, <1>4 DEF Follows
  <2> QED BY <1>1, <1>2, <2>1, HangUpFrame DEF Replayed, Through
<1> QED BY <1>1, <1>3, <1>4

\* The steps of a listener.
LEMMA ListenerKeeps ==
    ASSUME StoreInv, NEW l \in Listener, ListenerStep(l)
    PROVE  FeedInv' /\ Ending' /\ NothingElseLost'
BY LookupKeeps, CopyKeeps, SubscribeKeeps, FromHistoryKeeps, FromChannelKeeps, HangUpKeeps
   DEF ListenerStep
-----------------------------------------------------------------------------
(* The theorems.                                                           *)

\* A new store is empty and nobody listens.
LEMMA InitStore == Init => StoreInv
<1> SUFFICES ASSUME Init PROVE StoreInv
  OBVIOUS
<1> USE DEF Init
<1>1. TypeOK
  BY EmptyFacts DEF TypeOK
<1>2. HistoryBounded
  <2> DEFINE f == [i \in 0 .. 0 |-> 0]
  <2>1. <<>> \in Seq(Message) /\ Len(<<>>) = 0 /\ f[0] = 0
    OBVIOUS
  <2>2. SumsUp(f, <<>>)
    BY <2>1 DEF SumsUp
  <2>3. Bytes(<<>>) = 0
    BY <2>1, <2>2, BytesSum
  <2>4. HistoryBytes \in Nat
    BY StoreAssumption
  <2> QED BY <2>3, <2>4 DEF HistoryBounded
<1>3. /\ Elements(<<>>) = {} /\ Ordered(<<>>) /\ EndsLast(<<>>) /\ Older({}, {})
  BY EmptyFacts DEF Older
<1>4. Counted
  BY <1>3 DEF Counted
<1>5. Pushed
  BY <1>3 DEF Pushed
<1>6. Closing
  BY <1>3 DEF Closing
<1>7. Writer \in Listener
  BY DEF Listener
<1>8. Following
  BY <1>3 DEF Following, Follows
<1>9. Written
  BY <1>3, <1>7 DEF Written
<1>10. Ending
  BY <1>3 DEF Ending
<1>11. NothingElseLost
  BY <1>3 DEF NothingElseLost
<1> QED BY <1>1, <1>2, <1>4, <1>5, <1>6, <1>8, <1>9, <1>10, <1>11 DEF StoreInv, FeedInv

\* Every step keeps the invariant.
LEMMA NextStore == StoreInv /\ [Next]_vars => StoreInv'
<1> SUFFICES ASSUME StoreInv, [Next]_vars PROVE StoreInv'
  OBVIOUS
<1>1. TypeOK /\ HistoryBounded /\ Pushed /\ Following
  BY DEF StoreInv, FeedInv
<1>2. CASE \E p \in Producer : ProducerStep(p)
  <2>1. TypeOK' /\ HistoryBounded'
    BY <1>1, <1>2, PushType
  <2> QED BY <1>2, <2>1, ProducerKeeps DEF StoreInv
<1>3. CASE \E c \in Closer : CloserStep(c)
  <2>1. TypeOK' /\ HistoryBounded'
    BY <1>1, <1>3, PushType
  <2> QED BY <1>3, <2>1, CloserKeeps DEF StoreInv
<1>4. CASE \E l \in Listener : ListenerStep(l)
  <2>1. TypeOK' /\ HistoryBounded'
    BY <1>1, <1>4, ListenerType
  <2> QED BY <1>4, <2>1, ListenerKeeps DEF StoreInv
<1>5. CASE UNCHANGED vars
  <2>1. /\ UNCHANGED <<count, open, pushing, sent, stored, listeners, settled, registered, closer>>
        /\ UNCHANGED <<history, total, at, buf, pos, seen, got, gone, file>>
    BY <1>5 DEF vars, pushes, stored, listeners, received
  <2>2. TypeOK' /\ HistoryBounded'
    BY <1>1, <2>1 DEF TypeOK, HistoryBounded
  <2>3. Counted' /\ Pushed' /\ Following' /\ Written' /\ Ending' /\ NothingElseLost'
    BY <2>1, IdleKeeps
  <2>4. Closing'
    BY <2>1 DEF StoreInv, FeedInv, Closing
  <2> QED BY <2>2, <2>3, <2>4 DEF StoreInv, FeedInv
<1> QED BY <1>2, <1>3, <1>4, <1>5 DEF Next

\* The invariant of the store holds always: what push, the closers and the
\* listeners do in any order keeps it.
THEOREM Invariance == Spec => []StoreInv
BY InitStore, NextStore, PTL DEF Spec

\* The variables of the store, of its listeners and of the log file keep their types:
\* what is stored, copied and received are messages that producers pushed.
THEOREM Types == Spec => []TypeOK
<1>1. StoreInv => TypeOK
  BY DEF StoreInv
<1> QED BY <1>1, Invariance, PTL

\* MsgStore::push keeps total_bytes equal to what the history holds, and the history
\* within HISTORY_BYTES or down to a single message, whatever the sizes.
THEOREM Bounded == Spec => []HistoryBounded
<1>1. StoreInv => HistoryBounded
  BY DEF StoreInv
<1> QED BY <1>1, Invariance, PTL

\* A listener of history_plus_stream, or of the log file, that was told Finished has
\* every message that was pushed completely before the end was announced, except those
\* evicted or not yet in the history, sent between copy and subscription, skipped when
\* it lagged, or lost or not yet written by the writer when the file was read.
THEOREM LosesNothingElse == Spec => []NothingElseLost
<1>1. StoreInv => NothingElseLost
  BY DEF StoreInv
<1> QED BY <1>1, Invariance, PTL
-----------------------------------------------------------------------------
(* The store is a LogFeed.                                                 *)

\* A send publishes: the message is new, and those before it were published.
LEMMA SendPublishes ==
    ASSUME StoreInv, NEW p \in Producer, Send(p)
    PROVE  \E m \in Message : Feed!Publish(m)
<1> DEFINE m == <<p, count[p] + 1>>
<1> USE DEF StoreInv, FeedInv
<1>1. /\ count[p] < Amount[p] /\ sent' = Append(sent, m) /\ UNCHANGED got
  BY DEF Send, listeners, received
<1>2. count[p] \in Nat /\ Amount[p] \in Nat /\ sent \in Seq(Message)
  BY StoreAssumption DEF TypeOK
<1>3. count[p] + 1 \in 1 .. Amount[p]
  BY <1>1, <1>2
<1>4. m \in Message /\ m[1] = p /\ m[2] = count[p] + 1
  BY <1>3, MessageFacts
<1>5. m \notin Elements(sent)
  BY <1>2, <1>3 DEF Counted
<1>6. ASSUME NEW o \in Message, o[1] = p, o[2] < count[p] + 1 PROVE o \in Elements(sent)
  <2>1. o = <<p, o[2]>> /\ o[2] \in 1 .. Amount[p]
    BY <1>6, MessageFacts
  <2>2. o[2] <= count[p]
    BY <1>2, <1>6, <2>1
  <2> QED BY <2>1, <2>2 DEF Counted
<1> HIDE DEF m
<1>7. Elements(sent)' = Elements(sent) \cup {m}
  BY <1>1, <1>2, <1>4, SendFacts
<1>8. Feed!Publish(m)
  BY <1>1, <1>4, <1>5, <1>6, <1>7 DEF Feed!Publish
<1> QED BY <1>4, <1>8

\* The end is published once.
LEMMA FinishPublishes ==
    ASSUME StoreInv, NEW c \in Closer, SendFinished(c)
    PROVE  \E m \in Message : Feed!Publish(m)
<1> USE DEF StoreInv, FeedInv
<1>1. closer[c] = "finish" /\ sent' = Append(sent, Finished) /\ UNCHANGED got
  BY DEF SendFinished, listeners, received
<1>2. Finished \in Message /\ sent \in Seq(Message) /\ Finished[1] = End /\ Finished[2] = 1
  BY MessageFacts DEF TypeOK, Finished
<1>3. Finished \notin Elements(sent)
  BY <1>1 DEF Closing
<1>4. \A o \in Message : o[1] = Finished[1] => ~(o[2] < Finished[2])
  BY <1>2, MessageFacts
<1>5. Elements(sent)' = Elements(sent) \cup {Finished}
  BY <1>1, <1>2, SendFacts
<1>6. Feed!Publish(Finished)
  BY <1>1, <1>3, <1>4, <1>5 DEF Feed!Publish
<1> QED BY <1>2, <1>6

\* A message received is one heard.
LEMMA ReceiveHears ==
    ASSUME StoreInv, NEW l \in Listener, NEW m \in Message, Receive(l, m), UNCHANGED sent,
           m \in Elements(sent), Older(Elements(got[l]), {m})
    PROVE  Feed!Hear(l, m)
<1>1. \A o \in Feed!Heard(l) : o[1] = m[1] => o[2] < m[2]
  BY DEF Feed!Heard, Older, Elements
<1>2. got' = [got EXCEPT ![l] = Append(@, m)] /\ Elements(sent)' = Elements(sent)
  BY DEF Receive
<1> QED BY <1>1, <1>2 DEF Feed!Hear

\* What a listener does is to hear a message, or nothing to the feed.
LEMMA ListenerHears ==
    ASSUME StoreInv, NEW l \in Listener, ListenerStep(l)
    PROVE  \/ \E m \in Message : Feed!Hear(l, m)
           \/ UNCHANGED <<Elements(sent), got>>
<1> USE DEF StoreInv, FeedInv
<1>1. UNCHANGED sent
  BY OnlyListener
<1>2. CASE Lookup(l) \/ CopyHistory(l) \/ Subscribe(l) \/ HangUp(l)
  BY <1>1, <1>2 DEF Lookup, CopyHistory, Subscribe, HangUp, received
<1>3. CASE FromHistory(l)
  <2>1. /\ at[l] \in {"live", "replay"} /\ buf[l] # <<>> /\ buf[l] \in Seq(Message)
        /\ Receive(l, Head(buf[l]))
    BY <1>3 DEF FromHistory, TypeOK
  <2>2. Older(Elements(got[l]), Elements(buf[l])) /\ Elements(buf[l]) \subseteq Elements(sent)
    BY <2>1, FollowsSent DEF Following, Follows
  <2>3. Head(buf[l]) \in Message /\ Head(buf[l]) \in Elements(buf[l])
    BY <2>1, TailFacts
  <2>4. Older(Elements(got[l]), {Head(buf[l])}) /\ Head(buf[l]) \in Elements(sent)
    BY <2>2, <2>3 DEF Older
  <2> QED BY <1>1, <2>1, <2>3, <2>4, ReceiveHears
<1>4. CASE FromChannel(l)
  <2>1. CASE Receive(l, sent[pos[l]])
    <3>1. /\ at[l] = "live" /\ pos[l] <= Len(sent) /\ sent \in Seq(Message) /\ Ordered(sent)
      BY <1>4 DEF FromChannel, TypeOK, Counted
    <3>2. Live(l)
      BY <3>1 DEF Following, Follows
    <3>3. pos[l] \in 1 .. Len(sent) /\ Elements(got[l]) \subseteq SentBefore(pos[l])
      BY <3>1, <3>2 DEF Live
    <3>4. /\ sent[pos[l]] \in Message /\ sent[pos[l]] \in Elements(sent)
          /\ Older(SentBefore(pos[l]), {sent[pos[l]]})
      BY <3>1, <3>3, SentFacts
    <3>5. Older(Elements(got[l]), {sent[pos[l]]})
      BY <3>3, <3>4 DEF Older
    <3> QED BY <1>1, <2>1, <3>4, <3>5, ReceiveHears
  <2>2. CASE UNCHANGED received
    BY <1>1, <2>2 DEF received
  <2> QED BY <1>4, <2>1, <2>2 DEF FromChannel
<1> QED BY <1>2, <1>3, <1>4 DEF ListenerStep

\* Every step of the store is a step of the feed, or none.
LEMMA StepImplements ==
    ASSUME StoreInv, [Next]_vars
    PROVE  [Feed!FeedNext]_<<Elements(sent), got>>
<1>1. ASSUME NEW p \in Producer, ProducerStep(p)
      PROVE  [Feed!FeedNext]_<<Elements(sent), got>>
  <2>1. CASE Send(p)
    BY <2>1, SendPublishes DEF Feed!FeedNext
  <2>2. CASE Store(p) \/ EndOfStream(p)
    BY <2>2 DEF Store, EndOfStream, listeners, received
  <2> QED BY <1>1, <2>1, <2>2 DEF ProducerStep
<1>2. ASSUME NEW c \in Closer, CloserStep(c)
      PROVE  [Feed!FeedNext]_<<Elements(sent), got>>
  <2>1. CASE SendFinished(c)
    BY <2>1, FinishPublishes DEF Feed!FeedNext
  <2>2. CASE Unregister(c) \/ StoreFinished(c)
    BY <2>2 DEF Unregister, StoreFinished, pushes, listeners, received
  <2> QED BY <1>2, <2>1, <2>2 DEF CloserStep
<1>3. ASSUME NEW l \in Listener, ListenerStep(l)
      PROVE  [Feed!FeedNext]_<<Elements(sent), got>>
  BY <1>3, ListenerHears DEF Feed!FeedNext
<1>4. CASE UNCHANGED vars
  BY <1>4 DEF vars, pushes, listeners, received
<1> QED BY <1>1, <1>2, <1>3, <1>4 DEF Next

\* MsgStore implements LogFeed: because push sends before it appends and a listener
\* copies the history before it subscribes, nobody is given a message twice or out
\* of its producer's order, and the end is announced once.
THEOREM Implements == Spec => FeedImplemented
<1>1. Init => Feed!FeedInit
  BY EmptyFacts DEF Init, Feed!FeedInit
<1>2. StoreInv /\ [Next]_vars => [Feed!FeedNext]_<<Elements(sent), got>>
  BY StepImplements
<1> QED BY <1>1, <1>2, Invariance, PTL DEF Spec, FeedImplemented, Feed!FeedSpec

\* What that means to a follower of the log.
InOrderOnce ==
    \A l \in Listener : \A i, j \in DOMAIN got[l] : i < j =>
        /\ got[l][i] # got[l][j]
        /\ got[l][i][1] = got[l][j][1] => got[l][i][2] < got[l][j][2]

\* Whoever follows an execution's log, from the history, the channel or the file, is
\* given no message twice, and the messages of one producer in the order of their pushes.
THEOREM HeardInOrderOnce == Spec => []InOrderOnce
<1>1. StoreInv => InOrderOnce
  <2> SUFFICES ASSUME StoreInv, NEW l \in Listener, NEW i \in DOMAIN got[l], NEW j \in DOMAIN got[l],
                      i < j
               PROVE  /\ got[l][i] # got[l][j]
                      /\ got[l][i][1] = got[l][j][1] => got[l][i][2] < got[l][j][2]
    BY DEF InOrderOnce
  <2>1. got[l] \in Seq(Message) /\ Ordered(got[l])
    BY DEF StoreInv, FeedInv, TypeOK, Following, Follows
  <2>2. got[l][i] \in Message /\ got[l][i][2] \in Nat
    BY <2>1, MessageFacts
  <2>3. got[l][i][1] = got[l][j][1] => got[l][i][2] < got[l][j][2]
    BY <2>1 DEF Ordered
  <2> QED BY <2>2, <2>3
<1> QED BY <1>1, Invariance, PTL

=============================================================================
