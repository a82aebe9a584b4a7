---------------------------- MODULE SensorProofs ----------------------------
(***************************************************************************)
(* Proofs about Sensor, for every number of samples, depth of the queue,   *)
(* period and range of temperatures: what the console shows.               *)
(*                                                                         *)
(* The invariant follows a reading on its way: sampled, being sent, in the *)
(* queue, counted, printed.  What the device has shown and what is left to *)
(* print are together the log of the readings counted so far, whichever    *)
(* half of a character has been stored.                                    *)
(***************************************************************************)
EXTENDS Sensor, SequenceTheorems, WellFoundedInduction, TLAPS

Readings == [tick : Nat, temp : Temps]

\* What the firmware prints; One and Zero are not among it.
Chars == {"ms", "temp", "nl", "samples", "min", "max", "avg"} \X Int

First(n) == SubSeq(sampled, 1, n)

\* The readings that have been put into the queue.
Sent == IF sensor = "send" /\ pending # Sentinel THEN Len(sampled) - 1
        ELSE Len(sampled)

\* The logger has received the sentinel.
Ended == logger \in {"summary", "poweroff", "off"}

Types ==
    /\ tick \in 0 .. MaxTick
    /\ sampled \in Seq(Readings)
    /\ queue \in Seq(Readings \cup {Sentinel}) /\ Len(queue) <= Depth
    /\ sensor \in {"delay", "sample", "send", "gone"}
    /\ logger \in {"receive", "print", "summary", "poweroff", "off"}
    /\ half \in {"lo", "hi"}
    /\ stats \in [count : Nat, min : Int, max : Int, sum : Int]
    /\ text \in Seq(Chars) /\ console \in Seq(Chars)
    /\ powered \in BOOLEAN

\* The reading being sent is the last sampled, and the sentinel follows them all.
Place ==
    /\ Len(sampled) <= Samples
    /\ sensor \in {"delay", "sample"} => Len(sampled) < Samples
    /\ sensor = "send" =>
         \/ pending = Sentinel /\ Len(sampled) = Samples
         \/ /\ pending \in Readings
            /\ Len(sampled) > 0 /\ pending = sampled[Len(sampled)]
    /\ sensor = "gone" => Len(sampled) = Samples

\* The queue holds the readings sent and not counted, in order, then the sentinel.
Queued ==
    /\ stats.count <= Sent
    /\ Ended => sensor = "gone" /\ stats.count = Samples /\ queue = <<>>
    /\ ~Ended =>
         /\ Len(queue) = (Sent - stats.count) + (IF sensor = "gone" THEN 1 ELSE 0)
         /\ \A i \in 1 .. Sent - stats.count : queue[i] = sampled[stats.count + i]
         /\ sensor = "gone" => queue[Len(queue)] = Sentinel

\* The statistics are those of the readings counted.
Statistics ==
    /\ stats.sum = SumOf(First(stats.count))
    /\ stats.count = 0 => stats.min = INT32_MAX /\ stats.max = 0
    /\ \A i \in 1 .. stats.count :
         stats.min <= sampled[i].temp /\ sampled[i].temp <= stats.max
    /\ stats.count > 0 =>
         /\ \E i \in 1 .. stats.count : stats.min = sampled[i].temp
         /\ \E i \in 1 .. stats.count : stats.max = sampled[i].temp

\* What is shown and what is left to print are the log of the readings counted.
Shown ==
    /\ ~Ended => console \o text = Log(First(stats.count))
    /\ Ended => console \o text = WholeLog(sampled)
    /\ text = <<>> <=> logger \in {"receive", "poweroff", "off"}

\* What the words of tohost hold between two stores.
Device ==
    /\ hi = "zero"
    /\ powered <=> logger # "off"
    /\ logger = "receive" => half = "lo"
    /\ logger \in {"receive", "print", "summary"} /\ half = "lo" => lo = Zero
    /\ logger \in {"print", "summary"} /\ half = "hi" => lo = Head(text)
    /\ logger = "poweroff" => lo = Zero

IInv == Types /\ Place /\ Queued /\ Statistics /\ Shown /\ Device

-----------------------------------------------------------------------------
(* Induction over the natural numbers, for a set in place of a predicate.  *)

LEMMA SetInduction ==
    ASSUME NEW T, 0 \in T, \A n \in Nat : n \in T => n + 1 \in T
    PROVE  \A n \in Nat : n \in T
<1> SUFFICES ASSUME Nat \ T # {} PROVE FALSE
  OBVIOUS
<1>1. PICK n \in Nat \ T : \A m \in Nat \ T : <<m, n>> \notin OpToRel(<, Nat)
  BY NatLessThanWellFounded, WFMin
<1>2. n # 0 /\ n - 1 \in Nat /\ n - 1 + 1 = n
  OBVIOUS
<1>3. n - 1 \in Nat \ T
  BY <1>2
<1>4. <<n - 1, n>> \in OpToRel(<, Nat)
  BY <1>3 DEF OpToRel
<1> QED BY <1>1, <1>3, <1>4

-----------------------------------------------------------------------------
(* The sum of the temperatures.                                            *)

\* The sequences agree in their first n elements.
Agree(s, t, n) == \A i \in 1 .. n : s[i] = t[i]

Adds(s, n, f) == f = [i \in 0 .. n |-> IF i = 0 THEN 0 ELSE f[i - 1] + s[i].temp]

LEMMA AddsStep ==
    ASSUME NEW s, NEW n \in Nat, NEW f, Adds(s, n, f)
    PROVE  f[0] = 0 /\ \A i \in 1 .. n : f[i] = f[i - 1] + s[i].temp
BY DEF Adds

LEMMA AddsExist ==
    ASSUME NEW s, \A i \in 1 .. Len(s) : s[i].temp \in Int, Len(s) \in Nat
    PROVE  \A n \in Nat : n <= Len(s) => \E f : Adds(s, n, f) /\ f[n] \in Int
<1> DEFINE T == {n \in Nat : n <= Len(s) => \E f : Adds(s, n, f) /\ f[n] \in Int}
<1>1. 0 \in T
  <2> DEFINE f == [i \in 0 .. 0 |-> 0]
  <2>1. Adds(s, 0, f) /\ f[0] \in Int
    BY DEF Adds
  <2> QED BY <2>1
<1>2. ASSUME NEW n \in Nat, n \in T PROVE n + 1 \in T
  <2> SUFFICES ASSUME n + 1 <= Len(s)
               PROVE  \E f : Adds(s, n + 1, f) /\ f[n + 1] \in Int
    OBVIOUS
  <2>1. PICK f : Adds(s, n, f) /\ f[n] \in Int
    BY <1>2
  <2> DEFINE g == [i \in 0 .. n + 1 |-> IF i = n + 1 THEN f[n] + s[n + 1].temp ELSE f[i]]
  <2>2. \A i \in 0 .. n + 1 : g[i] = IF i = 0 THEN 0 ELSE g[i - 1] + s[i].temp
    BY <2>1, AddsStep
  <2>3. g = [i \in 0 .. n + 1 |-> g[i]]
    OBVIOUS
  <2>4. Adds(s, n + 1, g)
    <3> HIDE DEF g
    <3> QED BY <2>2, <2>3 DEF Adds
  <2>5. g[n + 1] \in Int
    BY <2>1
  <2> QED BY <2>4, <2>5
<1> HIDE DEF T
<1>3. \A n \in Nat : n \in T
  BY <1>1, <1>2, SetInduction
<1> QED BY <1>3 DEF T

\* Sums over two sequences agree as far as the sequences do.
LEMMA AddsAgree ==
    ASSUME NEW s, NEW t, NEW n \in Nat, NEW m \in Nat, n <= m,
           Agree(s, t, n),
           NEW f, NEW g, Adds(s, n, f), Adds(t, m, g)
    PROVE  \A i \in Nat : i <= n => f[i] = g[i]
<1> DEFINE T == {i \in Nat : i <= n => f[i] = g[i]}
<1>0. /\ f[0] = 0 /\ \A i \in 1 .. n : f[i] = f[i - 1] + s[i].temp
      /\ g[0] = 0 /\ \A i \in 1 .. m : g[i] = g[i - 1] + t[i].temp
      /\ \A i \in 1 .. n : s[i] = t[i]
  BY AddsStep DEF Agree
<1>1. 0 \in T
  BY <1>0
<1>2. ASSUME NEW i \in Nat, i \in T PROVE i + 1 \in T
  <2> SUFFICES ASSUME i + 1 <= n PROVE f[i + 1] = g[i + 1]
    OBVIOUS
  <2>1. f[i + 1] = f[i] + s[i + 1].temp /\ g[i + 1] = g[i] + t[i + 1].temp
    <3>1. i + 1 \in 1 .. n /\ i + 1 \in 1 .. m /\ (i + 1) - 1 = i
      OBVIOUS
    <3> QED BY <3>1, <1>0
  <2>2. s[i + 1] = t[i + 1]
    BY <1>0
  <2> QED BY <1>2, <2>1, <2>2
<1> HIDE DEF T
<1>3. \A i \in Nat : i \in T
  BY <1>1, <1>2, SetInduction
<1> QED BY <1>3 DEF T

LEMMA SumAdds ==
    ASSUME NEW s \in Seq(Readings)
    PROVE  SumOf(s) \in Int /\ \E f : Adds(s, Len(s), f) /\ SumOf(s) = f[Len(s)]
<1>1. Len(s) \in Nat /\ \A i \in 1 .. Len(s) : s[i].temp \in Int
  <2>1. Temps \subseteq Int
    <3>1. Temps \subseteq 0 .. INT32_MAX
      BY SensorAssumption
    <3>2. INT32_MAX \in Int
      BY DEF INT32_MAX
    <3> QED BY <3>1, <3>2
  <2>2. \A i \in 1 .. Len(s) : s[i] \in Readings
    BY ElementOfSeq
  <2> QED BY <2>1, <2>2, LenProperties DEF Readings
<1>2. PICK h : Adds(s, Len(s), h) /\ h[Len(s)] \in Int
  BY <1>1, AddsExist
<1> DEFINE f == CHOOSE g : Adds(s, Len(s), g)
<1>3. Adds(s, Len(s), f)
  BY <1>2
<1>4. SumOf(s) = f[Len(s)]
  BY DEF SumOf, Adds
<1> HIDE DEF f
<1>5. f[Len(s)] = h[Len(s)]
  <2>1. Agree(s, s, Len(s)) /\ Len(s) <= Len(s)
    BY <1>1 DEF Agree
  <2>2. \A i \in Nat : i <= Len(s) => f[i] = h[i]
    BY <1>1, <1>2, <1>3, <2>1, AddsAgree
  <2> QED BY <1>1, <2>2
<1> QED BY <1>2, <1>3, <1>4, <1>5

LEMMA SumEmpty == SumOf(<<>>) = 0
<1>1. <<>> \in Seq(Readings) /\ Len(<<>>) = 0
  OBVIOUS
<1>2. PICK f : Adds(<<>>, 0, f) /\ SumOf(<<>>) = f[0]
  BY <1>1, SumAdds
<1> QED BY <1>2, AddsStep

LEMMA SumAppend ==
    ASSUME NEW s \in Seq(Readings), NEW r \in Readings
    PROVE  SumOf(Append(s, r)) = SumOf(s) + r.temp
<1> DEFINE t == Append(s, r)
<1>1. /\ t \in Seq(Readings) /\ Len(t) = Len(s) + 1 /\ Len(s) \in Nat
      /\ \A i \in 1 .. Len(s) : s[i] = t[i]
      /\ t[Len(s) + 1] = r
  BY AppendProperties, LenProperties
<1> HIDE DEF t
<1>2. PICK f : Adds(s, Len(s), f) /\ SumOf(s) = f[Len(s)]
  BY SumAdds
<1>3. PICK g : Adds(t, Len(t), g) /\ SumOf(t) = g[Len(t)]
  BY <1>1, SumAdds
<1>4. f[Len(s)] = g[Len(s)]
  <2>1. Len(s) \in Nat /\ Len(t) \in Nat /\ Len(s) <= Len(t)
    BY <1>1
  <2>2. Agree(s, t, Len(s))
    BY <1>1 DEF Agree
  <2>3. Adds(s, Len(s), f) /\ Adds(t, Len(t), g)
    BY <1>2, <1>3
  <2>4. \A i \in Nat : i <= Len(s) => f[i] = g[i]
    BY <2>1, <2>2, <2>3, AddsAgree
  <2> QED BY <2>1, <2>4
<1>5. g[Len(t)] = g[Len(s)] + r.temp
  <2>1. Len(t) \in 1 .. Len(t) /\ Len(t) - 1 = Len(s) /\ Len(t) \in Nat
    BY <1>1
  <2>2. g[Len(t)] = g[Len(t) - 1] + t[Len(t)].temp
    BY <1>3, <2>1, AddsStep
  <2> QED BY <1>1, <2>1, <2>2
<1> QED BY <1>2, <1>3, <1>4, <1>5 DEF t

-----------------------------------------------------------------------------
(* Flattening.                                                             *)

Joins(F, n, g) == g = [i \in 1 .. n |-> IF i = 1 THEN F[i] ELSE g[i - 1] \o F[i]]

LEMMA JoinsStep ==
    ASSUME NEW F, NEW n \in Nat, NEW g, Joins(F, n, g)
    PROVE  \A i \in 1 .. n : g[i] = IF i = 1 THEN F[i] ELSE g[i - 1] \o F[i]
BY DEF Joins

LEMMA JoinsExist ==
    ASSUME NEW C, NEW F \in Seq(Seq(C))
    PROVE  \A n \in Nat : n + 1 <= Len(F) => \E g : Joins(F, n + 1, g) /\ g[n + 1] \in Seq(C)
<1> DEFINE T == {n \in Nat : n + 1 <= Len(F) => \E g : Joins(F, n + 1, g) /\ g[n + 1] \in Seq(C)}
<1>0. Len(F) \in Nat /\ \A i \in 1 .. Len(F) : F[i] \in Seq(C)
  BY ElementOfSeq, LenProperties
<1>1. 0 \in T
  <2> SUFFICES ASSUME 1 <= Len(F) PROVE \E g : Joins(F, 1, g) /\ g[1] \in Seq(C)
    OBVIOUS
  <2> DEFINE g == [i \in 1 .. 1 |-> F[1]]
  <2>1. g = [i \in 1 .. 1 |-> IF i = 1 THEN F[i] ELSE g[i - 1] \o F[i]]
    OBVIOUS
  <2>2. g[1] \in Seq(C)
    BY <1>0
  <2> QED BY <2>1, <2>2 DEF Joins
<1>2. ASSUME NEW n \in Nat, n \in T PROVE n + 1 \in T
  <2> SUFFICES ASSUME n + 2 <= Len(F)
               PROVE  \E g : Joins(F, n + 2, g) /\ g[n + 2] \in Seq(C)
    BY (n + 1) + 1 = n + 2
  <2>1. PICK f : Joins(F, n + 1, f) /\ f[n + 1] \in Seq(C)
    BY <1>0, <1>2
  <2> DEFINE g == [i \in 1 .. n + 2 |-> IF i = n + 2 THEN f[n + 1] \o F[n + 2] ELSE f[i]]
  <2>2. ASSUME NEW i \in 1 .. n + 2
        PROVE  g[i] = IF i = 1 THEN F[i] ELSE g[i - 1] \o F[i]
    <3>1. CASE i = n + 2
      <4>1. g[n + 2] = f[n + 1] \o F[n + 2] /\ g[n + 1] = f[n + 1]
        <5>1. n + 2 \in 1 .. n + 2 /\ n + 1 \in 1 .. n + 2 /\ n + 1 # n + 2
          OBVIOUS
        <5> QED BY <5>1
      <4>2. i # 1 /\ i - 1 = n + 1
        BY <3>1
      <4> HIDE DEF g
      <4> QED BY <3>1, <4>1, <4>2
    <3>2. CASE i # n + 2
      <4>1. i \in 1 .. n + 1 /\ n + 1 \in Nat
        BY <3>2
      <4>2. f[i] = IF i = 1 THEN F[i] ELSE f[i - 1] \o F[i]
        BY <2>1, <4>1, JoinsStep
      <4>3. g[i] = f[i] /\ (i # 1 => g[i - 1] = f[i - 1])
        BY <4>1
      <4> HIDE DEF g
      <4> QED BY <4>2, <4>3
    <3> QED BY <3>1, <3>2
  <2>3. g = [i \in 1 .. n + 2 |-> g[i]]
    OBVIOUS
  <2>4. g[n + 2] = f[n + 1] \o F[n + 2]
    <3>1. n + 2 \in 1 .. n + 2
      OBVIOUS
    <3> QED BY <3>1
  <2> HIDE DEF g
  <2>5. Joins(F, n + 2, g)
    BY <2>2, <2>3 DEF Joins
  <2>6. g[n + 2] \in Seq(C)
    <3>1. F[n + 2] \in Seq(C)
      BY <1>0
    <3> QED BY <2>1, <2>4, <3>1, ConcatProperties
  <2> QED BY <2>5, <2>6
<1> HIDE DEF T
<1>3. \A n \in Nat : n \in T
  BY <1>1, <1>2, SetInduction
<1> QED BY <1>3 DEF T

LEMMA JoinsAgree ==
    ASSUME NEW F, NEW G, NEW n \in Nat, NEW m \in Nat, n <= m,
           Agree(F, G, n),
           NEW f, NEW g, Joins(F, n, f), Joins(G, m, g)
    PROVE  \A i \in Nat : i + 1 <= n => f[i + 1] = g[i + 1]
<1> DEFINE T == {i \in Nat : i + 1 <= n => f[i + 1] = g[i + 1]}
<1>0. /\ \A i \in 1 .. n : f[i] = IF i = 1 THEN F[i] ELSE f[i - 1] \o F[i]
      /\ \A i \in 1 .. m : g[i] = IF i = 1 THEN G[i] ELSE g[i - 1] \o G[i]
      /\ \A i \in 1 .. n : F[i] = G[i]
  BY JoinsStep DEF Agree
<1>1. 0 \in T
  <2> SUFFICES ASSUME 1 <= n PROVE f[1] = g[1]
    OBVIOUS
  <2>1. 1 \in 1 .. n /\ 1 \in 1 .. m
    OBVIOUS
  <2>2. f[1] = F[1]
    BY <2>1, <1>0
  <2>3. g[1] = G[1]
    BY <2>1, <1>0
  <2> QED BY <1>0, <2>1, <2>2, <2>3
<1>2. ASSUME NEW i \in Nat, i \in T PROVE i + 1 \in T
  <2> SUFFICES ASSUME i + 2 <= n PROVE f[i + 2] = g[i + 2]
    BY (i + 1) + 1 = i + 2
  <2>1. i + 2 \in 1 .. n /\ i + 2 \in 1 .. m /\ (i + 2) - 1 = i + 1 /\ i + 2 # 1
    OBVIOUS
  <2>2. f[i + 2] = f[i + 1] \o F[i + 2]
    <3>1. f[i + 2] = IF i + 2 = 1 THEN F[i + 2] ELSE f[(i + 2) - 1] \o F[i + 2]
      BY <2>1, <1>0
    <3> QED BY <2>1, <3>1
  <2>3. g[i + 2] = g[i + 1] \o G[i + 2]
    <3>1. g[i + 2] = IF i + 2 = 1 THEN G[i + 2] ELSE g[(i + 2) - 1] \o G[i + 2]
      BY <2>1, <1>0
    <3> QED BY <2>1, <3>1
  <2>4. f[i + 1] = g[i + 1]
    BY <1>2
  <2> QED BY <1>0, <2>1, <2>2, <2>3, <2>4
<1> HIDE DEF T
<1>3. \A i \in Nat : i \in T
  BY <1>1, <1>2, SetInduction
<1> QED BY <1>3 DEF T

LEMMA FlatJoins ==
    ASSUME NEW C, NEW F \in Seq(Seq(C)), Len(F) # 0
    PROVE  /\ FlattenSeq(F) \in Seq(C)
           /\ \E g : Joins(F, Len(F), g) /\ FlattenSeq(F) = g[Len(F)]
<1>1. Len(F) \in Nat /\ Len(F) - 1 \in Nat /\ (Len(F) - 1) + 1 = Len(F)
  BY LenProperties
<1>2. PICK h : Joins(F, Len(F), h) /\ h[Len(F)] \in Seq(C)
  <2>1. \E g : Joins(F, (Len(F) - 1) + 1, g) /\ g[(Len(F) - 1) + 1] \in Seq(C)
    <3>1. (Len(F) - 1) + 1 <= Len(F)
      BY <1>1
    <3>2. \A n \in Nat : n + 1 <= Len(F) => \E g : Joins(F, n + 1, g) /\ g[n + 1] \in Seq(C)
      BY JoinsExist
    <3> QED BY <1>1, <3>1, <3>2
  <2> QED BY <1>1, <2>1
<1> DEFINE f == CHOOSE g : Joins(F, Len(F), g)
<1>3. Joins(F, Len(F), f)
  BY <1>2
<1>4. FlattenSeq(F) = f[Len(F)]
  BY DEF FlattenSeq, Joins
<1> HIDE DEF f
<1>5. f[Len(F)] = h[Len(F)]
  <2>1. f[(Len(F) - 1) + 1] = h[(Len(F) - 1) + 1]
    <3>1. Agree(F, F, Len(F)) /\ Len(F) <= Len(F) /\ (Len(F) - 1) + 1 <= Len(F)
      BY <1>1 DEF Agree
    <3>2. \A i \in Nat : i + 1 <= Len(F) => f[i + 1] = h[i + 1]
      BY <1>1, <1>2, <1>3, <3>1, JoinsAgree
    <3> QED BY <1>1, <3>1, <3>2
  <2> QED BY <1>1, <2>1
<1> QED BY <1>2, <1>3, <1>4, <1>5

LEMMA FlatEmpty == ASSUME NEW F, Len(F) = 0 PROVE FlattenSeq(F) = F
BY DEF FlattenSeq

LEMMA FlatAppend ==
    ASSUME NEW C, NEW F \in Seq(Seq(C)), NEW x \in Seq(C)
    PROVE  FlattenSeq(Append(F, x)) = FlattenSeq(F) \o x /\ FlattenSeq(F) \in Seq(C)
<1> DEFINE G == Append(F, x)
<1>1. /\ G \in Seq(Seq(C)) /\ Len(F) \in Nat /\ Len(G) = Len(F) + 1
      /\ \A i \in 1 .. Len(F) : G[i] = F[i]
      /\ G[Len(F) + 1] = x
  BY AppendProperties, LenProperties
<1> HIDE DEF G
<1>2. PICK g : Joins(G, Len(G), g) /\ FlattenSeq(G) = g[Len(G)]
  BY <1>1, FlatJoins
<1>3. Len(G) \in 1 .. Len(G) /\ Len(G) \in Nat
  BY <1>1
<1>4. g[Len(G)] = IF Len(G) = 1 THEN G[Len(G)] ELSE g[Len(G) - 1] \o G[Len(G)]
  BY <1>2, <1>3, JoinsStep
<1>5. CASE Len(F) = 0
  <2>1. F = <<>>
    BY <1>5, EmptySeq
  <2>2. FlattenSeq(F) = <<>>
    BY <2>1, <1>5, FlatEmpty
  <2>3. FlattenSeq(G) = x
    BY <1>1, <1>2, <1>4, <1>5
  <2>4. <<>> \o x = x /\ <<>> \in Seq(C)
    BY ConcatEmptySeq
  <2> QED BY <2>2, <2>3, <2>4 DEF G
<1>6. CASE Len(F) # 0
  <2>1. PICK f : Joins(F, Len(F), f) /\ FlattenSeq(F) = f[Len(F)]
    BY <1>6, FlatJoins
  <2>2. FlattenSeq(F) \in Seq(C)
    BY <1>6, FlatJoins
  <2>3. (Len(F) - 1) + 1 = Len(F) /\ Len(F) - 1 \in Nat
    BY <1>1, <1>6
  <2>4. f[(Len(F) - 1) + 1] = g[(Len(F) - 1) + 1]
    <3>1. Len(F) <= Len(G) /\ (Len(F) - 1) + 1 <= Len(F)
      BY <1>1, <2>3
    <3>2. Len(F) \in Nat /\ Len(G) \in Nat /\ Agree(F, G, Len(F))
      BY <1>1 DEF Agree
    <3>3. Joins(F, Len(F), f) /\ Joins(G, Len(G), g)
      BY <1>2, <2>1
    <3>4. \A i \in Nat : i + 1 <= Len(F) => f[i + 1] = g[i + 1]
      BY <3>1, <3>2, <3>3, JoinsAgree
    <3> QED BY <2>3, <3>1, <3>4
  <2>5. f[Len(F)] = g[Len(F)]
    BY <2>3, <2>4
  <2>6. g[Len(G)] = g[Len(F)] \o x
    <3>1. Len(G) # 1 /\ Len(G) - 1 = Len(F)
      BY <1>1, <1>6
    <3> QED BY <1>1, <1>4, <3>1
  <2> QED BY <1>2, <2>1, <2>2, <2>5, <2>6 DEF G
<1> QED BY <1>5, <1>6

-----------------------------------------------------------------------------
(* The log.                                                                *)

LEMMA TempRange == \A r \in Readings : /\ r.tick \in Nat /\ r.temp \in Int
                                       /\ 0 <= r.temp /\ r.temp <= INT32_MAX
<1>1. Temps \subseteq 0 .. INT32_MAX
  BY SensorAssumption
<1>2. INT32_MAX \in Int
  BY DEF INT32_MAX
<1> SUFFICES ASSUME NEW r \in Readings
             PROVE  r.tick \in Nat /\ r.temp \in Int /\ 0 <= r.temp /\ r.temp <= INT32_MAX
  OBVIOUS
<1>3. r.tick \in Nat /\ r.temp \in Temps
  BY DEF Readings
<1>4. r.temp \in 0 .. INT32_MAX
  BY <1>1, <1>3
<1> QED BY <1>2, <1>3, <1>4

LEMMA LineIsText == \A r \in Readings : Line(r) \in Seq(Chars) /\ Len(Line(r)) = 3
<1> SUFFICES ASSUME NEW r \in Readings PROVE Line(r) \in Seq(Chars) /\ Len(Line(r)) = 3
  OBVIOUS
<1>1. r.tick \in Int /\ r.temp \in Int
  BY TempRange
<1>2. <<"ms", r.tick>> \in Chars /\ <<"temp", r.temp>> \in Chars /\ Newline \in Chars
  BY <1>1 DEF Chars, Newline
<1> QED BY <1>2 DEF Line

LEMMA LogEmpty == Log(<<>>) = <<>>
<1> DEFINE F == [i \in DOMAIN <<>> |-> Line(<<>>[i])]
<1>1. F = <<>>
  OBVIOUS
<1>2. Len(<<>>) = 0
  OBVIOUS
<1> HIDE DEF F
<1>3. FlattenSeq(F) = <<>>
  BY <1>1, <1>2, FlatEmpty
<1> QED BY <1>3 DEF Log, F

LEMMA LogAppend ==
    ASSUME NEW s \in Seq(Readings), NEW r \in Readings
    PROVE  Log(Append(s, r)) = Log(s) \o Line(r) /\ Log(s) \in Seq(Chars)
<1> DEFINE t == Append(s, r)
           F == [i \in DOMAIN s |-> Line(s[i])]
           G == [i \in DOMAIN t |-> Line(t[i])]
<1>1. /\ Len(s) \in Nat /\ DOMAIN s = 1 .. Len(s) /\ DOMAIN t = 1 .. Len(s) + 1
      /\ \A i \in 1 .. Len(s) : t[i] = s[i] /\ s[i] \in Readings
      /\ t[Len(s) + 1] = r
  BY AppendProperties, LenProperties, ElementOfSeq
<1>2. F \in Seq(Seq(Chars)) /\ Len(F) = Len(s)
  <2>1. \A i \in 1 .. Len(s) : Line(s[i]) \in Seq(Chars)
    BY <1>1, LineIsText
  <2>2. F = [i \in 1 .. Len(s) |-> Line(s[i])]
    BY <1>1
  <2> HIDE DEF F
  <2> QED BY <1>1, <2>1, <2>2
<1>3. /\ Append(F, Line(r)) \in Seq(Seq(Chars)) /\ Len(Append(F, Line(r))) = Len(s) + 1
      /\ \A i \in 1 .. Len(s) : Append(F, Line(r))[i] = F[i]
      /\ Append(F, Line(r))[Len(s) + 1] = Line(r)
  <2> HIDE DEF F
  <2> QED BY <1>2, LineIsText, AppendProperties
<1>4. Append(F, Line(r)) = G
  <2> DEFINE A == Append(F, Line(r))
  <2>1. DOMAIN A = 1 .. Len(s) + 1 /\ A = [i \in 1 .. Len(s) + 1 |-> A[i]]
    <3> HIDE DEF A
    <3>1. A \in Seq(Seq(Chars)) /\ Len(A) = Len(s) + 1
      BY <1>3 DEF A
    <3> QED BY <3>1, LenProperties
  <2>2. \A i \in 1 .. Len(s) + 1 : A[i] = Line(t[i])
    <3> SUFFICES ASSUME NEW i \in 1 .. Len(s) + 1 PROVE A[i] = Line(t[i])
      OBVIOUS
    <3>1. CASE i = Len(s) + 1
      BY <3>1, <1>1, <1>3
    <3>2. CASE i # Len(s) + 1
      <4>1. i \in 1 .. Len(s)
        BY <1>1, <3>2
      <4>2. F[i] = Line(s[i])
        BY <1>1, <4>1
      <4> QED BY <1>1, <1>3, <4>1, <4>2
    <3> QED BY <3>1, <3>2
  <2>3. G = [i \in 1 .. Len(s) + 1 |-> Line(t[i])]
    BY <1>1
  <2> HIDE DEF A, G, t
  <2>4. A = G
    BY <2>1, <2>2, <2>3
  <2> QED BY <2>4 DEF A
<1>5. FlattenSeq(Append(F, Line(r))) = FlattenSeq(F) \o Line(r) /\ FlattenSeq(F) \in Seq(Chars)
  <2> HIDE DEF F
  <2> QED BY <1>2, LineIsText, FlatAppend
<1>6. FlattenSeq(F) = Log(s) /\ FlattenSeq(G) = Log(t)
  BY DEF Log
<1> HIDE DEF F, G
<1> QED BY <1>4, <1>5, <1>6

\* The first readings of a log.
LEMMA OneMore ==
    ASSUME NEW s \in Seq(Readings), NEW c \in Nat, c < Len(s)
    PROVE  /\ SubSeq(s, 1, c) \in Seq(Readings) /\ s[c + 1] \in Readings
           /\ SubSeq(s, 1, c + 1) = Append(SubSeq(s, 1, c), s[c + 1])
<1>1. Len(s) \in Nat /\ \A i \in 1 .. Len(s) : s[i] \in Readings
  BY LenProperties, ElementOfSeq
<1>2. c + 1 \in 1 .. Len(s) /\ 1 \in 1 .. Len(s) /\ c + 1 \in 1 .. Len(s) /\ (c + 1) - 1 = c
  BY <1>1
<1>3. SubSeq(s, 1, c) \in Seq(Readings)
  BY <1>1, <1>2, SubSeqProperties
<1>4. SubSeq(s, 1, c + 1) = SubSeq(s, 1, (c + 1) - 1) \o <<s[c + 1]>>
  BY <1>2, SubSeqRecursiveSecond
<1> QED BY <1>1, <1>2, <1>3, <1>4, AppendIsConcat

LEMMA LogGrows ==
    ASSUME NEW s \in Seq(Readings), NEW c \in Nat, c <= Len(s)
    PROVE  /\ Log(SubSeq(s, 1, c)) \in Seq(Chars)
           /\ \E w \in Seq(Chars) : Log(s) = Log(SubSeq(s, 1, c)) \o w
<1> DEFINE L(n) == Log(SubSeq(s, 1, n))
           T == {d \in Nat : c + d <= Len(s) => \E w \in Seq(Chars) : L(c + d) = L(c) \o w}
<1>1. Len(s) \in Nat /\ \A i \in 1 .. Len(s) : s[i] \in Readings
  BY LenProperties, ElementOfSeq
<1>2. L(c) \in Seq(Chars)
  <2>1. CASE c = 0
    <3>1. SubSeq(s, 1, c) = <<>>
      BY <2>1, SubSeqEmpty
    <3> QED BY <3>1, LogEmpty, EmptySeq
  <2>2. CASE c # 0
    <3>1. SubSeq(s, 1, c) \in Seq(Readings) /\ s[c] \in Readings
      BY <1>1, <2>2, SubSeqProperties
    <3> QED BY <3>1, LogAppend
  <2> QED BY <2>1, <2>2
<1> HIDE DEF L
<1>3. 0 \in T
  <2>1. L(c) \o <<>> = L(c) /\ <<>> \in Seq(Chars) /\ c + 0 = c
    BY <1>2, ConcatEmptySeq, EmptySeq
  <2> QED BY <2>1
<1>4. ASSUME NEW d \in Nat, d \in T PROVE d + 1 \in T
  <2> SUFFICES ASSUME (c + d) + 1 <= Len(s)
               PROVE  \E w \in Seq(Chars) : L((c + d) + 1) = L(c) \o w
    BY c + (d + 1) = (c + d) + 1
  <2>1. PICK w \in Seq(Chars) : L(c + d) = L(c) \o w
    BY <1>1, <1>4
  <2>2. c + d \in Nat /\ c + d < Len(s)
    BY <1>1
  <2>3. L((c + d) + 1) = L(c + d) \o Line(s[(c + d) + 1]) /\ s[(c + d) + 1] \in Readings
    BY <2>2, OneMore, LogAppend DEF L
  <2> DEFINE x == Line(s[(c + d) + 1])
  <2>4. x \in Seq(Chars)
    BY <2>3, LineIsText
  <2> HIDE DEF x
  <2>5. (L(c) \o w) \o x = L(c) \o (w \o x) /\ w \o x \in Seq(Chars)
    BY <1>2, <2>4, ConcatAssociative, ConcatProperties
  <2> QED BY <2>1, <2>3, <2>5 DEF x
<1> HIDE DEF T
<1>5. \A d \in Nat : d \in T
  BY <1>3, <1>4, SetInduction
<1>6. Len(s) - c \in Nat /\ c + (Len(s) - c) = Len(s)
  BY <1>1
<1>7. \E w \in Seq(Chars) : L(Len(s)) = L(c) \o w
  <2>1. Len(s) - c \in T /\ Len(s) <= Len(s)
    BY <1>1, <1>5, <1>6
  <2> QED BY <1>6, <2>1 DEF T
<1>8. L(Len(s)) = Log(s)
  BY SubSeqFull DEF L
<1> QED BY <1>2, <1>7, <1>8 DEF L

LEMMA PrefixOf ==
    ASSUME NEW C, NEW a \in Seq(C), NEW w \in Seq(C)
    PROVE  IsPrefix(a, a \o w)
<1> DEFINE n == Len(a)
<1>1. /\ n \in Nat /\ Len(w) \in Nat /\ Len(a \o w) = n + Len(w)
      /\ \A i \in 1 .. n : (a \o w)[i] = a[i] /\ a[i] \in C
  BY LenProperties, ElementOfSeq, ConcatProperties
<1>2. SubSeq(a, 1, n) \in Seq(C) /\ Len(SubSeq(a, 1, n)) = n
      /\ \A i \in 1 .. n : SubSeq(a, 1, n)[i] = a[i]
  BY <1>1, SubSeqProperties
<1>3. SubSeq(a \o w, 1, n) \in Seq(C) /\ Len(SubSeq(a \o w, 1, n)) = n
      /\ \A i \in 1 .. n : SubSeq(a \o w, 1, n)[i] = a[i]
  BY <1>1, SubSeqProperties
<1>4. SubSeq(a, 1, n) = SubSeq(a \o w, 1, n)
  <2> DEFINE u == SubSeq(a, 1, n)
             v == SubSeq(a \o w, 1, n)
  <2>1. /\ u \in Seq(C) /\ v \in Seq(C) /\ Len(u) = Len(v)
        /\ \A i \in 1 .. Len(u) : u[i] = v[i]
    BY <1>2, <1>3
  <2> HIDE DEF u, v
  <2>2. u = v
    BY <2>1, SeqEqual
  <2> QED BY <2>2 DEF u, v
<1> QED BY <1>1, <1>4 DEF IsPrefix

-----------------------------------------------------------------------------
(* What the invariant says of sizes, and of the readings already sampled.  *)

LEMMA NotSentinel == Sentinel \notin Readings /\ Sentinel.temp = -1
<1>1. Sentinel.temp = -1
  BY DEF Sentinel
<1>2. ASSUME Sentinel \in Readings PROVE FALSE
  <2>1. 0 <= Sentinel.temp
    BY <1>2, TempRange
  <2> QED BY <1>1, <2>1
<1> QED BY <1>1, <1>2

LEMMA Sizes ==
    ASSUME IInv
    PROVE  /\ Len(sampled) \in Nat /\ Len(queue) \in Nat /\ stats.count \in Nat
           /\ Samples \in Nat /\ Samples > 0
           /\ Sent \in Nat /\ Sent <= Len(sampled) /\ stats.count <= Sent
           /\ \A i \in 1 .. Len(sampled) : sampled[i] \in Readings
<1>1. /\ sampled \in Seq(Readings) /\ queue \in Seq(Readings \cup {Sentinel})
      /\ stats.count \in Nat
  BY DEF IInv, Types
<1>2. /\ Len(sampled) \in Nat /\ Len(queue) \in Nat
      /\ \A i \in 1 .. Len(sampled) : sampled[i] \in Readings
  BY <1>1, LenProperties, ElementOfSeq
<1>3. sensor = "send" /\ pending # Sentinel => Len(sampled) > 0
  BY DEF IInv, Place
<1>4. Sent \in Nat /\ Sent <= Len(sampled)
  BY <1>2, <1>3 DEF Sent
<1>5. stats.count <= Sent
  BY DEF IInv, Queued
<1> QED BY <1>1, <1>2, <1>4, <1>5, SensorAssumption

LEMMA FirstTyped ==
    ASSUME NEW s \in Seq(Readings), NEW c \in Nat, c <= Len(s)
    PROVE  SubSeq(s, 1, c) \in Seq(Readings)
<1>1. CASE c = 0
  BY <1>1, SubSeqEmpty, EmptySeq
<1>2. CASE c # 0
  BY <1>2, SubSeqProperties, LenProperties
<1> QED BY <1>1, <1>2

LEMMA FirstKept ==
    ASSUME NEW s \in Seq(Readings), NEW r \in Readings, NEW c \in Nat, c <= Len(s)
    PROVE  SubSeq(Append(s, r), 1, c) = SubSeq(s, 1, c)
<1> DEFINE t == Append(s, r)
           u == SubSeq(s, 1, c)
           v == SubSeq(t, 1, c)
<1>1. /\ t \in Seq(Readings) /\ Len(s) \in Nat /\ Len(t) = Len(s) + 1
      /\ \A i \in 1 .. Len(s) : t[i] = s[i]
  BY AppendProperties, LenProperties
<1>2. CASE c = 0
  BY <1>2, SubSeqEmpty
<1>3. CASE c # 0
  <2>1. u \in Seq(Readings) /\ Len(u) = c /\ \A i \in 1 .. c : u[i] = s[i]
    BY <1>1, <1>3, SubSeqProperties
  <2> HIDE DEF t, u
  <2>2. v \in Seq(Readings) /\ Len(v) = c /\ \A i \in 1 .. c : v[i] = t[i]
    BY <1>1, <1>3, SubSeqProperties
  <2> HIDE DEF v
  <2>3. \A i \in 1 .. c : u[i] = v[i]
    BY <1>1, <2>1, <2>2
  <2>4. u = v
    BY <2>1, <2>2, <2>3, SeqEqual
  <2> QED BY <2>4 DEF u, v, t
<1> QED BY <1>2, <1>3

\* A character printed moves from what is left to what is shown.
LEMMA CharMoves ==
    ASSUME NEW a \in Seq(Chars), NEW b \in Seq(Chars), b # <<>>
    PROVE  /\ Head(b) \in Chars /\ Tail(b) \in Seq(Chars)
           /\ Append(a, Head(b)) \in Seq(Chars)
           /\ Append(a, Head(b)) \o Tail(b) = a \o b
<1>1. Head(b) \in Chars /\ Tail(b) \in Seq(Chars) /\ <<Head(b)>> \o Tail(b) = b
  <2>1. Len(b) \in Nat \ {0} /\ 1 \in 1 .. Len(b) /\ Len(b) \in 1 .. Len(b)
    BY EmptySeq
  <2>2. SubSeq(b, 1, Len(b)) = <<b[1]>> \o SubSeq(b, 1 + 1, Len(b))
    BY <2>1, SubSeqRecursiveFirst
  <2>3. SubSeq(b, 1, Len(b)) = b /\ Tail(b) = SubSeq(b, 2, Len(b)) /\ Head(b) = b[1]
    BY SubSeqFull, TailIsSubSeq
  <2> QED BY <2>2, <2>3, HeadTailProperties
<1>2. Append(a, Head(b)) = a \o <<Head(b)>> /\ <<Head(b)>> \in Seq(Chars)
  BY <1>1, AppendIsConcat
<1>3. (a \o <<Head(b)>>) \o Tail(b) = a \o (<<Head(b)>> \o Tail(b))
  BY <1>1, <1>2, ConcatAssociative
<1> QED BY <1>1, <1>2, <1>3, AppendProperties

LEMMA PlaceKept ==
    ASSUME Place, UNCHANGED <<sensor, pending, sampled>> PROVE Place'
BY DEF Place

LEMMA QueuedKept ==
    ASSUME Queued, UNCHANGED <<sensor, pending, sampled, queue, stats, logger>> PROVE Queued'
BY DEF Queued, Sent, Ended

LEMMA StatisticsKept ==
    ASSUME Statistics, UNCHANGED <<stats, sampled>> PROVE Statistics'
BY DEF Statistics, First

LEMMA ShownKept ==
    ASSUME Shown, UNCHANGED <<console, text, logger, stats, sampled>> PROVE Shown'
BY DEF Shown, First, Ended

LEMMA DeviceKept ==
    ASSUME Device, UNCHANGED <<hi, lo, powered, logger, half, text>> PROVE Device'
BY DEF Device

-----------------------------------------------------------------------------
(* The invariant.                                                          *)

LEMMA InitInv == ASSUME Init PROVE IInv
<1>1. sampled = <<>> /\ queue = <<>> /\ text = <<>> /\ console = <<>> /\ stats.count = 0
  BY DEF Init
<1>2. Samples \in Nat /\ Samples > 0 /\ Depth \in Nat /\ MaxTick \in Nat
  BY SensorAssumption
<1>3. INT32_MAX \in Int
  BY DEF INT32_MAX
<1>4. Types
  BY <1>2, <1>3 DEF Init, Types
<1>5. Place
  BY <1>2 DEF Init, Place
<1>6. Queued
  BY DEF Init, Queued, Sent, Ended
<1>7. First(stats.count) = <<>>
  BY <1>1, SubSeqEmpty, EmptySeq DEF First
<1>8. Statistics
  BY <1>7, SumEmpty DEF Init, Statistics
<1>9. Shown
  <2>1. console \o text = <<>>
    BY <1>1
  <2> QED BY <1>7, <2>1, LogEmpty DEF Init, Shown, Ended
<1>10. Device
  BY DEF Init, Device
<1> QED BY <1>4, <1>5, <1>6, <1>8, <1>9, <1>10 DEF IInv

LEMMA WakeStep ==
    ASSUME IInv, Wake, UNCHANGED <<tick, loggerVars, deviceVars>> PROVE IInv'
<1> USE DEF loggerVars, deviceVars
<1>1. Types'
  BY DEF IInv, Types, Wake
<1>2. Place'
  BY DEF IInv, Place, Wake
<1>3. Queued'
  <2>1. Sent' = Sent
    BY DEF Wake, Sent
  <2>2. Ended' = Ended
    BY DEF Ended
  <2> QED BY <2>1, <2>2 DEF IInv, Queued, Wake
<1>4. Statistics' /\ Shown' /\ Device'
  BY StatisticsKept, ShownKept, DeviceKept DEF IInv, Wake
<1> QED BY <1>1, <1>2, <1>3, <1>4 DEF IInv

LEMMA SampleStep ==
    ASSUME IInv, Sample, UNCHANGED <<tick, loggerVars, deviceVars>> PROVE IInv'
<1> USE DEF loggerVars, deviceVars
<1>1. /\ sampled' = Append(sampled, pending') /\ pending' \in Readings
      /\ sensor = "sample" /\ sensor' = "send" /\ queue' = queue
  <2>1. tick \in Nat
    BY SensorAssumption DEF IInv, Types
  <2> QED BY <2>1 DEF Sample, Readings
<1>2. /\ sampled \in Seq(Readings) /\ sampled' \in Seq(Readings) /\ Len(sampled') = Len(sampled) + 1
      /\ \A i \in 1 .. Len(sampled) : sampled'[i] = sampled[i]
      /\ sampled'[Len(sampled')] = pending'
  BY <1>1, AppendProperties DEF IInv, Types
<1>3. Len(sampled) < Samples
  BY <1>1 DEF IInv, Place
<1>4. Types'
  BY <1>1, <1>2 DEF IInv, Types
<1>5. Place'
  BY <1>1, <1>2, <1>3, Sizes DEF Place
<1>6. ~Ended /\ ~Ended'
  BY <1>1 DEF IInv, Queued, Ended
<1>7. Queued'
  <2>1. Sent = Len(sampled) /\ Sent' = Len(sampled)
    BY <1>1, <1>2, NotSentinel, Sizes DEF Sent
  <2>2. \A i \in 1 .. Sent - stats.count : queue[i] = sampled'[stats.count + i]
    <3> SUFFICES ASSUME NEW i \in 1 .. Sent - stats.count
                 PROVE  queue[i] = sampled'[stats.count + i]
      OBVIOUS
    <3>1. stats.count + i \in 1 .. Len(sampled)
      BY <2>1, Sizes
    <3>2. queue[i] = sampled[stats.count + i]
      BY <1>6 DEF IInv, Queued
    <3> QED BY <1>2, <3>1, <3>2
  <2> QED BY <1>1, <1>6, <2>1, <2>2 DEF IInv, Queued
<1>8. First(stats.count)' = First(stats.count)
  BY <1>1, <1>2, Sizes, FirstKept DEF First
<1>9. Statistics'
  <2>1. \A i \in 1 .. stats.count : i \in 1 .. Len(sampled)
    BY Sizes
  <2>2. \A i \in 1 .. stats.count : sampled'[i] = sampled[i]
    BY <1>2, <2>1
  <2> QED BY <1>8, <2>2 DEF IInv, Statistics
<1>10. Shown'
  BY <1>6, <1>8 DEF IInv, Shown
<1>11. Device'
  BY DeviceKept DEF IInv
<1> QED BY <1>4, <1>5, <1>7, <1>9, <1>10, <1>11 DEF IInv

LEMMA SendReadingStep ==
    ASSUME IInv, SendReading, UNCHANGED <<tick, loggerVars, deviceVars>> PROVE IInv'
<1> USE DEF loggerVars, deviceVars
<1>1. /\ sensor = "send" /\ pending # Sentinel /\ Len(queue) < Depth
      /\ queue' = Append(queue, pending) /\ sampled' = sampled
      /\ \/ Len(sampled) < Samples /\ sensor' = "delay"
         \/ ~(Len(sampled) < Samples) /\ sensor' = "send" /\ pending' = Sentinel
  BY DEF SendReading, Send
<1>2. /\ pending \in Readings /\ Len(sampled) > 0 /\ pending = sampled[Len(sampled)]
      /\ Len(sampled) <= Samples
  BY <1>1 DEF IInv, Place
<1>3. /\ queue' \in Seq(Readings \cup {Sentinel}) /\ Len(queue') = Len(queue) + 1
      /\ \A i \in 1 .. Len(queue) : queue'[i] = queue[i]
      /\ queue'[Len(queue) + 1] = pending
  <2>1. queue \in Seq(Readings \cup {Sentinel}) /\ pending \in Readings \cup {Sentinel}
    BY <1>2 DEF IInv, Types
  <2> QED BY <1>1, <2>1, AppendProperties
<1>4. Types'
  <2>1. Len(queue') <= Depth
    BY <1>1, <1>3, Sizes, SensorAssumption
  <2> QED BY <1>1, <1>3, <2>1 DEF IInv, Types
<1>5. Place'
  BY <1>1, <1>2, Sizes DEF Place
<1>6. ~Ended /\ ~Ended' /\ sensor' # "gone"
  BY <1>1 DEF IInv, Queued, Ended
<1>7. Queued'
  <2>1. Sent = Len(sampled) - 1 /\ Sent' = Len(sampled)
    BY <1>1 DEF Sent
  <2>2. Len(queue) = Sent - stats.count
    BY <1>1, <1>6, Sizes DEF IInv, Queued
  <2>3. \A i \in 1 .. Len(sampled) - stats.count : queue'[i] = sampled[stats.count + i]
    <3> SUFFICES ASSUME NEW i \in 1 .. Len(sampled) - stats.count
                 PROVE  queue'[i] = sampled[stats.count + i]
      OBVIOUS
    <3>1. CASE i = Len(queue) + 1
      <4>1. stats.count + i = Len(sampled)
        BY <2>1, <2>2, <3>1, Sizes
      <4> QED BY <1>2, <1>3, <3>1, <4>1
    <3>2. CASE i # Len(queue) + 1
      <4>1. i \in 1 .. Len(queue) /\ i \in 1 .. Sent - stats.count
        BY <2>1, <2>2, <3>2, Sizes
      <4>2. queue[i] = sampled[stats.count + i]
        BY <1>6, <4>1 DEF IInv, Queued
      <4> QED BY <1>3, <4>1, <4>2
    <3> QED BY <3>1, <3>2
  <2>4. Len(queue') = Sent' - stats.count /\ stats.count <= Sent'
    BY <1>3, <2>1, <2>2, Sizes
  <2> QED BY <1>1, <1>6, <2>1, <2>3, <2>4, Sizes DEF Queued
<1>8. Statistics' /\ Shown' /\ Device'
  BY <1>1, StatisticsKept, ShownKept, DeviceKept DEF IInv
<1> QED BY <1>4, <1>5, <1>7, <1>8 DEF IInv

LEMMA SendSentinelStep ==
    ASSUME IInv, SendSentinel, UNCHANGED <<tick, loggerVars, deviceVars>> PROVE IInv'
<1> USE DEF loggerVars, deviceVars
<1>1. /\ sensor = "send" /\ pending = Sentinel /\ Len(queue) < Depth
      /\ queue' = Append(queue, Sentinel) /\ sampled' = sampled /\ sensor' = "gone"
  BY DEF SendSentinel, Send
<1>2. Len(sampled) = Samples
  BY <1>1, NotSentinel DEF IInv, Place
<1>3. /\ queue' \in Seq(Readings \cup {Sentinel}) /\ Len(queue') = Len(queue) + 1
      /\ \A i \in 1 .. Len(queue) : queue'[i] = queue[i]
      /\ queue'[Len(queue) + 1] = Sentinel
  <2>1. queue \in Seq(Readings \cup {Sentinel}) /\ Sentinel \in Readings \cup {Sentinel}
    BY DEF IInv, Types
  <2> QED BY <1>1, <2>1, AppendProperties
<1>4. Types'
  <2>1. Len(queue') <= Depth
    BY <1>1, <1>3, Sizes, SensorAssumption
  <2> QED BY <1>1, <1>3, <2>1 DEF IInv, Types
<1>5. Place'
  BY <1>1, <1>2, Sizes DEF Place
<1>6. ~Ended /\ ~Ended'
  BY <1>1 DEF IInv, Queued, Ended
<1>7. Queued'
  <2>1. Sent = Len(sampled) /\ Sent' = Len(sampled)
    BY <1>1 DEF Sent
  <2>2. Len(queue) = Sent - stats.count
    BY <1>1, <1>6, Sizes DEF IInv, Queued
  <2>3. \A i \in 1 .. Sent - stats.count : queue'[i] = sampled[stats.count + i]
    <3>1. \A i \in 1 .. Sent - stats.count : queue[i] = sampled[stats.count + i]
      BY <1>6 DEF IInv, Queued
    <3> QED BY <1>3, <2>2, <3>1
  <2> QED BY <1>1, <1>3, <1>6, <2>1, <2>2, <2>3, Sizes DEF Queued
<1>8. Statistics' /\ Shown' /\ Device'
  BY <1>1, StatisticsKept, ShownKept, DeviceKept DEF IInv
<1> QED BY <1>4, <1>5, <1>7, <1>8 DEF IInv

\* The head of the queue is the next reading, or the sentinel after the last.
LEMMA HeadIsNext ==
    ASSUME IInv, logger = "receive", queue # <<>>
    PROVE  /\ ~Ended /\ Len(queue) > 0 /\ Head(queue) = queue[1]
           /\ Head(queue).temp >= 0 => /\ stats.count < Sent
                                       /\ Head(queue) = sampled[stats.count + 1]
                                       /\ Head(queue) \in Readings
           /\ Head(queue).temp < 0 => /\ sensor = "gone" /\ stats.count = Samples
                                      /\ Len(sampled) = Samples /\ Len(queue) = 1
<1>1. queue \in Seq(Readings \cup {Sentinel}) /\ Len(queue) > 0 /\ Head(queue) = queue[1]
  <2>1. queue \in Seq(Readings \cup {Sentinel})
    BY DEF IInv, Types
  <2> QED BY <2>1, EmptySeq
<1>2. ~Ended
  BY DEF Ended
<1>3. /\ Len(queue) = (Sent - stats.count) + (IF sensor = "gone" THEN 1 ELSE 0)
      /\ \A i \in 1 .. Sent - stats.count : queue[i] = sampled[stats.count + i]
      /\ sensor = "gone" => queue[Len(queue)] = Sentinel
  BY <1>2 DEF IInv, Queued
<1>4. CASE stats.count < Sent
  <2>1. queue[1] = sampled[stats.count + 1]
    BY <1>3, <1>4, Sizes
  <2>2. sampled[stats.count + 1] \in Readings
    BY <1>4, Sizes
  <2>3. ~(Head(queue).temp < 0)
    BY <1>1, <2>1, <2>2, TempRange
  <2> QED BY <1>1, <1>2, <1>4, <2>1, <2>2, <2>3
<1>5. CASE ~(stats.count < Sent)
  <2>1. stats.count = Sent
    BY <1>5, Sizes
  <2>2. sensor = "gone" /\ Len(queue) = 1
    BY <1>1, <1>3, <2>1, Sizes
  <2>3. Head(queue).temp = -1
    BY <1>1, <1>3, <2>2, NotSentinel
  <2>4. Sent = Len(sampled) /\ Len(sampled) = Samples
    BY <2>2 DEF Sent, IInv, Place
  <2> QED BY <1>1, <1>2, <2>1, <2>2, <2>3, <2>4
<1> QED BY <1>4, <1>5

LEMMA QueueTail ==
    ASSUME IInv, queue # <<>>
    PROVE  /\ Tail(queue) \in Seq(Readings \cup {Sentinel})
           /\ Len(Tail(queue)) = Len(queue) - 1 /\ Len(queue) > 0
           /\ \A i \in 1 .. Len(queue) - 1 : Tail(queue)[i] = queue[i + 1]
<1>1. queue \in Seq(Readings \cup {Sentinel})
  BY DEF IInv, Types
<1>2. Len(queue) > 0
  BY <1>1, EmptySeq
<1> QED BY <1>1, <1>2, HeadTailProperties

\* The logger counts a reading, and is to print it.
LEMMA CountStep ==
    ASSUME IInv, Receive, Head(queue).temp >= 0, UNCHANGED <<tick, sensorVars>>
    PROVE  IInv'
<1> DEFINE r == Head(queue)
           c == stats.count
<1> USE DEF sensorVars, deviceVars
<1>1. /\ logger = "receive" /\ queue # <<>> /\ queue' = Tail(queue) /\ logger' = "print"
      /\ text' = Line(r) /\ stats' = Counted(stats, r)
      /\ UNCHANGED <<half, lo, hi, console, powered>>
  <2>1. r \in Readings
    BY HeadIsNext DEF Receive
  <2>2. ~(r.temp < 0)
    BY <2>1, TempRange
  <2> QED BY <2>2 DEF Receive
<1>2. /\ ~Ended /\ ~Ended' /\ c < Sent /\ r = sampled[c + 1] /\ r \in Readings /\ c \in Nat
      /\ c + 1 \in 1 .. Len(sampled)
  BY <1>1, HeadIsNext, Sizes DEF Ended
<1>3. r.temp \in Int /\ 0 <= r.temp /\ r.temp <= INT32_MAX /\ INT32_MAX \in Int
  BY <1>2, TempRange DEF INT32_MAX
<1>4. /\ stats \in [count : Nat, min : Int, max : Int, sum : Int]
      /\ stats'.count = c + 1 /\ stats'.sum = stats.sum + r.temp
      /\ stats'.min = IF r.temp < stats.min THEN r.temp ELSE stats.min
      /\ stats'.max = IF r.temp > stats.max THEN r.temp ELSE stats.max
      /\ stats' \in [count : Nat, min : Int, max : Int, sum : Int]
  BY <1>1, <1>3 DEF Counted, IInv, Types
<1>5. /\ queue' \in Seq(Readings \cup {Sentinel}) /\ Len(queue') = Len(queue) - 1
      /\ Len(queue) > 0 /\ \A i \in 1 .. Len(queue) - 1 : queue'[i] = queue[i + 1]
  BY <1>1, QueueTail
<1>6. Line(r) \in Seq(Chars) /\ Line(r) # <<>>
  <2>1. Line(r) \in Seq(Chars) /\ Len(Line(r)) = 3
    BY <1>2, LineIsText
  <2> QED BY <2>1
<1> HIDE DEF r, c
<1>7. Types'
  <2>1. Len(queue') <= Depth
    BY <1>5, Sizes, SensorAssumption DEF IInv, Types
  <2> QED BY <1>1, <1>4, <1>5, <1>6, <2>1 DEF IInv, Types
<1>8. Place'
  BY PlaceKept DEF IInv
<1>9. Queued'
  <2>1. Sent' = Sent
    BY DEF Sent
  <2>2. /\ Len(queue) = (Sent - c) + (IF sensor = "gone" THEN 1 ELSE 0)
        /\ \A i \in 1 .. Sent - c : queue[i] = sampled[c + i]
        /\ sensor = "gone" => queue[Len(queue)] = Sentinel
    BY <1>2 DEF IInv, Queued, c
  <2>3. \A i \in 1 .. Sent - (c + 1) : queue'[i] = sampled[(c + 1) + i]
    <3> SUFFICES ASSUME NEW i \in 1 .. Sent - (c + 1)
                 PROVE  queue'[i] = sampled[(c + 1) + i]
      OBVIOUS
    <3>1. i \in 1 .. Len(queue) - 1 /\ i + 1 \in 1 .. Sent - c /\ c + (i + 1) = (c + 1) + i
      BY <1>2, <2>2, Sizes
    <3> QED BY <1>5, <2>2, <3>1
  <2>4. sensor = "gone" => queue'[Len(queue')] = Sentinel
    <3>1. sensor = "gone" => /\ Len(queue') \in 1 .. Len(queue) - 1
                             /\ Len(queue') + 1 = Len(queue)
      BY <1>2, <1>5, <2>2, Sizes
    <3> QED BY <1>5, <2>2, <3>1
  <2>5. Len(queue') = (Sent - (c + 1)) + (IF sensor = "gone" THEN 1 ELSE 0) /\ c + 1 <= Sent
    BY <1>2, <1>5, <2>2, Sizes
  <2> QED BY <1>2, <1>4, <2>1, <2>3, <2>4, <2>5 DEF Queued
<1>10. First(c + 1) = Append(First(c), r) /\ First(c) \in Seq(Readings)
  <2>1. sampled \in Seq(Readings) /\ c < Len(sampled)
    BY <1>2, Sizes DEF IInv, Types
  <2> QED BY <1>2, <2>1, OneMore DEF First
<1>11. First(stats.count)' = First(c + 1)
  BY <1>4 DEF First
<1>12. Statistics'
  <2>1. /\ stats.sum = SumOf(First(c))
        /\ c = 0 => stats.min = INT32_MAX /\ stats.max = 0
        /\ \A i \in 1 .. c : stats.min <= sampled[i].temp /\ sampled[i].temp <= stats.max
        /\ c > 0 => /\ \E i \in 1 .. c : stats.min = sampled[i].temp
                    /\ \E i \in 1 .. c : stats.max = sampled[i].temp
    BY DEF IInv, Statistics, c
  <2>2. stats'.sum = SumOf(First(c + 1))
    BY <1>2, <1>4, <1>10, <2>1, SumAppend
  <2>3. \A i \in 1 .. c : sampled[i].temp \in Int
    BY <1>2, Sizes, TempRange
  <2>4. \A i \in 1 .. c + 1 :
          stats'.min <= sampled[i].temp /\ sampled[i].temp <= stats'.max
    <3> SUFFICES ASSUME NEW i \in 1 .. c + 1
                 PROVE  stats'.min <= sampled[i].temp /\ sampled[i].temp <= stats'.max
      OBVIOUS
    <3>1. CASE i = c + 1
      BY <1>2, <1>3, <1>4, <3>1
    <3>2. CASE i # c + 1
      <4>1. i \in 1 .. c
        BY <1>2, <3>2
      <4> QED BY <1>3, <1>4, <2>1, <2>3, <4>1
    <3> QED BY <3>1, <3>2
  <2>5. \E i \in 1 .. c + 1 : stats'.min = sampled[i].temp
    <3>1. CASE stats'.min = r.temp
      <4>1. c + 1 \in 1 .. c + 1
        BY <1>2
      <4> QED BY <1>2, <3>1, <4>1
    <3>2. CASE stats'.min # r.temp
      <4>1. c > 0
        BY <1>2, <1>3, <1>4, <2>1, <3>2
      <4>2. PICK i \in 1 .. c : stats.min = sampled[i].temp
        BY <2>1, <4>1
      <4>3. i \in 1 .. c + 1 /\ stats'.min = stats.min
        BY <1>2, <1>4, <3>2
      <4> QED BY <4>2, <4>3
    <3> QED BY <3>1, <3>2
  <2>6. \E i \in 1 .. c + 1 : stats'.max = sampled[i].temp
    <3>1. CASE stats'.max = r.temp
      <4>1. c + 1 \in 1 .. c + 1
        BY <1>2
      <4> QED BY <1>2, <3>1, <4>1
    <3>2. CASE stats'.max # r.temp
      <4>1. c > 0
        BY <1>2, <1>3, <1>4, <2>1, <3>2
      <4>2. PICK i \in 1 .. c : stats.max = sampled[i].temp
        BY <2>1, <4>1
      <4>3. i \in 1 .. c + 1 /\ stats'.max = stats.max
        BY <1>2, <1>4, <3>2
      <4> QED BY <4>2, <4>3
    <3> QED BY <3>1, <3>2
  <2>7. c + 1 # 0
    BY <1>2
  <2> QED BY <1>4, <1>11, <2>2, <2>4, <2>5, <2>6, <2>7 DEF Statistics
<1>13. Shown'
  <2>1. text = <<>> /\ console \in Seq(Chars)
    BY <1>1 DEF IInv, Shown, Types
  <2>2. console \o text = console
    BY <2>1, ConcatEmptySeq
  <2>3. console = Log(First(c))
    BY <1>2, <2>2 DEF IInv, Shown, c
  <2>4. console \o Line(r) = Log(First(c + 1))
    BY <1>2, <1>10, <2>3, LogAppend
  <2> QED BY <1>1, <1>2, <1>6, <1>11, <2>4 DEF Shown
<1>14. Device'
  BY <1>1 DEF IInv, Device
<1> QED BY <1>7, <1>8, <1>9, <1>12, <1>13, <1>14 DEF IInv

\* The statistics, once every reading is counted, are those of the whole log.
LEMMA SummaryIsWhole ==
    ASSUME IInv, stats.count = Samples, Len(sampled) = Samples
    PROVE  /\ First(stats.count) = sampled
           /\ WholeLog(sampled) = Log(sampled) \o Summary(stats)
<1>1. First(stats.count) = sampled
  BY SubSeqFull DEF First, IInv, Types
<1>2. /\ stats.count = Len(sampled) /\ stats.sum = SumOf(sampled)
      /\ \A i \in 1 .. Len(sampled) :
           stats.min <= sampled[i].temp /\ sampled[i].temp <= stats.max
      /\ \E i \in 1 .. Len(sampled) : stats.min = sampled[i].temp
      /\ \E i \in 1 .. Len(sampled) : stats.max = sampled[i].temp
  BY <1>1, Sizes DEF IInv, Statistics
<1>3. DOMAIN sampled = 1 .. Len(sampled) /\ \A i \in 1 .. Len(sampled) : sampled[i].temp \in Int
  BY Sizes, TempRange, LenProperties DEF IInv, Types
<1>4. stats.min = SmallestOf(sampled)
  <2> DEFINE V == {sampled[i].temp : i \in DOMAIN sampled}
             m == CHOOSE t \in V : \A i \in DOMAIN sampled : t <= sampled[i].temp
  <2>1. stats.min \in V /\ \A i \in DOMAIN sampled : stats.min <= sampled[i].temp
    BY <1>2, <1>3
  <2>2. m \in V /\ \A i \in DOMAIN sampled : m <= sampled[i].temp
    BY <2>1
  <2> HIDE DEF m
  <2>3. m = stats.min
    BY <1>3, <2>1, <2>2
  <2> QED BY <2>3 DEF SmallestOf, m
<1>5. stats.max = LargestOf(sampled)
  <2> DEFINE V == {sampled[i].temp : i \in DOMAIN sampled}
             m == CHOOSE t \in V : \A i \in DOMAIN sampled : t >= sampled[i].temp
  <2>1. stats.max \in V /\ \A i \in DOMAIN sampled : stats.max >= sampled[i].temp
    BY <1>2, <1>3
  <2>2. m \in V /\ \A i \in DOMAIN sampled : m >= sampled[i].temp
    BY <2>1
  <2> HIDE DEF m
  <2>3. m = stats.max
    BY <1>3, <2>1, <2>2
  <2> QED BY <2>3 DEF LargestOf, m
<1>6. stats = [count |-> Len(sampled), min |-> SmallestOf(sampled), max |-> LargestOf(sampled),
               sum |-> SumOf(sampled)]
  <2>1. stats = [count |-> stats.count, min |-> stats.min, max |-> stats.max, sum |-> stats.sum]
    BY DEF IInv, Types
  <2> QED BY <1>2, <1>4, <1>5, <2>1
<1> QED BY <1>1, <1>6 DEF WholeLog

\* The logger meets the sentinel, and is to print the summary.
LEMMA EndStep ==
    ASSUME IInv, Receive, Head(queue).temp < 0, UNCHANGED <<tick, sensorVars>>
    PROVE  IInv'
<1> USE DEF sensorVars, deviceVars
<1>1. /\ logger = "receive" /\ queue # <<>> /\ queue' = Tail(queue) /\ logger' = "summary"
      /\ text' = Summary(stats) /\ stats' = stats
      /\ UNCHANGED <<half, lo, hi, console, powered>>
  BY DEF Receive
<1>2. /\ ~Ended /\ Ended' /\ sensor = "gone" /\ stats.count = Samples
      /\ Len(sampled) = Samples /\ Len(queue) = 1
  BY <1>1, HeadIsNext DEF Ended
<1>3. queue' = <<>> /\ queue' \in Seq(Readings \cup {Sentinel}) /\ Len(queue') = 0
  <2>1. queue' \in Seq(Readings \cup {Sentinel}) /\ Len(queue') = 0
    BY <1>1, <1>2, QueueTail
  <2> QED BY <2>1, EmptySeq
<1>4. Summary(stats) \in Seq(Chars) /\ Summary(stats) # <<>>
  <2>1. /\ stats.count \in Int /\ stats.min \in Int /\ stats.max \in Int
        /\ stats.sum \in Int /\ stats.count > 0
    BY <1>2, Sizes DEF IInv, Types
  <2>2. stats.sum \div stats.count \in Int
    BY <2>1
  <2>3. /\ <<"samples", stats.count>> \in Chars /\ <<"min", stats.min>> \in Chars
        /\ <<"max", stats.max>> \in Chars /\ <<"avg", stats.sum \div stats.count>> \in Chars
        /\ Newline \in Chars
    BY <2>1, <2>2 DEF Chars, Newline
  <2> QED BY <2>3 DEF Summary
<1>5. Types'
  <2>1. Len(queue') <= Depth
    BY <1>3, SensorAssumption
  <2> QED BY <1>1, <1>3, <1>4, <2>1 DEF IInv, Types
<1>6. Place'
  BY PlaceKept DEF IInv
<1>7. Queued'
  <2>1. Sent' = Sent
    BY DEF Sent
  <2> QED BY <1>1, <1>2, <1>3, <2>1 DEF IInv, Queued
<1>8. Statistics'
  BY <1>1, StatisticsKept DEF IInv
<1>9. Shown'
  <2>1. text = <<>> /\ console \in Seq(Chars) /\ console \o text = Log(First(stats.count))
    BY <1>1, <1>2 DEF IInv, Shown, Types
  <2>2. console = Log(First(stats.count))
    BY <2>1, ConcatEmptySeq
  <2>3. console \o Summary(stats) = WholeLog(sampled)
    BY <1>2, <2>2, SummaryIsWhole
  <2> QED BY <1>1, <1>2, <1>4, <2>3 DEF Shown
<1>10. Device'
  BY <1>1 DEF IInv, Device
<1> QED BY <1>5, <1>6, <1>7, <1>8, <1>9, <1>10 DEF IInv

LEMMA ReceiveStep ==
    ASSUME IInv, Receive, UNCHANGED <<tick, sensorVars>> PROVE IInv'
<1>1. CASE Head(queue).temp < 0
  BY <1>1, EndStep
<1>2. CASE ~(Head(queue).temp < 0)
  <2>1. Head(queue) \in Readings \cup {Sentinel}
    BY HeadTailProperties DEF Receive, IInv, Types
  <2>2. Head(queue).temp \in Int
    BY <2>1, NotSentinel, TempRange
  <2> QED BY <1>2, <2>2, CountStep
<1> QED BY <1>1, <1>2

\* The device takes a store for what it is: only One with no command powers it down.
LEMMA CharsAreNotOne == One \notin Chars /\ One # Zero
BY DEF One, Zero, Chars

LEMMA StoreLowStep ==
    ASSUME IInv, StoreLow, powered, UNCHANGED <<tick, sensorVars>> PROVE IInv'
<1> USE DEF sensorVars
<1>1. /\ logger \in {"print", "summary"} /\ half = "lo" /\ half' = "hi" /\ hi = "zero"
      /\ Process(Head(text), hi)
      /\ UNCHANGED <<logger, stats, text, queue>>
  BY DEF StoreLow, IInv, Device
<1>2. Head(text) # One
  <2>1. text \in Seq(Chars) /\ text # <<>>
    BY <1>1 DEF IInv, Types, Shown
  <2> QED BY <2>1, HeadTailProperties, CharsAreNotOne
<1>3. lo' = Head(text) /\ hi' = "zero" /\ UNCHANGED <<console, powered>>
  BY <1>1, <1>2 DEF Process
<1>4. Types' /\ Place'
  BY <1>1, <1>3, PlaceKept DEF IInv, Types
<1>5. Queued' /\ Statistics' /\ Shown'
  BY <1>1, <1>3, QueuedKept, StatisticsKept, ShownKept DEF IInv
<1>6. Device'
  BY <1>1, <1>3 DEF IInv, Device
<1> QED BY <1>4, <1>5, <1>6 DEF IInv

LEMMA StoreHighStep ==
    ASSUME IInv, StoreHigh, powered, UNCHANGED <<tick, sensorVars>> PROVE IInv'
<1> USE DEF sensorVars
<1>1. /\ logger \in {"print", "summary"} /\ half = "hi" /\ half' = "lo"
      /\ lo = Head(text) /\ Process(lo, "putchar") /\ text' = Tail(text)
      /\ logger' = IF Tail(text) # <<>> THEN logger
                   ELSE IF logger = "print" THEN "receive" ELSE "poweroff"
      /\ UNCHANGED <<stats, queue>>
  BY DEF StoreHigh, IInv, Device
<1>2. console' = Append(console, Head(text)) /\ lo' = Zero /\ hi' = "zero" /\ powered' = powered
  BY <1>1 DEF Process, Cleared
<1>3. /\ text \in Seq(Chars) /\ text # <<>> /\ console \in Seq(Chars)
  BY <1>1 DEF IInv, Types, Shown
<1>4. /\ console' \in Seq(Chars) /\ text' \in Seq(Chars)
      /\ console' \o text' = console \o text
  BY <1>1, <1>2, <1>3, CharMoves
<1>5. /\ logger' \in {"print", "summary", "receive", "poweroff"}
      /\ text' = <<>> <=> logger' \in {"receive", "poweroff"}
  BY <1>1
<1>6. Ended' <=> Ended
  BY <1>1 DEF Ended
<1>7. Types' /\ Place'
  BY <1>1, <1>2, <1>4, <1>5, PlaceKept DEF IInv, Types
<1>8. Queued'
  <2>1. Sent' = Sent
    BY DEF Sent
  <2> QED BY <1>1, <1>6, <2>1 DEF IInv, Queued
<1>9. Statistics'
  BY <1>1, StatisticsKept DEF IInv
<1>10. Shown'
  <2>1. First(stats.count)' = First(stats.count) /\ sampled' = sampled
    BY <1>1 DEF First
  <2>2. text' = <<>> <=> logger' \in {"receive", "poweroff", "off"}
    BY <1>5
  <2> QED BY <1>4, <1>6, <2>1, <2>2 DEF IInv, Shown
<1>11. Device'
  BY <1>1, <1>2, <1>5 DEF IInv, Device
<1> QED BY <1>7, <1>8, <1>9, <1>10, <1>11 DEF IInv

LEMMA PowerOffStep ==
    ASSUME IInv, PowerOff, powered, UNCHANGED <<tick, sensorVars>> PROVE IInv'
<1> USE DEF sensorVars
<1>1. logger = "poweroff" /\ hi = "zero" /\ lo = Zero /\ UNCHANGED <<stats, text, queue>>
  BY DEF PowerOff, IInv, Device
<1>2. CASE half = "lo"
  <2>1. /\ Process(lo, "zero") /\ half' = "hi" /\ logger' = logger
    BY <1>2 DEF PowerOff
  <2>2. UNCHANGED <<lo, hi, console, powered>>
    BY <1>1, <2>1, CharsAreNotOne DEF Process
  <2>3. Types' /\ Place'
    BY <1>1, <2>1, <2>2, PlaceKept DEF IInv, Types
  <2>4. Queued' /\ Statistics' /\ Shown'
    BY <1>1, <2>1, <2>2, QueuedKept, StatisticsKept, ShownKept DEF IInv
  <2>5. Device'
    BY <1>1, <2>1, <2>2 DEF IInv, Device
  <2> QED BY <2>3, <2>4, <2>5 DEF IInv
<1>3. CASE half # "lo"
  <2>1. /\ Process(One, hi) /\ logger' = "off" /\ half' = half
    BY <1>3 DEF PowerOff
  <2>2. powered' = FALSE /\ hi' = "zero" /\ console' = console
    BY <1>1, <2>1 DEF Process
  <2>3. Types' /\ Place'
    BY <1>1, <2>1, <2>2, PlaceKept DEF IInv, Types
  <2>4. Ended /\ Ended'
    BY <1>1, <2>1 DEF Ended
  <2>5. Queued'
    <3>1. Sent' = Sent
      BY DEF Sent
    <3> QED BY <1>1, <2>4, <3>1 DEF IInv, Queued
  <2>6. Statistics'
    BY <1>1, StatisticsKept DEF IInv
  <2>7. Shown'
    BY <1>1, <2>1, <2>2, <2>4 DEF IInv, Shown
  <2>8. Device'
    BY <1>1, <2>1, <2>2 DEF IInv, Device
  <2> QED BY <2>3, <2>5, <2>6, <2>7, <2>8 DEF IInv
<1> QED BY <1>2, <1>3

LEMMA NextInv == ASSUME IInv, [Next]_vars PROVE IInv'
<1>1. CASE SensorStep
  BY <1>1, WakeStep, SampleStep, SendReadingStep, SendSentinelStep DEF SensorStep
<1>2. CASE LoggerStep
  BY <1>2, ReceiveStep, StoreLowStep, StoreHighStep, PowerOffStep DEF LoggerStep
<1>3. CASE UNCHANGED <<sensorVars, queue, loggerVars, deviceVars>> /\ tick' \in 0 .. MaxTick
  <2> USE DEF sensorVars, loggerVars, deviceVars
  <2>1. Types' /\ Place' /\ Queued'
    BY <1>3, PlaceKept, QueuedKept DEF IInv, Types
  <2>2. Statistics' /\ Shown' /\ Device'
    BY <1>3, StatisticsKept, ShownKept, DeviceKept DEF IInv
  <2> QED BY <2>1, <2>2 DEF IInv
<1>4. CASE Tick
  <2>1. tick' \in 0 .. MaxTick
    BY <1>4, SensorAssumption DEF Tick, IInv, Types
  <2> QED BY <1>3, <1>4, <2>1 DEF Tick
<1>5. CASE UNCHANGED vars
  BY <1>3, <1>5 DEF vars, IInv, Types
<1> QED BY <1>1, <1>2, <1>4, <1>5 DEF Next

LEMMA SpecInv == Spec => []IInv
BY InitInv, NextInv, PTL DEF Spec

-----------------------------------------------------------------------------
(* The theorems.                                                           *)

LEMMA PrefixOfLonger ==
    ASSUME NEW C, NEW a \in Seq(C), NEW b \in Seq(C), NEW w \in Seq(C), NEW z \in Seq(C)
    PROVE  IsPrefix(a, (a \o b) \o w) /\ IsPrefix(a, ((a \o b) \o w) \o z)
<1>1. (a \o b) \o w = a \o (b \o w) /\ b \o w \in Seq(C)
  BY ConcatAssociative, ConcatProperties
<1> DEFINE x == b \o w
<1>2. x \in Seq(C) /\ (a \o b) \o w = a \o x
  BY <1>1
<1> HIDE DEF x
<1>3. (a \o x) \o z = a \o (x \o z) /\ x \o z \in Seq(C)
  BY <1>2, ConcatAssociative, ConcatProperties
<1> QED BY <1>2, <1>3, PrefixOf

\* Whatever the log of some of the readings shows is shown by the log of all of them,
\* and by the log with the summary after it.
LEMMA ShownIsPrefix ==
    ASSUME NEW s \in Seq(Readings), NEW c \in Nat, c <= Len(s),
           NEW a \in Seq(Chars), NEW b \in Seq(Chars),
           a \o b = Log(SubSeq(s, 1, c))
    PROVE  IsPrefix(a, Log(s)) /\ IsPrefix(a, WholeLog(s))
<1>1. PICK w \in Seq(Chars) : Log(s) = (a \o b) \o w
  BY LogGrows
<1> DEFINE z == Summary([count |-> Len(s), min |-> SmallestOf(s), max |-> LargestOf(s),
                         sum |-> SumOf(s)])
           C == Chars \cup {z[i] : i \in 1 .. 5}
<1>2. z \in Seq(C)
  <2>1. z = <<z[1], z[2], z[3], z[4], z[5]>>
    BY DEF Summary
  <2> HIDE DEF z
  <2>2. z[1] \in C /\ z[2] \in C /\ z[3] \in C /\ z[4] \in C /\ z[5] \in C
    OBVIOUS
  <2> HIDE DEF C
  <2>3. <<z[1], z[2], z[3], z[4], z[5]>> \in Seq(C)
    BY <2>2
  <2> QED BY <2>1, <2>3
<1>3. a \in Seq(C) /\ b \in Seq(C) /\ w \in Seq(C)
  <2>1. Chars \subseteq C
    OBVIOUS
  <2> HIDE DEF C
  <2> QED BY <2>1, SeqMonotonic
<1>4. WholeLog(s) = ((a \o b) \o w) \o z
  BY <1>1 DEF WholeLog
<1> HIDE DEF z, C
<1>5. IsPrefix(a, (a \o b) \o w) /\ IsPrefix(a, ((a \o b) \o w) \o z)
  BY <1>2, <1>3, PrefixOfLonger
<1> QED BY <1>1, <1>4, <1>5

\* The types, and the limits of the queue, of the clock and of the readings taken.
THEOREM SensorTypes == Spec => []TypeOK
<1>1. IInv => TypeOK
  BY DEF IInv, Types, Place, TypeOK
<1> QED BY <1>1, SpecInv, PTL

\* However the ticks, the queue's limit and the preemption of the logger between two stores
\* fall, the console shows each reading once, in the order sampled, and no character twice.
THEOREM SensorLogFaithful == Spec => []LogIsFaithful
<1>1. ASSUME IInv PROVE LogIsFaithful
  <2>1. /\ sampled \in Seq(Readings) /\ console \in Seq(Chars) /\ text \in Seq(Chars)
        /\ stats.count \in Nat /\ stats.count <= Len(sampled)
    BY <1>1, Sizes DEF IInv, Types
  <2>2. CASE ~Ended
    <3>1. console \o text = Log(SubSeq(sampled, 1, stats.count))
      BY <1>1, <2>2 DEF IInv, Shown, First
    <3>2. IsPrefix(console, Log(sampled)) /\ IsPrefix(console, WholeLog(sampled))
      BY <2>1, <3>1, ShownIsPrefix
    <3> QED BY <3>2 DEF LogIsFaithful
  <2>3. CASE Ended
    <3>1. Len(sampled) = Samples /\ console \o text = WholeLog(sampled)
      BY <1>1, <2>3 DEF IInv, Queued, Place, Shown
    <3>2. IsPrefix(console, WholeLog(sampled))
      BY <2>1, <3>1, PrefixOf
    <3> QED BY <3>1, <3>2 DEF LogIsFaithful
  <2> QED BY <2>2, <2>3
<1> QED BY <1>1, SpecInv, PTL

\* The machine goes down only once it has shown every reading and the summary: the count,
\* the least, the greatest and the mean of the readings taken.
THEOREM SensorOffWhenDone == Spec => []OffWhenDone
<1>1. ASSUME IInv PROVE OffWhenDone
  <2> SUFFICES ASSUME ~powered
               PROVE  Len(sampled) = Samples /\ console = WholeLog(sampled)
    BY DEF OffWhenDone
  <2>1. logger = "off" /\ Ended
    BY <1>1 DEF IInv, Device, Ended
  <2>2. text = <<>> /\ console \in Seq(Chars) /\ console \o text = WholeLog(sampled)
    BY <1>1, <2>1 DEF IInv, Shown, Types
  <2>3. Len(sampled) = Samples
    BY <1>1, <2>1 DEF IInv, Queued, Place
  <2> QED BY <2>2, <2>3, ConcatEmptySeq
<1> QED BY <1>1, SpecInv, PTL
=============================================================================
