------------------------- MODULE AgentRunnerProofs -------------------------
(***************************************************************************)
(* Proofs about AgentRunner, for any number of workers, gauges, polls and  *)
(* reports: what cutting a batch into chunks preserves, the invariant of   *)
(* the loops, the queue and the workers, and what follows from it: every   *)
(* poll is counted, a shutdown delivers everything, and the agent          *)
(* implements AgentReport; last, that a shutdown never stands still and    *)
(* how many steps it may take at most.                                     *)
(***************************************************************************)
EXTENDS AgentRunner, SumProofs

-----------------------------------------------------------------------------
(* Polls in a chunk, and in a sequence of chunks.  What they do not depend  *)
(* on is how far the gauges are.                                           *)

AnyItem  == [id : Int, val : Nat]
AnyChunk == Seq(AnyItem)

LEMMA ChunksAreChunks == Chunks \subseteq AnyChunk /\ Seq(Chunks) \subseteq Seq(AnyChunk)
<1>1. Items \subseteq AnyItem
  BY AgentAssumption DEF Items, AnyItem, PollCount, SystemItem
<1>2. Chunks \subseteq AnyChunk
  BY <1>1, SeqMonotonic DEF Chunks, AnyChunk
<1> QED
  BY <1>2, SeqMonotonic

CountedIn(chunk)  == [i \in 1 .. Len(chunk) |-> Counted(chunk[i])]
PollsIn(chunks)   == [c \in 1 .. Len(chunks) |-> Polls(chunks[c])]

LEMMA CountedNat ==
  ASSUME NEW chunk \in AnyChunk
  PROVE  Len(chunk) \in Nat /\ \A i \in 1 .. Len(chunk) : CountedIn(chunk)[i] \in Nat
<1>1. \A i \in 1 .. Len(chunk) : chunk[i] \in AnyItem
  BY DEF AnyChunk
<1> QED
  BY <1>1 DEF CountedIn, Counted, AnyItem, AnyChunk

LEMMA PollsNat == \A chunk \in AnyChunk : Polls(chunk) \in Nat
<1> TAKE chunk \in AnyChunk
<1> QED
  BY CountedNat, SumToNat DEF Polls, CountedIn

LEMMA PollsConcat ==
  ASSUME NEW s \in AnyChunk, NEW t \in AnyChunk
  PROVE  s \o t \in AnyChunk /\ Polls(s \o t) = Polls(s) + Polls(t)
<1>1. /\ s \o t \in AnyChunk
      /\ Len(s \o t) = Len(s) + Len(t) /\ Len(s) \in Nat /\ Len(t) \in Nat
      /\ \A i \in 1 .. Len(s) : (s \o t)[i] = s[i]
      /\ \A i \in 1 .. Len(t) : (s \o t)[Len(s) + i] = t[i]
  BY DEF AnyChunk
<1>2. Joins(CountedIn(s \o t), CountedIn(s), Len(s), CountedIn(t), Len(t))
  <2>1. \A i \in 1 .. Len(s) : CountedIn(s)[i] \in Int /\ CountedIn(s \o t)[i] = CountedIn(s)[i]
    BY <1>1, CountedNat DEF CountedIn
  <2>2. \A i \in 1 .. Len(t) : /\ CountedIn(t)[i] \in Int
                               /\ CountedIn(s \o t)[Len(s) + i] = CountedIn(t)[i]
    BY <1>1, CountedNat DEF CountedIn
  <2> QED
    BY <2>1, <2>2 DEF Joins
<1>3. SumTo(CountedIn(s \o t), Len(s) + Len(t))
        = SumTo(CountedIn(s), Len(s)) + SumTo(CountedIn(t), Len(t))
  BY <1>1, <1>2, SumToConcat
<1> QED
  BY <1>1, <1>3 DEF Polls, CountedIn

LEMMA PollsEmpty == Polls(<<>>) = 0 /\ PollsOf(<<>>) = 0
BY SumToZero DEF Polls, PollsOf

LEMMA PollsInNat ==
  ASSUME NEW chunks \in Seq(AnyChunk)
  PROVE  Len(chunks) \in Nat /\ \A c \in 1 .. Len(chunks) : PollsIn(chunks)[c] \in Nat
BY PollsNat DEF PollsIn

LEMMA PollsOfNat == \A chunks \in Seq(AnyChunk) : PollsOf(chunks) \in Nat
<1> TAKE chunks \in Seq(AnyChunk)
<1> QED
  BY PollsInNat, SumToNat DEF PollsOf, PollsIn

LEMMA PollsOfConcat ==
  ASSUME NEW s \in Seq(AnyChunk), NEW t \in Seq(AnyChunk)
  PROVE  PollsOf(s \o t) = PollsOf(s) + PollsOf(t)
<1>1. /\ Len(s \o t) = Len(s) + Len(t) /\ Len(s) \in Nat /\ Len(t) \in Nat
      /\ \A i \in 1 .. Len(s) : (s \o t)[i] = s[i]
      /\ \A i \in 1 .. Len(t) : (s \o t)[Len(s) + i] = t[i]
  OBVIOUS
<1>2. Joins(PollsIn(s \o t), PollsIn(s), Len(s), PollsIn(t), Len(t))
  <2>1. \A i \in 1 .. Len(s) : PollsIn(s)[i] \in Int /\ PollsIn(s \o t)[i] = PollsIn(s)[i]
    BY <1>1, PollsInNat DEF PollsIn
  <2>2. \A i \in 1 .. Len(t) : /\ PollsIn(t)[i] \in Int
                               /\ PollsIn(s \o t)[Len(s) + i] = PollsIn(t)[i]
    BY <1>1, PollsInNat DEF PollsIn
  <2> QED
    BY <2>1, <2>2 DEF Joins
<1>3. SumTo(PollsIn(s \o t), Len(s) + Len(t))
        = SumTo(PollsIn(s), Len(s)) + SumTo(PollsIn(t), Len(t))
  BY <1>1, <1>2, SumToConcat
<1> QED
  BY <1>1, <1>3 DEF PollsOf, PollsIn

LEMMA PollsOfSingle == ASSUME NEW chunk \in AnyChunk PROVE PollsOf(<<chunk>>) = Polls(chunk)
<1>1. Len(<<chunk>>) = 0 + 1 /\ PollsIn(<<chunk>>)[0 + 1] = Polls(chunk)
  BY DEF PollsIn
<1>2. \A i \in 1 .. 0 + 1 : PollsIn(<<chunk>>)[i] \in Int
  BY <1>1, PollsNat
<1>3. SumTo(PollsIn(<<chunk>>), 0 + 1) = SumTo(PollsIn(<<chunk>>), 0) + Polls(chunk)
  BY <1>1, <1>2, SumToStep
<1> QED
  BY <1>1, <1>3, SumToZero, PollsNat DEF PollsOf, PollsIn

\* A queue gains what is appended, and loses what is taken from its head ...
LEMMA PollsOfAppend ==
  ASSUME NEW chunks \in Seq(AnyChunk), NEW chunk \in AnyChunk
  PROVE  PollsOf(Append(chunks, chunk)) = PollsOf(chunks) + Polls(chunk)
<1>1. Append(chunks, chunk) = chunks \o <<chunk>> /\ <<chunk>> \in Seq(AnyChunk)
  BY AppendIsConcat
<1> QED
  BY <1>1, PollsOfConcat, PollsOfSingle

LEMMA PollsOfTail ==
  ASSUME NEW chunks \in Seq(AnyChunk), chunks # <<>>
  PROVE  PollsOf(chunks) = Polls(Head(chunks)) + PollsOf(Tail(chunks))
<1>1. /\ Head(chunks) \in AnyChunk /\ <<Head(chunks)>> \in Seq(AnyChunk)
      /\ Tail(chunks) \in Seq(AnyChunk) /\ chunks = <<Head(chunks)>> \o Tail(chunks)
  OBVIOUS
<1> QED
  BY <1>1, PollsOfConcat, PollsOfSingle

\* ... and a chunk that leaves from anywhere takes its polls with it.
LEMMA PollsOfRemoveAt ==
  ASSUME NEW chunks \in Seq(AnyChunk), NEW k \in 1 .. Len(chunks)
  PROVE  PollsOf(chunks) = PollsOf(RemoveAt(chunks, k)) + Polls(chunks[k])
<1> DEFINE before == SubSeq(chunks, 1, k - 1)
           after  == SubSeq(chunks, k + 1, Len(chunks))
<1>1. /\ before \in Seq(AnyChunk) /\ after \in Seq(AnyChunk)
      /\ chunks[k] \in AnyChunk /\ <<chunks[k]>> \in Seq(AnyChunk)
      /\ before \o <<chunks[k]>> \in Seq(AnyChunk)
  OBVIOUS
<1>2. chunks = (before \o <<chunks[k]>>) \o after
  <2>1. /\ before \o <<chunks[k]>> = SubSeq(chunks, 1, k)
        /\ SubSeq(chunks, 1, k) \o after = SubSeq(chunks, 1, Len(chunks))
    BY SubSeqRecursiveSecond, ConcatAdjacentSubSeq
  <2> QED
    BY <2>1, SubSeqFull
<1>3. RemoveAt(chunks, k) = before \o after
  BY DEF RemoveAt
<1> HIDE DEF before, after
<1>4. /\ PollsOf(chunks) = PollsOf(before) + Polls(chunks[k]) + PollsOf(after)
      /\ PollsOf(before \o after) = PollsOf(before) + PollsOf(after)
  <2>1. PollsOf(chunks) = PollsOf(before \o <<chunks[k]>>) + PollsOf(after)
    BY <1>1, <1>2, PollsOfConcat, Zenon
  <2>2. PollsOf(before \o <<chunks[k]>>) = PollsOf(before) + PollsOf(<<chunks[k]>>)
    BY <1>1, PollsOfConcat, Zenon
  <2>3. PollsOf(before \o after) = PollsOf(before) + PollsOf(after)
    BY <1>1, PollsOfConcat, Zenon
  <2> QED
    BY <1>1, <2>1, <2>2, <2>3, PollsOfSingle, Zenon
<1>5. PollsOf(before) \in Nat /\ PollsOf(after) \in Nat /\ Polls(chunks[k]) \in Nat
  BY <1>1, PollsOfNat, PollsNat
<1> QED
  BY <1>3, <1>4, <1>5

-----------------------------------------------------------------------------
(* takeBatch and chunkBatch *)

\* The batch carries the polls counted since the last one, and nothing else.
LEMMA BatchPolls ==
  ASSUME TypeOK
  PROVE  /\ BuildBatch \in Chunks /\ BuildBatch \in AnyChunk /\ BuildBatch # <<>>
         /\ Polls(BuildBatch) = pollCount
<1> DEFINE runtime == [i \in 1 .. RuntimeGauges |-> Item(i, gauges)]
           count   == <<Item(PollCount, pollCount)>>
           n       == SystemGauges + (IF system THEN CpuGauges ELSE 0)
           others  == [i \in 1 .. n |-> Item(SystemItem, 0)]
<1>1. n \in Nat /\ RuntimeGauges \in Nat \ {0} /\ gauges \in Nat /\ pollCount \in Nat
  BY AgentAssumption DEF TypeOK
<1>2. /\ \A i \in 1 .. RuntimeGauges : Item(i, gauges) \in Items
      /\ Item(PollCount, pollCount) \in Items /\ Item(SystemItem, 0) \in Items
  BY <1>1 DEF Items, Item
<1> HIDE DEF n
<1>3. /\ runtime \in Chunks /\ count \in Chunks /\ others \in Chunks
      /\ Len(runtime) = RuntimeGauges /\ Len(count) = 1 /\ Len(others) = n
  BY <1>1, <1>2 DEF Chunks
<1>3a. count # <<>>
  OBVIOUS
<1>4. Polls(runtime) = 0
  <2>1. \A i \in 1 .. Len(runtime) : CountedIn(runtime)[i] = 0
    BY <1>1, <1>3 DEF CountedIn, Counted, Item, PollCount
  <2> QED
    BY <1>1, <1>3, <2>1, SumToZeros DEF Polls, CountedIn
<1>5. Polls(others) = 0
  <2>1. \A i \in 1 .. Len(others) : CountedIn(others)[i] = 0
    BY <1>1, <1>3 DEF CountedIn, Counted, Item, PollCount, SystemItem
  <2> QED
    BY <1>1, <1>3, <2>1, SumToZeros DEF Polls, CountedIn
<1>6. Polls(count) = pollCount
  <2>1. /\ Len(count) = 0 + 1 /\ CountedIn(count)[0 + 1] = pollCount
        /\ \A i \in 1 .. 0 + 1 : CountedIn(count)[i] \in Int
    BY <1>1 DEF CountedIn, Counted, Item
  <2>2. SumTo(CountedIn(count), 0 + 1) = SumTo(CountedIn(count), 0) + pollCount
    BY <2>1, SumToStep
  <2> QED
    BY <1>1, <2>1, <2>2, SumToZero DEF Polls, CountedIn
<1>7. BuildBatch = (runtime \o count) \o others
  BY DEF BuildBatch, n
<1>8. runtime \in AnyChunk /\ count \in AnyChunk /\ others \in AnyChunk
  BY <1>3, ChunksAreChunks
<1>9. BuildBatch \in Chunks /\ BuildBatch # <<>>
  <2> HIDE DEF runtime, count, others
  <2>1. (runtime \o count) \o others \in Seq(Items)
    BY <1>3 DEF Chunks
  <2>2. (runtime \o count) \o others # <<>>
    <3>1. runtime \in Seq(Items) /\ count \in Seq(Items)
      BY <1>3 DEF Chunks
    <3>2. runtime \o count \in Seq(Items) /\ runtime \o count # <<>>
      BY <1>3a, <3>1, ConcatProperties, ConcatEqualIffEmpty
    <3> QED
      BY <1>3, <3>2, ConcatEqualIffEmpty DEF Chunks
  <2> QED
    BY <1>7, <2>1, <2>2 DEF Chunks
<1> HIDE DEF runtime, count, others
<1> QED
  BY <1>1, <1>4, <1>5, <1>6, <1>7, <1>8, <1>9, PollsConcat, ChunksAreChunks

\* The size of a chunk, and how many there are, cover the batch exactly.
LEMMA ChunkSizes ==
  ASSUME NEW length \in Nat \ {0}, NEW parts \in Nat \ {0}, NEW size, NEW count,
         size = (length + parts - 1) \div parts,
         count = (length + size - 1) \div size
  PROVE  /\ size \in Nat \ {0} /\ count \in Nat \ {0}
         /\ length <= count * size
         /\ \A n \in Nat : n < count => n * size < length
<1>1. size \in Nat /\ length + parts - 1 < (size + 1) * parts
  OBVIOUS
<1>2. size # 0
  BY <1>1
<1>3. count \in Nat /\ count * size <= length + size - 1 /\ length + size - 1 < (count + 1) * size
  BY <1>1, <1>2
<1>4. count # 0
  BY <1>1, <1>2, <1>3
<1>5. (count + 1) * size = count * size + size /\ count * size \in Nat
  BY <1>1, <1>3
<1>6. ASSUME NEW n \in Nat, n < count PROVE n * size < length
  <2>1. PICK d \in Nat : count = n + 1 + d
    <3>1. count - n - 1 \in Nat /\ count = n + 1 + (count - n - 1)
      BY <1>3, <1>6
    <3> QED
      BY <3>1
  <2>2. count * size = n * size + size + d * size /\ d * size >= 0
    BY <1>1, <2>1
  <2> QED
    BY <1>1, <1>3, <2>2
<1> QED
  BY <1>1, <1>2, <1>3, <1>4, <1>5, <1>6

\* Cutting a batch up at any increasing positions neither loses nor repeats an
\* item.
LEMMA CutPolls ==
  ASSUME NEW batch \in AnyChunk, NEW count \in Nat,
         NEW end \in [0 .. count -> 0 .. Len(batch)], end[0] = 0,
         \A n \in 1 .. count : end[n - 1] <= end[n],
         NEW cut \in Seq(AnyChunk), Len(cut) = count,
         \A n \in 1 .. count : cut[n] = SubSeq(batch, end[n - 1] + 1, end[n])
  PROVE  PollsOf(cut) = Polls(SubSeq(batch, 1, end[count]))
<1> DEFINE done(n) == SubSeq(batch, 1, end[n])
           T       == {n \in Nat : n <= count => SumTo(PollsIn(cut), n) = Polls(done(n))}
<1>1. 0 \in T
  <2>1. done(0) = <<>>
    BY SubSeqEmpty
  <2> HIDE DEF done
  <2> QED
    BY <2>1, SumToZero, PollsEmpty
<1>2. ASSUME NEW n \in Nat, n \in T PROVE n + 1 \in T
  <2> SUFFICES ASSUME n + 1 <= count PROVE SumTo(PollsIn(cut), n + 1) = Polls(done(n + 1))
    OBVIOUS
  <2>1. /\ n + 1 \in 1 .. count /\ (n + 1) - 1 = n
        /\ end[n] \in 0 .. Len(batch) /\ end[n + 1] \in end[n] .. Len(batch)
        /\ Len(batch) \in Nat
    <3>1. n + 1 \in 1 .. count /\ (n + 1) - 1 = n /\ n \in 0 .. count /\ n + 1 \in 0 .. count
      OBVIOUS
    <3>2. Len(batch) \in Nat
      BY DEF AnyChunk
    <3>3. end[(n + 1) - 1] <= end[n + 1]
      BY <3>1
    <3> QED
      BY <3>1, <3>2, <3>3
  <2>2. cut[n + 1] = SubSeq(batch, end[n] + 1, end[n + 1])
    BY <2>1
  <2>3. done(n) \o cut[n + 1] = done(n + 1)
    <3>1. 1 \in 1 .. Len(batch) + 1 /\ end[n] \in 1 - 1 .. Len(batch)
      BY <2>1
    <3> QED
      BY <2>1, <2>2, <3>1, ConcatAdjacentSubSeq DEF AnyChunk
  <2>4. done(n) \in AnyChunk /\ cut[n + 1] \in AnyChunk
    <3>1. end[n] \in Nat /\ \A i \in 1 .. end[n] : batch[i] \in AnyItem
      BY <2>1 DEF AnyChunk
    <3>2. done(n) \in AnyChunk
      BY <3>1, SubSeqProperties DEF AnyChunk
    <3>3. n + 1 \in 1 .. Len(cut)
      BY <2>1
    <3>4. cut[n + 1] \in AnyChunk
      BY <3>3
    <3> QED
      BY <3>2, <3>4
  <2>5. /\ \A i \in 1 .. n + 1 : PollsIn(cut)[i] \in Int
        /\ PollsIn(cut)[n + 1] = Polls(cut[n + 1])
    <3>1. 1 .. n + 1 \subseteq 1 .. Len(cut) /\ n + 1 \in 1 .. Len(cut)
      BY <2>1
    <3>2. \A i \in 1 .. Len(cut) : PollsIn(cut)[i] \in Nat
      BY PollsInNat
    <3>3. PollsIn(cut)[n + 1] = Polls(cut[n + 1])
      BY <3>1 DEF PollsIn
    <3>4. \A i \in 1 .. n + 1 : PollsIn(cut)[i] \in Nat
      BY <3>1, <3>2, Zenon
    <3>5. Nat \subseteq Int
      OBVIOUS
    <3>6. \A i \in 1 .. n + 1 : PollsIn(cut)[i] \in Int
      BY <3>4, <3>5, Zenon
    <3> QED
      BY <3>3, <3>6, Zenon
  <2>6. SumTo(PollsIn(cut), n + 1) = SumTo(PollsIn(cut), n) + Polls(cut[n + 1])
    BY <2>5, SumToStep
  <2>7. SumTo(PollsIn(cut), n) = Polls(done(n))
    BY <1>2
  <2> HIDE DEF done
  <2> QED
    BY <2>3, <2>4, <2>6, <2>7, PollsConcat
<1> HIDE DEF T
<1>3. count \in T
  BY <1>1, <1>2, SetInduction
<1>4. SumTo(PollsIn(cut), count) = Polls(SubSeq(batch, 1, end[count]))
  BY <1>3 DEF T
<1> QED
  BY <1>4 DEF PollsOf, PollsIn

LEMMA ChunkBatchPolls ==
  ASSUME NEW S, NEW batch \in Seq(S), S \subseteq AnyItem, batch # <<>>,
         NEW parts \in Nat \ {0}
  PROVE  /\ ChunkBatch(batch, parts) \in Seq(Seq(S))
         /\ PollsOf(ChunkBatch(batch, parts)) = Polls(batch)
<1>1. Len(batch) \in Nat \ {0} /\ batch \in AnyChunk
  BY SeqMonotonic DEF AnyChunk
<1>2. PICK size : size = (Len(batch) + parts - 1) \div parts
  OBVIOUS
<1>3. PICK count : count = (Len(batch) + size - 1) \div size
  OBVIOUS
<1>4. /\ size \in Nat \ {0} /\ count \in Nat \ {0} /\ Len(batch) <= count * size
      /\ \A n \in Nat : n < count => n * size < Len(batch)
  BY <1>1, <1>2, <1>3, ChunkSizes
<1>5. PICK end : end = [c \in 0 .. count |->
                          IF c * size < Len(batch) THEN c * size ELSE Len(batch)]
  OBVIOUS
<1>6. PICK cut : cut = [c \in 1 .. count |-> SubSeq(batch, end[c - 1] + 1, end[c])]
  OBVIOUS
<1>7. /\ end \in [0 .. count -> 0 .. Len(batch)]
      /\ end[0] = 0 /\ end[count] = Len(batch)
  BY <1>1, <1>4, <1>5
<1>8. ASSUME NEW c \in 1 .. count
      PROVE  /\ end[c - 1] = (c - 1) * size /\ end[c - 1] \in Nat
             /\ end[c] = IF c * size < Len(batch) THEN c * size ELSE Len(batch)
             /\ end[c - 1] <= end[c]
  <2>1. c - 1 \in Nat /\ c - 1 < count /\ c - 1 \in 0 .. count /\ c \in 0 .. count
    BY <1>4
  <2>2. (c - 1) * size < Len(batch) /\ (c - 1) * size \in Nat
    BY <1>4, <2>1
  <2>3. c * size = (c - 1) * size + size /\ c * size \in Nat
    BY <1>4, <2>1
  <2>4. /\ end[c - 1] = (c - 1) * size
        /\ end[c] = IF c * size < Len(batch) THEN c * size ELSE Len(batch)
    BY <1>5, <2>1, <2>2
  <2> QED
    BY <1>1, <1>4, <2>2, <2>3, <2>4
<1>9. cut = ChunkBatch(batch, parts)
  <2>1. ChunkBatch(batch, parts)
          = [c \in 1 .. count |->
               SubSeq(batch, (c - 1) * size + 1,
                      IF c * size < Len(batch) THEN c * size ELSE Len(batch))]
    BY <1>2, <1>3 DEF ChunkBatch
  <2>2. \A c \in 1 .. count :
          cut[c] = SubSeq(batch, (c - 1) * size + 1,
                          IF c * size < Len(batch) THEN c * size ELSE Len(batch))
    BY <1>6, <1>8
  <2> QED
    BY <1>6, <2>1, <2>2
<1>10. \A c \in 1 .. count : cut[c] \in Seq(S)
  <2> TAKE c \in 1 .. count
  <2>1. end[c - 1] \in Nat /\ end[c] \in 0 .. Len(batch)
    BY <1>4, <1>7, <1>8
  <2>2. SubSeq(batch, end[c - 1] + 1, end[c]) \in Seq(S)
    <3>1. \A i \in end[c - 1] + 1 .. end[c] : batch[i] \in S
      BY <1>1, <2>1
    <3> QED
      BY <1>1, <2>1, <3>1, SubSeqProperties
  <2> QED
    BY <1>6, <2>2
<1>11. cut \in Seq(Seq(S)) /\ cut \in Seq(AnyChunk) /\ Len(cut) = count
  <2>1. Seq(S) \subseteq AnyChunk
    BY SeqMonotonic DEF AnyChunk
  <2>2. cut \in [1 .. count -> Seq(S)]
    BY <1>6, <1>10
  <2>3. cut \in Seq(Seq(S)) /\ Len(cut) = count
    BY <1>4, <2>2, SeqDef
  <2> QED
    BY <2>1, <2>3, SeqMonotonic
<1>12. PollsOf(cut) = Polls(SubSeq(batch, 1, end[count]))
  <2>1. \A n \in 1 .. count : /\ end[n - 1] <= end[n]
                               /\ cut[n] = SubSeq(batch, end[n - 1] + 1, end[n])
    BY <1>6, <1>8
  <2>2. /\ \A n \in 1 .. count : end[n - 1] <= end[n]
        /\ \A n \in 1 .. count : cut[n] = SubSeq(batch, end[n - 1] + 1, end[n])
    BY <2>1, Zenon
  <2>3. count \in Nat
    BY <1>4
  <2> QED
    BY <1>1, <1>7, <1>11, <2>2, <2>3, CutPolls, ZenonT(60)
<1> QED
  BY <1>7, <1>9, <1>11, <1>12, SubSeqFull

\* takeBatch moves the polls it takes into chunks.
LEMMA CutBatch ==
  ASSUME TypeOK
  PROVE  /\ ChunkBatch(BuildBatch, RateLimit) \in Seq(Chunks)
         /\ PollsOf(ChunkBatch(BuildBatch, RateLimit)) = pollCount
<1>1. RateLimit \in Nat \ {0}
  BY AgentAssumption, FS_CardinalityType, FS_EmptySet DEF RateLimit
<1>2. Items \subseteq AnyItem
  BY AgentAssumption DEF Items, AnyItem, PollCount, SystemItem
<1> QED
  BY <1>1, <1>2, BatchPolls, ChunkBatchPolls DEF Chunks

-----------------------------------------------------------------------------
(* Types.  What a flush has left to submit is part of its batch, a worker  *)
(* holds a chunk while it sends it, and only a worker with attempts left   *)
(* waits for the next one.                                                 *)

FlushInv ==
  /\ ~flush.active => flush = NoFlush
  /\ flush.checked => flush.chunks # <<>>
  /\ PollsOf(flush.chunks) <= flush.polls

WorkerInv(w) ==
  /\ workers[w].pc \in {"idle", "exited"} => workers[w].chunk = <<>>
  /\ workers[w].pc = "backoff" => workers[w].attempt < MaxAttempts

TypeInv == TypeOK /\ FlushInv /\ \A w \in Workers : WorkerInv(w)

LEMMA ChunksGrow ==
  ASSUME TypeOK, gauges' \in {gauges, gauges + 1}
  PROVE  /\ Chunks \subseteq Chunks' /\ Seq(Chunks) \subseteq Seq(Chunks')
         /\ FlushType \subseteq FlushType' /\ WorkerType \subseteq WorkerType'
         /\ ServerType \subseteq ServerType'
<1>1. gauges \in Nat /\ 0 .. gauges \subseteq 0 .. gauges'
  BY DEF TypeOK
<1>2. Items \subseteq Items'
  BY <1>1 DEF Items
<1>3. Chunks \subseteq Chunks'
  BY <1>2, SeqMonotonic DEF Chunks
<1>4. Seq(Chunks) \subseteq Seq(Chunks')
  BY <1>3, SeqMonotonic
<1> HIDE DEF Chunks
<1> QED
  BY <1>1, <1>3, <1>4 DEF FlushType, WorkerType, ServerType

LEMMA AppliedType ==
  ASSUME TypeOK, NEW chunk \in Chunks
  PROVE  /\ Applied(server, chunk) \in ServerType
         /\ Applied(server, chunk).polls = server.polls + Polls(chunk)
<1>1. server.polls + Polls(chunk) \in Nat
  BY PollsNat, ChunksAreChunks DEF TypeOK, ServerType
<1>2. ASSUME NEW i \in 1 .. RuntimeGauges, NEW k \in 1 .. Len(chunk), chunk[k].id = i
      PROVE  chunk[k].val \in 0 .. gauges
  <2>1. chunk[k] \in Items
    BY DEF Chunks
  <2> QED
    BY <1>2, <2>1 DEF Items, PollCount, SystemItem
<1>3. \A i \in 1 .. RuntimeGauges : Applied(server, chunk).gauges[i] \in 0 .. gauges
  BY <1>2 DEF Applied, TypeOK, ServerType
<1> QED
  BY <1>1, <1>3 DEF Applied, ServerType

LEMMA InitType == Init => TypeInv
<1> SUFFICES ASSUME Init PROVE TypeInv
  OBVIOUS
<1>1. <<>> \in Chunks /\ <<>> \in Seq(Chunks) /\ Len(<<>>) = 0
  BY DEF Chunks
<1>2. RateLimit \in Nat /\ MaxLimbo \in Nat /\ MaxReports \in Nat /\ MaxAttempts \in Nat
  BY AgentAssumption, FS_CardinalityType DEF RateLimit
<1>3. TypeOK
  <2>1. IdleWorker \in WorkerType /\ NoFlush \in FlushType
    BY <1>1, <1>2 DEF IdleWorker, NoFlush, WorkerType, FlushType
  <2>2. server \in ServerType
    BY DEF Init, ServerType
  <2>3. workers \in [Workers -> WorkerType] /\ flush \in FlushType
    BY <2>1 DEF Init
  <2>4. /\ loops \in [{"runtime", "system", "report"} -> {"first", "loop", "flush", "done"}]
        /\ main \in {"waiting", "flush", "stop", "join", "stopped"}
    BY DEF Init
  <2>5. /\ jobs \in Seq(Chunks) /\ Len(jobs) <= RateLimit
        /\ limbo \in Seq(Chunks) /\ Len(limbo) <= MaxLimbo
    <3>1. jobs = <<>> /\ limbo = <<>>
      BY DEF Init
    <3>2. 0 <= RateLimit /\ 0 <= MaxLimbo
      BY <1>2
    <3> QED
      BY <1>1, <3>1, <3>2, Zenon
  <2>6. /\ cancelled \in BOOLEAN /\ closed \in BOOLEAN /\ system \in BOOLEAN
        /\ gauges \in Nat /\ pollCount \in Nat /\ dropped \in Nat /\ repeated \in Nat
        /\ reports \in 0 .. MaxReports
    <3>1. /\ cancelled = FALSE /\ closed = FALSE /\ system = FALSE
          /\ gauges = 0 /\ pollCount = 0 /\ dropped = 0 /\ repeated = 0 /\ reports = 0
      BY DEF Init
    <3>2. 0 \in Nat /\ 0 \in 0 .. MaxReports
      BY <1>2
    <3> QED
      BY <3>1, <3>2, Zenon
  <2> QED
    BY <2>2, <2>3, <2>4, <2>5, <2>6 DEF TypeOK
<1> QED
  BY <1>3, PollsEmpty
  DEF Init, TypeInv, FlushInv, WorkerInv, NoFlush, IdleWorker

\* A new batch.
LEMMA TakeBatchType ==
  ASSUME TypeInv, TakeBatch, gauges' = gauges
  PROVE  flush' \in FlushType' /\ pollCount' \in Nat /\ FlushInv'
<1>1. /\ flush'.chunks \in Seq(Chunks) /\ PollsOf(flush'.chunks) = flush'.polls
      /\ flush' \in FlushType /\ flush'.active /\ ~flush'.checked /\ flush'.polls \in Nat
  BY CutBatch DEF TypeInv, TypeOK, TakeBatch, FlushType
<1> QED
  BY <1>1, ChunksGrow DEF TypeInv, TakeBatch, FlushInv

\* The worker is back at its queue.
LEMMA GiveUpType ==
  ASSUME TypeInv, NEW w \in Workers, workers' = [workers EXCEPT ![w] = IdleWorker]
  PROVE  workers' \in [Workers -> WorkerType] /\ \A v \in Workers : WorkerInv(v)'
<1>1. IdleWorker \in WorkerType
  <2>1. <<>> \in Chunks /\ 0 \in 0 .. MaxAttempts
    BY AgentAssumption DEF Chunks
  <2> QED
    BY <2>1 DEF IdleWorker, WorkerType
<1>2. \A v \in Workers : workers'[v] = IF v = w THEN IdleWorker ELSE workers[v]
  BY DEF TypeInv, TypeOK
<1> QED
  BY <1>1, <1>2 DEF TypeInv, TypeOK, WorkerInv, IdleWorker

LEMMA MayArriveLateType ==
  ASSUME TypeOK, NEW chunk \in Chunks, MayArriveLate(chunk)
  PROVE  limbo' \in Seq(Chunks) /\ Len(limbo') <= MaxLimbo
<1>1. limbo \in Seq(Chunks) /\ Len(limbo) <= MaxLimbo /\ MaxLimbo \in Nat
  BY AgentAssumption DEF TypeOK
<1>2. CASE UNCHANGED limbo
  BY <1>1, <1>2
<1>3. CASE Len(limbo) < MaxLimbo /\ limbo' = Append(limbo, chunk)
  <2> HIDE DEF Chunks
  <2>1. limbo' \in Seq(Chunks) /\ Len(limbo') = Len(limbo) + 1 /\ Len(limbo) \in Nat
    BY <1>1, <1>3, AppendProperties
  <2> QED
    BY <1>1, <1>3, <2>1
<1> QED
  BY <1>2, <1>3 DEF MayArriveLate

LEMMA RemoveAtType ==
  ASSUME NEW S, NEW s \in Seq(S), NEW k \in 1 .. Len(s)
  PROVE  RemoveAt(s, k) \in Seq(S) /\ Len(RemoveAt(s, k)) = Len(s) - 1 /\ Len(s) \in Nat
<1> DEFINE before == SubSeq(s, 1, k - 1)
           after  == SubSeq(s, k + 1, Len(s))
<1>1. before \in Seq(S) /\ after \in Seq(S) /\ Len(before) = k - 1 /\ Len(after) = Len(s) - k
  OBVIOUS
<1>2. RemoveAt(s, k) = before \o after
  BY DEF RemoveAt
<1> HIDE DEF before, after
<1> QED
  BY <1>1, <1>2

LEMMA NextType == TypeInv /\ [Next]_vars => TypeInv'
<1> SUFFICES ASSUME TypeInv, [Next]_vars PROVE TypeInv'
  OBVIOUS
<1> USE DEF TypeInv
<1>A. gauges' = gauges => /\ Chunks' = Chunks /\ FlushType' = FlushType
                          /\ WorkerType' = WorkerType /\ ServerType' = ServerType
  BY DEF Chunks, Items, FlushType, WorkerType, ServerType
<1>1. CASE Cancel
  BY <1>1, <1>A DEF Cancel, runnerVars, netVars, TypeOK, FlushInv, WorkerInv
<1>2. CASE PollRuntime
  <2>1. /\ gauges' = gauges + 1 /\ pollCount' = pollCount + 1
        /\ UNCHANGED <<flush, jobs, workers, limbo, server>>
    BY <1>2 DEF PollRuntime, netVars
  <2>2. UNCHANGED <<cancelled, main, system, reports, closed, dropped, repeated>>
    BY <1>2 DEF PollRuntime, netVars
  <2>3. /\ flush \in FlushType' /\ jobs \in Seq(Chunks') /\ limbo \in Seq(Chunks')
        /\ server \in ServerType'
    <3>1. Seq(Chunks) \subseteq Seq(Chunks') /\ FlushType \subseteq FlushType'
          /\ ServerType \subseteq ServerType'
      BY <2>1, ChunksGrow, Zenon
    <3>2. flush \in FlushType /\ jobs \in Seq(Chunks) /\ limbo \in Seq(Chunks)
          /\ server \in ServerType
      BY Zenon DEF TypeOK
    <3> QED
      BY <3>1, <3>2, Zenon
  <2>4. workers \in [Workers -> WorkerType']
    <3>1. WorkerType \subseteq WorkerType'
      BY <2>1, ChunksGrow, Zenon
    <3>2. workers \in [Workers -> WorkerType]
      BY Zenon DEF TypeOK
    <3> HIDE DEF WorkerType
    <3> QED
      BY <3>1, <3>2
  <2>5. loops' \in [{"runtime", "system", "report"} -> {"first", "loop", "flush", "done"}]
    BY <1>2 DEF PollRuntime, TypeOK
  <2>6. gauges' \in Nat /\ pollCount' \in Nat
    BY <2>1 DEF TypeOK
  <2>7. TypeOK'
    BY <2>1, <2>2, <2>3, <2>4, <2>5, <2>6, Zenon DEF TypeOK
  <2> QED
    BY <2>1, <2>7 DEF FlushInv, WorkerInv
<1>3. CASE PollSystem
  BY <1>3, <1>A DEF PollSystem, netVars, TypeOK, FlushInv, WorkerInv
<1>4. ASSUME NEW l \in DOMAIN loops, LoopStops(l) PROVE TypeInv'
  BY <1>4, <1>A DEF LoopStops, netVars, TypeOK, FlushInv, WorkerInv
<1>5. CASE ReportTick \/ FinalFlush
  <2>1. /\ TakeBatch /\ gauges' = gauges
        /\ UNCHANGED <<cancelled, closed, system, jobs, workers, limbo, server, dropped, repeated>>
    BY <1>5 DEF ReportTick, FinalFlush, netVars
  <2>2. reports' \in 0 .. MaxReports /\ loops' \in [{"runtime", "system", "report"} -> {"first", "loop", "flush", "done"}]
        /\ main' \in {"waiting", "flush", "stop", "join", "stopped"}
    <3>1. CASE ReportTick
      <4>1. reports' = reports + 1 /\ reports < MaxReports /\ main' = main
            /\ loops' = [loops EXCEPT !.report = "flush"]
        BY <3>1 DEF ReportTick
      <4>2. loops' \in [{"runtime", "system", "report"} -> {"first", "loop", "flush", "done"}]
        BY <4>1 DEF TypeOK
      <4>3. MaxReports \in Nat /\ reports \in 0 .. MaxReports
        BY AgentAssumption DEF TypeOK
      <4>4. reports' \in 0 .. MaxReports
        BY <4>1, <4>3
      <4> QED
        BY <4>1, <4>2, <4>4 DEF TypeOK
    <3>2. CASE FinalFlush
      BY <3>2 DEF FinalFlush, TypeOK
    <3> QED
      BY <1>5, <3>1, <3>2
  <2> QED
    BY <1>A, <2>1, <2>2, TakeBatchType DEF TypeOK, FlushInv, WorkerInv
<1>6. CASE FlushExpires \/ SubmitChecks
  <2>1. /\ flush' \in FlushType /\ FlushInv'
    BY <1>6 DEF FlushExpires, SubmitChecks, TypeOK, FlushType, FlushInv
  <2> QED
    BY <1>6, <1>A, <2>1 DEF FlushExpires, SubmitChecks, netVars, TypeOK, WorkerInv
<1>7. CASE SubmitSends
  <2>1. /\ flush.chunks \in Seq(Chunks) /\ flush.chunks # <<>>
    BY <1>7 DEF SubmitSends, TypeOK, FlushType, FlushInv
  <2>2. Head(flush.chunks) \in Chunks /\ Tail(flush.chunks) \in Seq(Chunks)
    BY <2>1
  <2>3. /\ jobs' \in Seq(Chunks) /\ Len(jobs') <= RateLimit
    BY <1>7, <2>2, AgentAssumption, FS_CardinalityType DEF SubmitSends, TypeOK, RateLimit
  <2>4. flush' \in FlushType /\ flush'.chunks = Tail(flush.chunks) /\ flush'.polls = flush.polls
        /\ flush'.active /\ ~flush'.checked
    BY <1>7, <2>2 DEF SubmitSends, TypeOK, FlushType
  <2>5. PollsOf(Tail(flush.chunks)) <= flush.polls
    <3>1. PollsOf(flush.chunks) = Polls(Head(flush.chunks)) + PollsOf(Tail(flush.chunks))
      BY <2>1, ChunksAreChunks, PollsOfTail
    <3>2. Polls(Head(flush.chunks)) \in Nat /\ PollsOf(Tail(flush.chunks)) \in Nat
      BY <2>2, ChunksAreChunks, PollsNat, PollsOfNat
    <3> QED
      BY <3>1, <3>2 DEF FlushInv, TypeOK, FlushType
  <2> QED
    BY <1>7, <1>A, <2>3, <2>4, <2>5 DEF SubmitSends, netVars, TypeOK, FlushInv, WorkerInv
<1>8. CASE SubmitFails \/ FlushDone
  <2>1. flush' = NoFlush /\ NoFlush \in FlushType /\ FlushInv'
    BY <1>8, PollsEmpty DEF SubmitFails, FlushDone, FlushReturns, NoFlush, FlushType, FlushInv
  <2>2. pollCount' \in Nat /\ repeated' \in Nat
    <3>1. PollsOf(flush.chunks) \in Nat
      BY ChunksAreChunks, PollsOfNat DEF TypeOK, FlushType
    <3> QED
      BY <1>8, <3>1 DEF SubmitFails, FlushDone, Returned, netVars, TypeOK, FlushType, FlushInv
  <2>3. /\ loops' \in [{"runtime", "system", "report"} -> {"first", "loop", "flush", "done"}]
        /\ main' \in {"waiting", "flush", "stop", "join", "stopped"}
    BY <1>8 DEF SubmitFails, FlushDone, FlushReturns, TypeOK
  <2> QED
    BY <1>8, <1>A, <2>1, <2>2, <2>3 DEF SubmitFails, FlushDone, netVars, TypeOK, WorkerInv
<1>9. CASE PoolStop \/ PoolStopped
  BY <1>9, <1>A DEF PoolStop, PoolStopped, netVars, TypeOK, FlushInv, WorkerInv
<1>10. ASSUME NEW w \in Workers, Receive(w) PROVE TypeInv'
  <2>1. Head(jobs) \in Chunks /\ Tail(jobs) \in Seq(Chunks) /\ Len(Tail(jobs)) <= RateLimit
    BY <1>10, AgentAssumption, FS_CardinalityType DEF Receive, TypeOK, RateLimit
  <2>2. 1 \in 0 .. MaxAttempts
    BY AgentAssumption
  <2>3. /\ workers' \in [Workers -> WorkerType]
        /\ \A v \in Workers : WorkerInv(v)'
    BY <1>10, <2>1, <2>2 DEF Receive, TypeOK, WorkerType, WorkerInv
  <2> QED
    BY <1>10, <1>A, <2>1, <2>3 DEF Receive, runnerVars, netVars, TypeOK, FlushInv
<1>11. ASSUME NEW w \in Workers, WorkerExits(w) PROVE TypeInv'
  <2>1. /\ workers' \in [Workers -> WorkerType]
        /\ \A v \in Workers : WorkerInv(v)'
    BY <1>11 DEF WorkerExits, TypeOK, WorkerType, WorkerInv
  <2> QED
    BY <1>11, <1>A, <2>1 DEF WorkerExits, runnerVars, netVars, TypeOK, FlushInv
<1>12. ASSUME NEW w \in Workers, SendSucceeds(w) PROVE TypeInv'
  <2>1. server' \in ServerType
    BY <1>12, AppliedType DEF SendSucceeds, TypeOK, WorkerType
  <2> QED
    BY <1>12, <1>A, <2>1, GiveUpType DEF SendSucceeds, runnerVars, TypeOK, FlushInv
<1>13. ASSUME NEW w \in Workers, SendRefused(w) \/ SendTimesOut(w) PROVE TypeInv'
  <2>1. workers[w].chunk \in Chunks /\ Polls(workers[w].chunk) \in Nat
    BY ChunksAreChunks, PollsNat DEF TypeOK, WorkerType
  <2>2. limbo' \in Seq(Chunks) /\ Len(limbo') <= MaxLimbo
    BY <1>13, <2>1, MayArriveLateType DEF SendRefused, SendTimesOut, TypeOK
  <2> QED
    BY <1>13, <1>A, <2>1, <2>2, GiveUpType
    DEF SendRefused, SendTimesOut, GiveUp, runnerVars, TypeOK, FlushInv
<1>14. ASSUME NEW w \in Workers, SendFails(w) PROVE TypeInv'
  <2>1. workers[w].chunk \in Chunks /\ Polls(workers[w].chunk) \in Nat
    BY ChunksAreChunks, PollsNat DEF TypeOK, WorkerType
  <2>2. limbo' \in Seq(Chunks) /\ Len(limbo') <= MaxLimbo
    BY <1>14, <2>1, MayArriveLateType DEF SendFails
  <2>3. /\ workers' \in [Workers -> WorkerType]
        /\ \A v \in Workers : WorkerInv(v)'
        /\ dropped' \in Nat
    <3>1. CASE TriesLeft(w)
      <4>1. /\ workers' = [workers EXCEPT ![w].pc = "backoff"] /\ dropped' = dropped
            /\ workers[w].attempt < MaxAttempts
        BY <1>14, <3>1 DEF SendFails, TriesLeft
      <4>2. workers' \in [Workers -> WorkerType]
        BY <4>1 DEF TypeOK, WorkerType
      <4>3. \A v \in Workers : WorkerInv(v)'
        BY <4>1 DEF TypeOK, WorkerType, WorkerInv
      <4> QED
        BY <4>1, <4>2, <4>3 DEF TypeOK
    <3>2. CASE ~TriesLeft(w)
      BY <1>14, <2>1, <3>2, GiveUpType DEF SendFails, GiveUp, TypeOK
    <3> QED
      BY <3>1, <3>2
  <2> QED
    BY <1>14, <1>A, <2>2, <2>3 DEF SendFails, runnerVars, TypeOK, FlushInv
<1>15. ASSUME NEW w \in Workers, Retry(w) PROVE TypeInv'
  <2>1. /\ workers' \in [Workers -> WorkerType]
        /\ \A v \in Workers : WorkerInv(v)'
    <3>1. workers[w].attempt + 1 \in 0 .. MaxAttempts
      BY <1>15, AgentAssumption DEF Retry, TypeOK, WorkerType, WorkerInv
    <3> QED
      BY <1>15, <3>1 DEF Retry, TypeOK, WorkerType, WorkerInv
  <2> QED
    BY <1>15, <1>A, <2>1 DEF Retry, runnerVars, netVars, TypeOK, FlushInv
<1>16. CASE ArrivesLate
  <2>1. PICK k \in 1 .. Len(limbo) : /\ server' = Applied(server, limbo[k])
                                     /\ limbo' = RemoveAt(limbo, k)
                                     /\ repeated' = repeated + Polls(limbo[k])
    BY <1>16 DEF ArrivesLate
  <2>2. limbo[k] \in Chunks /\ Polls(limbo[k]) \in Nat
    BY ChunksAreChunks, PollsNat DEF TypeOK
  <2>3. RemoveAt(limbo, k) \in Seq(Chunks) /\ Len(RemoveAt(limbo, k)) <= MaxLimbo
    BY RemoveAtType, AgentAssumption DEF TypeOK
  <2>4. /\ UNCHANGED <<cancelled, runnerVars, jobs, closed, workers, dropped>>
        /\ gauges' = gauges
    BY <1>16 DEF ArrivesLate, runnerVars
  <2>5. repeated' \in Nat
    BY <2>1, <2>2 DEF TypeOK
  <2>6. server' \in ServerType
    BY <2>1, <2>2, AppliedType
  <2>7. TypeOK'
    BY <1>A, <2>1, <2>3, <2>4, <2>5, <2>6 DEF runnerVars, TypeOK
  <2>8. FlushInv' /\ \A w \in Workers : WorkerInv(w)'
    BY <2>4 DEF runnerVars, FlushInv, WorkerInv
  <2> QED
    BY <2>7, <2>8
<1>17. CASE UNCHANGED vars
  BY <1>17, <1>A DEF vars, runnerVars, netVars, TypeOK, FlushInv, WorkerInv
<1> QED
  BY <1>1, <1>2, <1>3, <1>4, <1>5, <1>6, <1>7, <1>8, <1>9, <1>10, <1>11, <1>12, <1>13, <1>14,
     <1>15, <1>16, <1>17 DEF Next, Send, Terminated

\* The agent never leaves its types: its queue stays within its capacity, an
\* attempt is one of those the client makes, and no gauge that is on its way or
\* on the server is ahead of the samples taken.
THEOREM TypeCorrect == Spec => []TypeOK
<1>1. TypeInv => TypeOK
  BY DEF TypeInv
<1> QED
  BY <1>1, InitType, NextType, PTL DEF Spec

-----------------------------------------------------------------------------
(* The order of a shutdown.  Run leaves its wg.Wait when the loops are     *)
(* done, a flush belongs to the report loop before that and to Run after   *)
(* it, Stop comes last, and a worker leaves when the closed queue is empty.*)

ShutdownInv ==
  /\ main # "waiting" => LoopsDone
  /\ flush.active => main = "flush" \/ loops.report = "flush"
  /\ closed <=> main \in {"join", "stopped"}
  /\ \A w \in Workers : workers[w].pc = "exited" => closed /\ jobs = <<>>
  /\ main = "stopped" => WorkersDone

LEMMA InitShutdown == Init => ShutdownInv
BY DEF Init, ShutdownInv, NoFlush, IdleWorker

\* A flush returns to the loop that called it.
LEMMA FlushReturnsKeeps ==
  ASSUME TypeInv, ShutdownInv, flush.active, FlushReturns, UNCHANGED <<closed, jobs, workers>>
  PROVE  ShutdownInv'
BY DEF TypeInv, TypeOK, ShutdownInv, FlushReturns, NoFlush, LoopsDone, WorkersDone

\* A worker goes on: it has not exited, so Run has not returned.
LEMMA WorkerKeeps ==
  ASSUME TypeInv, ShutdownInv, NEW w \in Workers, workers[w].pc # "exited",
         NEW next, workers' = [workers EXCEPT ![w] = next], next.pc # "exited",
         jobs = <<>> => jobs' = <<>>, UNCHANGED <<closed, runnerVars>>
  PROVE  ShutdownInv'
<1>1. \A v \in Workers : workers'[v] = IF v = w THEN next ELSE workers[v]
  BY DEF TypeInv, TypeOK
<1>2. main # "stopped"
  BY DEF ShutdownInv, WorkersDone
<1> QED
  BY <1>1, <1>2 DEF ShutdownInv, LoopsDone, WorkersDone, runnerVars

LEMMA NextShutdown == TypeInv /\ ShutdownInv /\ [Next]_vars => ShutdownInv'
<1> SUFFICES ASSUME TypeInv, ShutdownInv, [Next]_vars PROVE ShutdownInv'
  OBVIOUS
<1>0. DOMAIN loops = {"runtime", "system", "report"}
  BY DEF TypeInv, TypeOK
<1> USE DEF ShutdownInv, LoopsDone, WorkersDone
<1>1. CASE Cancel
  BY <1>1 DEF Cancel, runnerVars
<1>2. CASE PollRuntime \/ PollSystem
  <2>1. PICK l \in {"runtime", "system"} :
          /\ loops[l] \in {"first", "loop"}
          /\ loops' = [loops EXCEPT ![l] = "loop"]
    BY <1>2 DEF PollRuntime, PollSystem
  <2>2. /\ ~LoopsDone /\ UNCHANGED <<main, flush, closed, jobs, workers>>
        /\ loops'.report = loops.report
    BY <1>0, <1>2, <2>1 DEF PollRuntime, PollSystem
  <2> QED
    BY <2>1, <2>2
<1>3. ASSUME NEW l \in DOMAIN loops, LoopStops(l) PROVE ShutdownInv'
  BY <1>0, <1>3 DEF LoopStops
<1>4. CASE ReportTick
  BY <1>0, <1>4 DEF ReportTick, TakeBatch
<1>5. CASE FinalFlush
  BY <1>0, <1>5 DEF FinalFlush, TakeBatch
<1>6. CASE FlushExpires \/ SubmitChecks \/ SubmitSends
  <2>1. /\ flush.active /\ flush'.active = flush.active
        /\ UNCHANGED <<loops, main, closed, workers>>
    <3>1. flush \in FlushType /\ FlushInv
      BY DEF TypeInv, TypeOK
    <3> QED
      BY <1>6, <3>1 DEF FlushExpires, SubmitChecks, SubmitSends, FlushType
  <2>2. ~closed
    BY <1>0, <2>1
  <2> QED
    BY <2>1, <2>2
<1>7. CASE SubmitFails \/ FlushDone
  BY <1>7, FlushReturnsKeeps DEF SubmitFails, FlushDone
<1>8. CASE PoolStop \/ PoolStopped
  BY <1>8 DEF PoolStop, PoolStopped
<1>9. ASSUME NEW w \in Workers, Receive(w) PROVE ShutdownInv'
  <2> DEFINE next == [pc |-> "send", chunk |-> Head(jobs), attempt |-> 1]
  <2>1. /\ workers' = [workers EXCEPT ![w] = next] /\ next.pc # "exited"
        /\ workers[w].pc # "exited" /\ jobs # <<>> /\ UNCHANGED <<closed, runnerVars>>
    BY <1>9 DEF Receive
  <2> HIDE DEF next
  <2> QED
    BY <2>1, WorkerKeeps
<1>10. ASSUME NEW w \in Workers, WorkerExits(w) PROVE ShutdownInv'
  BY <1>10 DEF WorkerExits, QueueOver, runnerVars, TypeInv, TypeOK
<1>11. ASSUME NEW w \in Workers, Send(w) PROVE ShutdownInv'
  <2>1. workers[w].pc # "exited" /\ UNCHANGED <<jobs, closed, runnerVars>>
    BY <1>11 DEF Send, SendSucceeds, SendRefused, SendFails, Retry, SendTimesOut
  <2>2. \E next : workers' = [workers EXCEPT ![w] = next] /\ next.pc # "exited"
    <3>1. CASE workers' = [workers EXCEPT ![w] = IdleWorker]
      <4>1. IdleWorker.pc = "idle"
        BY DEF IdleWorker
      <4> QED
        BY <3>1, <4>1
    <3>2. CASE workers' = [workers EXCEPT ![w].pc = "backoff"]
      <4>1. [workers[w] EXCEPT !.pc = "backoff"].pc = "backoff"
        BY DEF TypeInv, TypeOK, WorkerType
      <4> QED
        BY <3>2, <4>1
    <3>3. CASE Retry(w)
      <4>1. [workers[w] EXCEPT !.pc = "send", !.attempt = @ + 1].pc = "send"
        BY DEF TypeInv, TypeOK, WorkerType
      <4> QED
        BY <3>3, <4>1 DEF Retry
    <3>4. \/ workers' = [workers EXCEPT ![w] = IdleWorker]
          \/ workers' = [workers EXCEPT ![w].pc = "backoff"]
          \/ Retry(w)
      BY <1>11 DEF Send, SendSucceeds, SendRefused, SendFails, SendTimesOut, GiveUp
    <3> QED
      BY <3>1, <3>2, <3>3, <3>4
  <2> QED
    BY <2>1, <2>2, WorkerKeeps
<1>12. CASE ArrivesLate
  BY <1>12 DEF ArrivesLate, runnerVars
<1>13. CASE UNCHANGED vars
  BY <1>13 DEF vars, runnerVars
<1> QED
  BY <1>1, <1>2, <1>3, <1>4, <1>5, <1>6, <1>7, <1>8, <1>9, <1>10, <1>11, <1>12, <1>13
  DEF Next, Terminated

\* Nobody submits to the queue once Stop has closed it.
THEOREM NoSubmitAfterCloseHolds == Spec => []NoSubmitAfterClose
<1>1. TypeInv /\ ShutdownInv => NoSubmitAfterClose
  BY DEF TypeInv, TypeOK, ShutdownInv, NoSubmitAfterClose, LoopsDone
<1> QED
  BY <1>1, InitType, NextType, InitShutdown, NextShutdown, PTL DEF Spec

-----------------------------------------------------------------------------
(* The books.  Each step keeps what is polled equal to what is accounted   *)
(* for, and is a step of the report as it is seen from outside, or none.   *)

Balanced   == EveryPollCounted => EveryPollCounted'
ReportStep == [Report!Next]_(Report!vars)

Handed == flush.polls - PollsOf(flush.chunks)

LEMMA BooksNat ==
  ASSUME TypeInv
  PROVE  /\ gauges \in Nat /\ repeated \in Nat /\ pollCount \in Nat /\ dropped \in Nat
         /\ flush.polls \in Nat /\ server.polls \in Nat
         /\ PollsOf(flush.chunks) \in Nat /\ PollsOf(jobs) \in Nat /\ PollsOf(limbo) \in Nat
         /\ InHand \in Nat /\ Pending \in Nat /\ Handed \in Nat
         /\ \A w \in Workers : /\ workers[w].chunk \in AnyChunk
                               /\ Polls(workers[w].chunk) \in Nat
                               /\ Polls(workers[w].chunk) <= InHand
<1>1. /\ gauges \in Nat /\ repeated \in Nat /\ pollCount \in Nat /\ dropped \in Nat
      /\ flush.polls \in Nat /\ server.polls \in Nat
      /\ flush.chunks \in Seq(Chunks) /\ jobs \in Seq(Chunks) /\ limbo \in Seq(Chunks)
      /\ \A w \in Workers : workers[w].chunk \in Chunks
      /\ PollsOf(flush.chunks) <= flush.polls
  BY DEF TypeInv, TypeOK, FlushType, WorkerType, ServerType, FlushInv
<1>2. /\ PollsOf(flush.chunks) \in Nat /\ PollsOf(jobs) \in Nat /\ PollsOf(limbo) \in Nat
      /\ \A w \in Workers : workers[w].chunk \in AnyChunk /\ Polls(workers[w].chunk) \in Nat
  BY <1>1, ChunksAreChunks, PollsNat, PollsOfNat
<1> DEFINE held == [w \in Workers |-> Polls(workers[w].chunk)]
<1>3. IsFiniteSet(Workers) /\ \A w \in Workers : held[w] \in Nat
  BY <1>2, AgentAssumption
<1>4. SumOver(Workers, held) \in Nat /\ \A w \in Workers : held[w] <= SumOver(Workers, held)
  <2> HIDE DEF held
  <2> QED
    BY <1>3, SumOverNat, SumOverBounds
<1>5. InHand = SumOver(Workers, held)
  BY DEF InHand
<1>6. InHand \in Nat /\ \A w \in Workers : Polls(workers[w].chunk) <= InHand
  BY <1>4, <1>5
<1>7. Pending \in Nat
  <2>1. PICK counted \in Nat, cut \in Nat, queued \in Nat, inHand \in Nat :
          counted = pollCount /\ cut = PollsOf(flush.chunks) /\ queued = PollsOf(jobs) /\ inHand = InHand
    BY <1>1, <1>2, <1>6, Zenon
  <2>2. Pending = counted + cut + queued + inHand
    BY <2>1, Zenon DEF Pending
  <2> QED
    BY <2>2
<1>8. Handed \in Nat
  <2>1. PICK m \in Nat, n \in Nat : m = flush.polls /\ n = PollsOf(flush.chunks)
    BY <1>1, <1>2, Zenon
  <2>2. n <= m /\ Handed = m - n
    BY <1>1, <2>1, Zenon DEF Handed
  <2> QED
    BY <2>2
<1> QED
  BY <1>1, <1>2, <1>6, <1>7, <1>8, Zenon

\* The workers hold what they held, but for one of them.
LEMMA OneWorker ==
  ASSUME TypeInv, NEW w \in Workers, workers'[w].chunk \in AnyChunk,
         \A v \in Workers : v # w => workers'[v].chunk = workers[v].chunk
  PROVE  InHand' = InHand - Polls(workers[w].chunk) + Polls(workers'[w].chunk)
<1> DEFINE held == [v \in Workers |-> Polls(workers[v].chunk)]
           then == [v \in Workers |-> Polls(workers'[v].chunk)]
<1>1. IsFiniteSet(Workers) /\ \A v \in Workers : held[v] \in Nat /\ then[v] \in Nat
  BY BooksNat, PollsNat, AgentAssumption
<1>2. \A v \in Workers : v # w => then[v] = held[v]
  OBVIOUS
<1>3. held[w] = Polls(workers[w].chunk) /\ then[w] = Polls(workers'[w].chunk)
  OBVIOUS
<1>4. InHand = SumOver(Workers, held) /\ InHand' = SumOver(Workers, then)
  BY DEF InHand
<1> HIDE DEF held, then
<1>5. SumOver(Workers, then) = SumOver(Workers, held) - held[w] + then[w]
  BY <1>1, <1>2, SumOverReplace
<1> QED
  BY <1>3, <1>4, <1>5

LEMMA SameWorkers ==
  ASSUME \A w \in Workers : workers'[w].chunk = workers[w].chunk
  PROVE  InHand' = InHand
BY DEF InHand

\* Nothing moves.
LEMMA QuietStep ==
  ASSUME UNCHANGED <<gauges, repeated, pollCount, jobs, limbo, server, dropped>>,
         flush'.chunks = flush.chunks, flush'.polls = flush.polls,
         \A w \in Workers : workers'[w].chunk = workers[w].chunk,
         (main' = "stopped") = (main = "stopped")
  PROVE  Balanced /\ ReportStep
<1>1. InHand' = InHand
  BY SameWorkers
<1>2. Pending' = Pending /\ Accounted' = Accounted
  BY <1>1 DEF Pending, Accounted
<1>3. PollsOf(limbo)' = PollsOf(limbo) /\ Handed' = Handed
  BY DEF Handed
<1> QED
  BY <1>2, <1>3 DEF Balanced, EveryPollCounted, ReportStep, Report!vars, Handed

\* The runtime is polled.
LEMMA PollRuntimeBooks ==
  ASSUME TypeInv, ShutdownInv, PollRuntime
  PROVE  Balanced /\ ReportStep
<1>1. /\ gauges' = gauges + 1 /\ pollCount' = pollCount + 1
      /\ UNCHANGED <<main, flush, jobs, workers, limbo, server, dropped, repeated>>
      /\ main # "stopped"
  BY DEF PollRuntime, netVars, ShutdownInv, LoopsDone, TypeInv, TypeOK
<1>2. Pending' = Pending + 1 /\ Accounted' = Accounted + 1
  <2>1. InHand' = InHand
    BY <1>1, SameWorkers
  <2> QED
    BY <1>1, <2>1, BooksNat DEF Pending, Accounted
<1>3. Accounted \in Nat
  BY BooksNat DEF Accounted
<1>4. Report!Poll
  BY <1>1, <1>2 DEF Report!Poll
<1> QED
  BY <1>1, <1>2, <1>3, <1>4, BooksNat DEF Balanced, EveryPollCounted, ReportStep, Report!Next

\* A batch is taken from the runner.
LEMMA TakeBatchBooks ==
  ASSUME TypeInv, ~flush.active, TakeBatch, main \in {"waiting", "flush"},
         main' \in {"waiting", "flush"},
         UNCHANGED <<gauges, jobs, workers, limbo, server, dropped, repeated>>
  PROVE  Balanced /\ ReportStep
<1>1. PollsOf(flush'.chunks) = pollCount /\ flush'.polls = pollCount /\ pollCount' = 0
  BY CutBatch DEF TakeBatch, TypeInv
<1>2. PollsOf(flush.chunks) = 0 /\ flush.polls = 0
  BY PollsEmpty DEF TypeInv, FlushInv, NoFlush
<1>3. InHand' = InHand
  BY SameWorkers
<1>4. Pending' = Pending /\ Accounted' = Accounted
  BY <1>1, <1>2, <1>3, BooksNat DEF Pending, Accounted
<1>5. flush'.polls - PollsOf(flush'.chunks) = flush.polls - PollsOf(flush.chunks)
  BY <1>1, <1>2, BooksNat
<1> QED
  BY <1>4, <1>5 DEF Balanced, EveryPollCounted, ReportStep, Report!vars

\* A chunk is handed over to the pool.
LEMMA SubmitSendsBooks ==
  ASSUME TypeInv, ShutdownInv, SubmitSends
  PROVE  Balanced /\ ReportStep
<1> DEFINE n == Polls(Head(flush.chunks))
<1>1. /\ flush.chunks \in Seq(AnyChunk) /\ flush.chunks # <<>> /\ jobs \in Seq(AnyChunk)
      /\ Head(flush.chunks) \in AnyChunk /\ Tail(flush.chunks) \in Seq(AnyChunk)
  <2>1. flush.chunks \in Seq(Chunks) /\ flush.chunks # <<>> /\ jobs \in Seq(Chunks)
    BY DEF SubmitSends, TypeInv, TypeOK, FlushType, FlushInv
  <2> QED
    BY <2>1, ChunksAreChunks
<1>2. /\ flush'.chunks = Tail(flush.chunks) /\ flush'.polls = flush.polls
      /\ jobs' = Append(jobs, Head(flush.chunks))
      /\ UNCHANGED <<main, gauges, pollCount, workers, limbo, server, dropped, repeated>>
  BY DEF SubmitSends, netVars, TypeInv, TypeOK, FlushType
<1>3. main # "stopped"
  BY DEF SubmitSends, ShutdownInv, LoopsDone, TypeInv, TypeOK
<1>4. /\ PollsOf(flush.chunks) = n + PollsOf(flush'.chunks) /\ PollsOf(jobs') = PollsOf(jobs) + n
      /\ n \in Nat /\ PollsOf(flush'.chunks) \in Nat
  BY <1>1, <1>2, PollsOfAppend, PollsOfTail, PollsNat, PollsOfNat
<1> HIDE DEF n
<1>5. InHand' = InHand
  BY <1>2, SameWorkers
<1>6. Pending' = Pending /\ Accounted' = Accounted
  <2>1. /\ Pending' = pollCount + PollsOf(flush'.chunks) + (PollsOf(jobs) + n) + InHand
        /\ Pending = pollCount + (n + PollsOf(flush'.chunks)) + PollsOf(jobs) + InHand
    BY <1>2, <1>4, <1>5 DEF Pending
  <2>2. Pending' = Pending
    BY <1>4, <2>1, BooksNat
  <2> QED
    BY <1>2, <2>2 DEF Accounted
<1>7. (flush.polls - PollsOf(flush.chunks))' = flush.polls - PollsOf(flush.chunks) + n
  BY <1>2, <1>4, BooksNat
<1>8. n <= Pending
  BY <1>4, BooksNat DEF Pending
<1>9. CASE n = 0
  BY <1>2, <1>6, <1>7, <1>9, BooksNat DEF Balanced, EveryPollCounted, ReportStep, Report!vars
<1>10. CASE n # 0
  <2>1. n \in 1 .. Pending
    BY <1>4, <1>8, <1>10, BooksNat
  <2>2. Report!HandOver(n)
    BY <1>2, <1>3, <1>6, <1>7 DEF Report!HandOver
  <2> QED
    BY <1>2, <1>6, <2>1, <2>2 DEF Balanced, EveryPollCounted, ReportStep, Report!Next
<1> QED
  BY <1>9, <1>10

\* The flush is interrupted, or done.
LEMMA SubmitFailsBooks ==
  ASSUME TypeInv, ShutdownInv, SubmitFails
  PROVE  Balanced /\ ReportStep
<1>1. /\ pollCount' = pollCount + flush.polls
      /\ repeated' = repeated + flush.polls - PollsOf(flush.chunks)
      /\ flush'.chunks = <<>> /\ flush'.polls = 0
      /\ UNCHANGED <<gauges, jobs, workers, limbo, server, dropped>>
      /\ main \in {"waiting", "flush"} /\ main' \in {"waiting", "flush", "stop"}
  BY DEF SubmitFails, FlushReturns, Returned, NoFlush, ShutdownInv, LoopsDone, TypeInv, TypeOK
<1>2. PollsOf(flush'.chunks) = 0
  BY <1>1, PollsEmpty
<1>3. InHand' = InHand
  BY <1>1, SameWorkers
<1>4. /\ Pending' = Pending + (flush.polls - PollsOf(flush.chunks))
      /\ Accounted' = Accounted + (flush.polls - PollsOf(flush.chunks))
  <2>1. /\ Pending' = (pollCount + flush.polls) + 0 + PollsOf(jobs) + InHand
        /\ Pending = pollCount + PollsOf(flush.chunks) + PollsOf(jobs) + InHand
    BY <1>1, <1>2, <1>3 DEF Pending
  <2>2. Pending' = Pending + (flush.polls - PollsOf(flush.chunks))
    BY <2>1, BooksNat
  <2>3. Accounted' = Pending' + server.polls + dropped
    BY <1>1 DEF Accounted
  <2> QED
    BY <2>2, <2>3, BooksNat DEF Accounted
<1>5. (flush.polls - PollsOf(flush.chunks))' = 0
  BY <1>1, <1>2
<1>6. Report!GiveBack
  BY <1>1, <1>4, <1>5 DEF Report!GiveBack
<1>7. Balanced
  <2>1. Accounted \in Nat
    BY BooksNat DEF Accounted
  <2>2. /\ repeated' = repeated + flush.polls - PollsOf(flush.chunks) /\ gauges' = gauges
        /\ Accounted' = Accounted + (flush.polls - PollsOf(flush.chunks))
    BY <1>1, <1>4
  <2>3. /\ gauges \in Int /\ repeated \in Int /\ flush.polls \in Int
        /\ PollsOf(flush.chunks) \in Int /\ Accounted \in Int
    BY <2>1, BooksNat
  <2> QED
    BY <2>2, <2>3 DEF Balanced, EveryPollCounted
<1> QED
  BY <1>6, <1>7 DEF ReportStep, Report!Next

LEMMA FlushDoneBooks ==
  ASSUME TypeInv, ShutdownInv, FlushDone
  PROVE  Balanced /\ ReportStep
<1>1. /\ flush.chunks = <<>> /\ flush'.chunks = <<>> /\ flush'.polls = 0
      /\ UNCHANGED <<gauges, repeated, pollCount, jobs, workers, limbo, server, dropped>>
      /\ main \in {"waiting", "flush"} /\ main' \in {"waiting", "flush", "stop"}
  BY DEF FlushDone, FlushReturns, NoFlush, netVars, ShutdownInv, LoopsDone, TypeInv, TypeOK
<1>2. PollsOf(flush.chunks) = 0 /\ PollsOf(flush'.chunks) = 0
  BY <1>1, PollsEmpty
<1>3. InHand' = InHand
  BY <1>1, SameWorkers
<1>4. Pending' = Pending /\ Accounted' = Accounted
  BY <1>1, <1>2, <1>3 DEF Pending, Accounted
<1>5. (flush.polls - PollsOf(flush.chunks))' = 0
  BY <1>1, <1>2
<1>6. Report!Submitted
  BY <1>1, <1>4, <1>5 DEF Report!Submitted
<1> QED
  BY <1>1, <1>4, <1>6 DEF Balanced, EveryPollCounted, ReportStep, Report!Next

\* Stop returns: the books are those of a report that is over.
LEMMA PoolStoppedBooks ==
  ASSUME TypeInv, ShutdownInv, PoolStopped
  PROVE  Balanced /\ ReportStep
<1>1. /\ main = "join" /\ main' = "stopped"
      /\ UNCHANGED <<gauges, pollCount, flush, jobs, workers, limbo, server, dropped, repeated>>
  BY DEF PoolStopped, netVars
<1>2. flush.polls - PollsOf(flush.chunks) = 0
  <2>1. ~flush.active
    BY <1>1 DEF ShutdownInv, LoopsDone, TypeInv, TypeOK
  <2> QED
    BY <2>1, PollsEmpty DEF TypeInv, FlushInv, NoFlush
<1>3. InHand' = InHand
  BY <1>1, SameWorkers
<1>4. Pending' = Pending /\ Accounted' = Accounted
  BY <1>1, <1>3 DEF Pending, Accounted
<1>5. Report!Stop
  BY <1>1, <1>2, <1>4 DEF Report!Stop
<1> QED
  BY <1>1, <1>4, <1>5 DEF Balanced, EveryPollCounted, ReportStep, Report!Next

\* A worker takes a chunk from the queue.
LEMMA ReceiveBooks ==
  ASSUME TypeInv, NEW w \in Workers, Receive(w)
  PROVE  Balanced /\ ReportStep
<1> DEFINE n == Polls(Head(jobs))
<1>1. /\ jobs \in Seq(AnyChunk) /\ jobs # <<>> /\ Head(jobs) \in AnyChunk
      /\ Tail(jobs) \in Seq(AnyChunk)
  <2>1. jobs \in Seq(Chunks) /\ jobs # <<>>
    BY DEF Receive, TypeInv, TypeOK
  <2> QED
    BY <2>1, ChunksAreChunks
<1>2. /\ jobs' = Tail(jobs)
      /\ UNCHANGED <<main, gauges, pollCount, flush, limbo, server, dropped, repeated>>
  BY DEF Receive, runnerVars, netVars
<1>3. PollsOf(jobs) = n + PollsOf(jobs') /\ n \in Nat /\ PollsOf(jobs') \in Nat
  BY <1>1, <1>2, PollsOfTail, PollsNat, PollsOfNat
<1>4. InHand' = InHand + n
  <2>1. /\ workers'[w].chunk = Head(jobs)
        /\ \A v \in Workers : v # w => workers'[v].chunk = workers[v].chunk
    BY DEF Receive, TypeInv, TypeOK
  <2>2. Polls(workers[w].chunk) = 0
    BY PollsEmpty DEF Receive, TypeInv, WorkerInv
  <2>3. InHand' = InHand - Polls(workers[w].chunk) + Polls(workers'[w].chunk)
    BY <1>1, <2>1, OneWorker
  <2>4. InHand' = InHand - 0 + n /\ InHand \in Int
    BY <2>1, <2>2, <2>3, BooksNat
  <2> QED
    BY <1>3, <2>4
<1> HIDE DEF n
<1>5. Pending' = Pending /\ Accounted' = Accounted
  <2>1. /\ Pending' = pollCount + PollsOf(flush.chunks) + PollsOf(jobs') + (InHand + n)
        /\ Pending = pollCount + PollsOf(flush.chunks) + (n + PollsOf(jobs')) + InHand
    BY <1>2, <1>3, <1>4 DEF Pending
  <2>2. Pending' = Pending
    BY <1>3, <2>1, BooksNat
  <2> QED
    BY <1>2, <2>2 DEF Accounted
<1> QED
  BY <1>2, <1>5 DEF Balanced, EveryPollCounted, ReportStep, Report!vars

\* A worker is done with its chunk.
LEMMA WorkerDone ==
  ASSUME TypeInv, NEW w \in Workers, workers' = [workers EXCEPT ![w] = IdleWorker],
         UNCHANGED <<pollCount, flush, jobs>>
  PROVE  Pending' = Pending - Polls(workers[w].chunk)
<1>1. /\ workers'[w].chunk = <<>> /\ <<>> \in AnyChunk
      /\ \A v \in Workers : v # w => workers'[v].chunk = workers[v].chunk
  BY DEF IdleWorker, TypeInv, TypeOK, AnyChunk
<1>2. InHand' = InHand - Polls(workers[w].chunk)
  BY <1>1, OneWorker, PollsEmpty, BooksNat
<1>3. /\ Pending' = pollCount + PollsOf(flush.chunks) + PollsOf(jobs) + InHand'
      /\ Pending = pollCount + PollsOf(flush.chunks) + PollsOf(jobs) + InHand
  BY DEF Pending
<1> QED
  BY <1>2, <1>3, BooksNat

LEMMA HeldIsPending ==
  ASSUME TypeInv, NEW w \in Workers
  PROVE  Polls(workers[w].chunk) <= Pending
<1>1. Pending = pollCount + PollsOf(flush.chunks) + PollsOf(jobs) + InHand
  BY DEF Pending
<1> QED
  BY <1>1, BooksNat

LEMMA SendSucceedsBooks ==
  ASSUME TypeInv, ShutdownInv, NEW w \in Workers, SendSucceeds(w)
  PROVE  Balanced /\ ReportStep
<1> DEFINE n == Polls(workers[w].chunk)
<1>1. /\ main # "stopped"
      /\ workers' = [workers EXCEPT ![w] = IdleWorker]
      /\ UNCHANGED <<main, gauges, pollCount, flush, jobs, limbo, dropped, repeated>>
  BY DEF SendSucceeds, runnerVars, ShutdownInv, WorkersDone
<1>2. server'.polls = server.polls + n
  BY AppliedType DEF SendSucceeds, TypeInv, TypeOK, WorkerType
<1>3. n \in Nat /\ n <= Pending /\ Pending' = Pending - n
  BY <1>1, WorkerDone, HeldIsPending, BooksNat
<1> HIDE DEF n
<1>4. Balanced
  <2>1. /\ Accounted' = (Pending - n) + (server.polls + n) + dropped
        /\ Accounted = Pending + server.polls + dropped
    BY <1>1, <1>2, <1>3 DEF Accounted
  <2>2. Accounted' = Accounted
    BY <1>3, <2>1, BooksNat
  <2> QED
    BY <1>1, <2>2 DEF Balanced, EveryPollCounted
<1>5. CASE n = 0
  BY <1>1, <1>2, <1>3, <1>4, <1>5, BooksNat DEF ReportStep, Report!vars
<1>6. CASE n # 0
  <2>1. n \in 1 .. Pending
    BY <1>3, <1>6, BooksNat
  <2>2. Report!Deliver(n)
    BY <1>1, <1>2, <1>3 DEF Report!Deliver
  <2> QED
    BY <1>4, <2>1, <2>2 DEF ReportStep, Report!Next
<1> QED
  BY <1>5, <1>6

\* A failed request may be on its way.
LEMMA MayArriveLateBooks ==
  ASSUME TypeInv, NEW chunk \in AnyChunk, MayArriveLate(chunk)
  PROVE  PollsOf(limbo') \in {PollsOf(limbo), PollsOf(limbo) + Polls(chunk)}
<1>1. limbo \in Seq(AnyChunk)
  BY ChunksAreChunks DEF TypeInv, TypeOK
<1> QED
  BY <1>1, PollsOfAppend DEF MayArriveLate

\* A request has failed: for good, or until the next attempt.
LEMMA FailBooks ==
  ASSUME TypeInv, NEW n \in Nat, n <= Pending, main # "stopped",
         PollsOf(limbo') \in {PollsOf(limbo), PollsOf(limbo) + n},
         \/ Pending' = Pending - n /\ dropped' = dropped + n
         \/ Pending' = Pending /\ dropped' = dropped,
         UNCHANGED <<main, gauges, flush, server, repeated>>
  PROVE  Balanced /\ ReportStep
<1>1. Balanced
  <2>1. /\ Accounted' = Pending' + server.polls + dropped'
        /\ Accounted = Pending + server.polls + dropped
    BY DEF Accounted
  <2>2. Accounted' = Accounted
    BY <2>1, BooksNat
  <2> QED
    BY <2>2 DEF Balanced, EveryPollCounted
<1>2. CASE n = 0
  BY <1>1, <1>2, BooksNat DEF ReportStep, Report!vars
<1>3. CASE n # 0
  <2>1. n \in 1 .. Pending
    BY <1>3, BooksNat
  <2>2. Report!Fail(n)
    BY DEF Report!Fail
  <2> QED
    BY <1>1, <2>1, <2>2 DEF ReportStep, Report!Next
<1> QED
  BY <1>2, <1>3

LEMMA SendEndsBooks ==
  ASSUME TypeInv, ShutdownInv, NEW w \in Workers,
         SendRefused(w) \/ SendFails(w) \/ SendTimesOut(w)
  PROVE  Balanced /\ ReportStep
<1> DEFINE n == Polls(workers[w].chunk)
<1>1. /\ workers[w].pc # "exited" /\ main # "stopped"
      /\ UNCHANGED <<main, gauges, pollCount, flush, jobs, server, repeated>>
  BY DEF SendRefused, SendFails, SendTimesOut, runnerVars, ShutdownInv, WorkersDone
<1>2. n \in Nat /\ n <= Pending /\ workers[w].chunk \in AnyChunk
  BY HeldIsPending, BooksNat
<1>3. PollsOf(limbo') \in {PollsOf(limbo), PollsOf(limbo) + n}
  <2>1. MayArriveLate(workers[w].chunk)
    BY DEF SendRefused, SendFails, SendTimesOut, MayArriveLate
  <2> QED
    BY <1>2, <2>1, MayArriveLateBooks
<1>4. \/ Pending' = Pending - n /\ dropped' = dropped + n
      \/ Pending' = Pending /\ dropped' = dropped
  <2>1. CASE GiveUp(w)
    BY <1>1, <2>1, WorkerDone DEF GiveUp
  <2>2. CASE workers' = [workers EXCEPT ![w].pc = "backoff"] /\ dropped' = dropped
    <3>1. \A v \in Workers : workers'[v].chunk = workers[v].chunk
      BY <2>2 DEF TypeInv, TypeOK, WorkerType
    <3>2. InHand' = InHand
      BY <3>1, SameWorkers
    <3> QED
      BY <1>1, <2>2, <3>2 DEF Pending
  <2> QED
    BY <2>1, <2>2 DEF SendRefused, SendFails, SendTimesOut
<1> HIDE DEF n
<1> QED
  BY <1>1, <1>2, <1>3, <1>4, FailBooks

\* A request that was given up arrives.
LEMMA ArrivesLateBooks ==
  ASSUME TypeInv, ArrivesLate
  PROVE  Balanced /\ ReportStep
<1>1. PICK k \in 1 .. Len(limbo) : /\ server' = Applied(server, limbo[k])
                                   /\ limbo' = RemoveAt(limbo, k)
                                   /\ repeated' = repeated + Polls(limbo[k])
  BY DEF ArrivesLate
<1> DEFINE n == Polls(limbo[k])
<1>2. UNCHANGED <<main, gauges, pollCount, flush, jobs, workers, dropped>>
  BY DEF ArrivesLate, runnerVars
<1>3. limbo \in Seq(Chunks) /\ limbo \in Seq(AnyChunk) /\ limbo[k] \in Chunks
  BY ChunksAreChunks DEF TypeInv, TypeOK
<1>4. n \in Nat
  BY <1>3, PollsNat, ChunksAreChunks
<1>5. PollsOf(limbo) = PollsOf(limbo') + n /\ PollsOf(limbo') \in Nat
  <2>1. RemoveAt(limbo, k) \in Seq(AnyChunk)
    BY <1>3, RemoveAtType
  <2> QED
    BY <1>1, <1>3, <2>1, PollsOfRemoveAt, PollsOfNat
<1>6. server'.polls = server.polls + n /\ repeated' = repeated + n
  BY <1>1, <1>3, AppliedType DEF TypeInv
<1> HIDE DEF n
<1>7. Pending' = Pending
  <2>1. InHand' = InHand
    BY <1>2, SameWorkers
  <2> QED
    BY <1>2, <2>1 DEF Pending
<1>8. Balanced
  <2>1. /\ Accounted' = Pending + (server.polls + n) + dropped
        /\ Accounted = Pending + server.polls + dropped
    BY <1>2, <1>6, <1>7 DEF Accounted
  <2>2. Pending \in Nat /\ server.polls \in Nat /\ dropped \in Nat
    BY BooksNat
  <2>3. Accounted' = Accounted + n /\ Accounted \in Nat
    <3>1. PICK pending \in Nat, received \in Nat, lost \in Nat :
            pending = Pending /\ received = server.polls /\ lost = dropped
      BY <2>2, Zenon
    <3>2. Accounted' = pending + (received + n) + lost /\ Accounted = pending + received + lost
      BY <2>1, <3>1, Zenon
    <3> QED
      BY <1>4, <3>2
  <2>4. gauges' + repeated' = (gauges + repeated) + n
    <3>1. gauges' = gauges /\ repeated' = repeated + n /\ gauges \in Nat /\ repeated \in Nat
      BY <1>2, <1>6, BooksNat
    <3> QED
      BY <1>4, <3>1
  <2> QED
    BY <2>3, <2>4 DEF Balanced, EveryPollCounted
<1>9. CASE n = 0
  BY <1>2, <1>5, <1>6, <1>7, <1>8, <1>9, BooksNat DEF ReportStep, Report!vars
<1>10. CASE n # 0
  <2>1. n \in 1 .. PollsOf(limbo) /\ PollsOf(limbo') = PollsOf(limbo) - n
    BY <1>4, <1>5, <1>10
  <2>2. Report!Arrive(n)
    BY <1>2, <1>6, <1>7, <2>1 DEF Report!Arrive
  <2> QED
    BY <1>8, <2>1, <2>2 DEF ReportStep, Report!Next
<1> QED
  BY <1>9, <1>10

LEMMA NextBooks == TypeInv /\ ShutdownInv /\ [Next]_vars => Balanced /\ ReportStep
<1> SUFFICES ASSUME TypeInv, ShutdownInv, [Next]_vars PROVE Balanced /\ ReportStep
  OBVIOUS
<1>1. CASE Cancel \/ PollSystem \/ \E l \in DOMAIN loops : LoopStops(l)
  BY <1>1, QuietStep DEF Cancel, PollSystem, LoopStops, runnerVars, netVars
<1>2. CASE PollRuntime
  BY <1>2, PollRuntimeBooks
<1>3. CASE ReportTick \/ FinalFlush
  <2>1. ~flush.active /\ main \in {"waiting", "flush"} /\ main' \in {"waiting", "flush"}
    BY <1>3 DEF ReportTick, FinalFlush, ShutdownInv, LoopsDone, TypeInv, TypeOK
  <2>2. TakeBatch /\ UNCHANGED <<gauges, jobs, workers, limbo, server, dropped, repeated>>
    BY <1>3 DEF ReportTick, FinalFlush, netVars
  <2> QED
    BY <2>1, <2>2, TakeBatchBooks
<1>4. CASE FlushExpires \/ SubmitChecks
  <2>1. /\ flush'.chunks = flush.chunks /\ flush'.polls = flush.polls
        /\ UNCHANGED <<main, gauges, repeated, pollCount, jobs, workers, limbo, server, dropped>>
    BY <1>4 DEF FlushExpires, SubmitChecks, netVars, TypeInv, TypeOK, FlushType
  <2> QED
    BY <2>1, QuietStep
<1>5. CASE SubmitSends
  BY <1>5, SubmitSendsBooks
<1>6. CASE SubmitFails
  BY <1>6, SubmitFailsBooks
<1>7. CASE FlushDone
  BY <1>7, FlushDoneBooks
<1>8. CASE PoolStop
  BY <1>8, QuietStep DEF PoolStop, netVars
<1>9. CASE PoolStopped
  BY <1>9, PoolStoppedBooks
<1>10. ASSUME NEW w \in Workers, Receive(w) PROVE Balanced /\ ReportStep
  BY <1>10, ReceiveBooks
<1>11. ASSUME NEW w \in Workers, WorkerExits(w) \/ Retry(w) PROVE Balanced /\ ReportStep
  <2>1. \A v \in Workers : workers'[v].chunk = workers[v].chunk
    <3>1. workers \in [Workers -> WorkerType]
      BY DEF TypeInv, TypeOK
    <3>2. CASE WorkerExits(w)
      BY <3>1, <3>2 DEF WorkerExits, WorkerType
    <3>3. CASE Retry(w)
      <4>1. workers'[w].chunk = workers[w].chunk
        BY <3>1, <3>3 DEF Retry, WorkerType
      <4> QED
        BY <3>1, <3>3, <4>1 DEF Retry
    <3> QED
      BY <1>11, <3>2, <3>3
  <2>2. /\ flush' = flush
        /\ UNCHANGED <<main, gauges, repeated, pollCount, jobs, limbo, server, dropped>>
    BY <1>11 DEF WorkerExits, Retry, runnerVars, netVars
  <2> QED
    BY <2>1, <2>2, QuietStep
<1>12. ASSUME NEW w \in Workers, SendSucceeds(w) PROVE Balanced /\ ReportStep
  BY <1>12, SendSucceedsBooks
<1>13. ASSUME NEW w \in Workers, SendRefused(w) \/ SendFails(w) \/ SendTimesOut(w)
       PROVE  Balanced /\ ReportStep
  BY <1>13, SendEndsBooks
<1>14. CASE ArrivesLate
  BY <1>14, ArrivesLateBooks
<1>15. CASE UNCHANGED vars
  BY <1>15, QuietStep DEF vars, runnerVars, netVars
<1> QED
  BY <1>1, <1>2, <1>3, <1>4, <1>5, <1>6, <1>7, <1>8, <1>9, <1>10, <1>11, <1>12, <1>13, <1>14,
     <1>15 DEF Next, Send, Terminated

LEMMA InitBooks == Init => EveryPollCounted /\ Report!Init
<1> SUFFICES ASSUME Init PROVE EveryPollCounted /\ Report!Init
  OBVIOUS
<1>1. /\ gauges = 0 /\ repeated = 0 /\ pollCount = 0 /\ server.polls = 0 /\ dropped = 0
      /\ flush.chunks = <<>> /\ flush.polls = 0 /\ jobs = <<>> /\ limbo = <<>>
      /\ main # "stopped"
  BY DEF Init, NoFlush
<1>2. InHand = 0
  <2> DEFINE held == [w \in Workers |-> Polls(workers[w].chunk)]
  <2>1. IsFiniteSet(Workers) /\ \A w \in Workers : held[w] = 0
    BY PollsEmpty, AgentAssumption DEF Init, IdleWorker
  <2> HIDE DEF held
  <2>2. SumOver(Workers, held) = 0
    BY <2>1, SumOverZero
  <2> QED
    BY <2>2 DEF InHand, held
<1>3. Pending = 0 /\ Accounted = 0
  BY <1>1, <1>2, PollsEmpty DEF Pending, Accounted
<1> QED
  BY <1>1, <1>3, PollsEmpty DEF EveryPollCounted, Report!Init

LEMMA NextEveryPollCounted ==
  TypeInv /\ ShutdownInv /\ EveryPollCounted /\ [Next]_vars => EveryPollCounted'
BY NextBooks DEF Balanced

-----------------------------------------------------------------------------
(* What follows *)

\* Every poll of the runtime is accounted for: it is in the runner, in what a
\* flush has yet to submit, in the queue, with a worker, on the server, or
\* logged as given up, and twice only where a request or a flush was taken for
\* failed that was not.
THEOREM EveryPollCountedHolds == Spec => []EveryPollCounted
BY InitType, NextType, InitShutdown, NextShutdown, InitBooks, NextEveryPollCounted, PTL
DEF Spec

\* When Run has returned there is nothing in a flush, in the queue or with a
\* worker.
THEOREM ShutdownDeliversEverythingHolds == Spec => []ShutdownDeliversEverything
<1>1. TypeInv /\ ShutdownInv /\ EveryPollCounted => ShutdownDeliversEverything
  <2> SUFFICES ASSUME TypeInv, ShutdownInv, EveryPollCounted, main = "stopped"
               PROVE  server.polls + dropped + pollCount = gauges + repeated
    BY DEF ShutdownDeliversEverything
  <2>1. PollsOf(flush.chunks) = 0
    <3>1. ~flush.active
      BY DEF ShutdownInv, LoopsDone, TypeInv, TypeOK
    <3> QED
      BY <3>1, PollsEmpty DEF TypeInv, FlushInv, NoFlush
  <2>2. PollsOf(jobs) = 0
    <3>1. PICK w \in Workers : TRUE
      BY AgentAssumption
    <3>2. jobs = <<>>
      BY <3>1 DEF ShutdownInv, WorkersDone
    <3> QED
      BY <3>2, PollsEmpty
  <2>3. InHand = 0
    <3> DEFINE held == [w \in Workers |-> Polls(workers[w].chunk)]
    <3>1. IsFiniteSet(Workers) /\ \A w \in Workers : held[w] = 0
      BY PollsEmpty, AgentAssumption DEF ShutdownInv, WorkersDone, TypeInv, WorkerInv
    <3> HIDE DEF held
    <3>2. SumOver(Workers, held) = 0
      BY <3>1, SumOverZero
    <3> QED
      BY <3>2 DEF InHand, held
  <2>4. Pending = pollCount + 0 + 0 + 0 /\ Accounted = Pending + server.polls + dropped
    BY <2>1, <2>2, <2>3 DEF Pending, Accounted
  <2>5. pollCount \in Nat /\ server.polls \in Nat /\ dropped \in Nat
    BY BooksNat
  <2>6. gauges + repeated = Accounted
    BY DEF EveryPollCounted
  <2> QED
    BY <2>4, <2>5, <2>6
<1> QED
  BY <1>1, InitType, NextType, InitShutdown, NextShutdown, InitBooks, NextEveryPollCounted, PTL
  DEF Spec

\* The loops, the queue and the workers implement the report: pollers and
\* flushes move what is pending, a worker delivers it or fails, a late request
\* arrives, an interrupted flush gives back, and Run stops it.
THEOREM ReportImplemented == Spec => ImplementsReport
<1>1. Init => Report!Init
  BY InitBooks
<1>2. TypeInv /\ ShutdownInv /\ [Next]_vars => [Report!Next]_(Report!vars)
  BY NextBooks DEF ReportStep
<1> QED
  BY <1>1, <1>2, InitType, NextType, InitShutdown, NextShutdown, PTL
  DEF Spec, ImplementsReport, Report!Spec

-----------------------------------------------------------------------------
(* The end of a shutdown.  Nobody waits for ever: while Run has not         *)
(* returned, one of the loops, the flush, the pool or a worker can go on;   *)
(* and once Run flushes for the last time, every step of anybody brings     *)
(* the end closer.                                                          *)

WorkerGoes(w) ==
  \/ workers[w].pc \in {"send", "backoff"}
  \/ workers[w].pc = "idle" /\ (jobs # <<>> \/ QueueOver)

LoopGoes(l) ==
  \/ loops[l] = "loop"
  \/ l # "report" /\ loops[l] = "first"

FlushGoes ==
  /\ flush.active
  /\ \/ flush.chunks = <<>> \/ flush.expired
     \/ ~flush.checked
     \/ Len(jobs) < RateLimit

MainGoes ==
  \/ main = "waiting" /\ LoopsDone
  \/ main = "stop"
  \/ main = "join" /\ WorkersDone

\* A loop that has seen the signal, the flush, Run or a worker has its next
\* step before it; none of them is one of the failures.
ShutdownGoesOn ==
  cancelled /\ main # "stopped" =>
    \/ MainGoes \/ FlushGoes
    \/ \E l \in DOMAIN loops : LoopGoes(l)
    \/ \E w \in Workers : WorkerGoes(w)

\* A loop is done when the context is, and whoever is in a flush has one.
PlaceInv ==
  /\ \A l \in DOMAIN loops : loops[l] = "done" => cancelled
  /\ loops.runtime # "flush" /\ loops.system # "flush" /\ loops.report # "first"
  /\ main = "flush" \/ loops.report = "flush" => flush.active

LEMMA InitPlace == Init => PlaceInv
BY DEF Init, PlaceInv

LEMMA NextPlace == TypeInv /\ ShutdownInv /\ PlaceInv /\ [Next]_vars => PlaceInv'
<1> SUFFICES ASSUME TypeInv, ShutdownInv, PlaceInv, [Next]_vars PROVE PlaceInv'
  OBVIOUS
<1>0. /\ DOMAIN loops = {"runtime", "system", "report"}
      /\ loops \in [{"runtime", "system", "report"} -> {"first", "loop", "flush", "done"}]
  BY DEF TypeInv, TypeOK
<1>1. CASE Cancel
  BY <1>0, <1>1 DEF Cancel, runnerVars, PlaceInv
<1>2. CASE PollRuntime \/ PollSystem
  <2>1. PICK l \in {"runtime", "system"} : loops' = [loops EXCEPT ![l] = "loop"]
    BY <1>2 DEF PollRuntime, PollSystem
  <2>2. UNCHANGED <<cancelled, main, flush>>
    BY <1>2 DEF PollRuntime, PollSystem
  <2> QED
    BY <1>0, <2>1, <2>2 DEF PlaceInv
<1>3. ASSUME NEW l \in DOMAIN loops, LoopStops(l) PROVE PlaceInv'
  BY <1>0, <1>3 DEF LoopStops, SeesCancel, PlaceInv
<1>4. CASE ReportTick
  BY <1>0, <1>4 DEF ReportTick, TakeBatch, PlaceInv
<1>5. CASE FinalFlush
  BY <1>0, <1>5 DEF FinalFlush, TakeBatch, PlaceInv
<1>6. CASE FlushExpires \/ SubmitChecks \/ SubmitSends
  <2>1. flush \in FlushType
    BY DEF TypeInv, TypeOK
  <2>2. flush'.active = flush.active /\ UNCHANGED <<cancelled, loops, main>>
    BY <1>6, <2>1 DEF FlushExpires, SubmitChecks, SubmitSends, FlushType
  <2> QED
    BY <1>0, <2>2 DEF PlaceInv
<1>7. CASE SubmitFails \/ FlushDone
  <2>1. FlushReturns /\ flush.active /\ UNCHANGED cancelled
    BY <1>7 DEF SubmitFails, FlushDone
  <2>2. CASE main = "flush"
    BY <1>0, <2>1, <2>2 DEF FlushReturns, PlaceInv, ShutdownInv, LoopsDone
  <2>3. CASE main # "flush"
    BY <1>0, <2>1, <2>3 DEF FlushReturns, PlaceInv
  <2> QED
    BY <2>2, <2>3
<1>8. CASE PoolStop \/ PoolStopped
  BY <1>0, <1>8 DEF PoolStop, PoolStopped, PlaceInv
<1>9. ASSUME NEW w \in Workers, Receive(w) \/ WorkerExits(w) \/ Send(w) PROVE PlaceInv'
  <2>1. UNCHANGED <<cancelled, runnerVars>>
    BY <1>9 DEF Receive, WorkerExits, Send, SendSucceeds, SendRefused, SendFails, Retry,
                SendTimesOut
  <2> QED
    BY <2>1 DEF PlaceInv, runnerVars
<1>10. CASE ArrivesLate
  BY <1>10 DEF ArrivesLate, PlaceInv, runnerVars
<1>11. CASE UNCHANGED vars
  BY <1>11 DEF vars, PlaceInv, runnerVars
<1> QED
  BY <1>1, <1>2, <1>3, <1>4, <1>5, <1>6, <1>7, <1>8, <1>9, <1>10, <1>11 DEF Next, Terminated

\* A worker that has not left can go on when there is work, or none to come.
LEMMA WorkersGo ==
  ASSUME TypeInv, NEW w \in Workers, workers[w].pc # "exited", jobs # <<>> \/ closed
  PROVE  WorkerGoes(w)
<1>1. workers[w].pc \in {"idle", "send", "backoff", "exited"}
  BY DEF TypeInv, TypeOK, WorkerType
<1> QED
  BY <1>1 DEF WorkerGoes, QueueOver

\* A flush that waits for room has a worker that makes some.
LEMMA FlushHasWorker ==
  ASSUME TypeInv, ShutdownInv, flush.active, ~FlushGoes
  PROVE  \E w \in Workers : WorkerGoes(w)
<1>1. PICK w \in Workers : TRUE
  BY AgentAssumption
<1>2. RateLimit \in Nat \ {0}
  BY AgentAssumption, FS_CardinalityType, FS_EmptySet DEF RateLimit
<1>3. jobs # <<>>
  <2>1. ~(Len(jobs) < RateLimit)
    BY DEF FlushGoes
  <2> QED
    BY <1>2, <2>1
<1>4. workers[w].pc # "exited"
  BY <1>3 DEF ShutdownInv
<1> QED
  BY <1>3, <1>4, WorkersGo

LEMMA SomebodyGoes == TypeInv /\ ShutdownInv /\ PlaceInv => ShutdownGoesOn
<1> SUFFICES ASSUME TypeInv, ShutdownInv, PlaceInv, main # "stopped",
                    ~MainGoes, ~FlushGoes, \A l \in DOMAIN loops : ~LoopGoes(l)
             PROVE  \E w \in Workers : WorkerGoes(w)
  BY DEF ShutdownGoesOn
<1>1. CASE flush.active
  BY <1>1, FlushHasWorker
<1>2. CASE ~flush.active
  <2>1. \A l \in DOMAIN loops : loops[l] = "done"
    <3>1. /\ DOMAIN loops = {"runtime", "system", "report"}
          /\ \A l \in DOMAIN loops : loops[l] \in {"first", "loop", "flush", "done"}
      BY DEF TypeInv, TypeOK
    <3> QED
      BY <1>2, <3>1 DEF PlaceInv, LoopGoes
  <2>2. main = "join" /\ ~WorkersDone
    <3>1. main \in {"waiting", "flush", "stop", "join", "stopped"}
      BY DEF TypeInv, TypeOK
    <3> QED
      BY <1>2, <2>1, <3>1 DEF PlaceInv, MainGoes, LoopsDone
  <2>3. PICK w \in Workers : workers[w].pc # "exited"
    BY <2>2 DEF WorkersDone
  <2>4. closed
    BY <2>2 DEF ShutdownInv
  <2> QED
    BY <2>3, <2>4, WorkersGo
<1> QED
  BY <1>1, <1>2

\* After the signal and until Run has returned, somebody can always take a
\* step: a full queue has a worker that empties it, Stop has workers that leave.
THEOREM ShutdownGoesOnHolds == Spec => []ShutdownGoesOn
BY SomebodyGoes, InitType, NextType, InitShutdown, NextShutdown, InitPlace, NextPlace, PTL
DEF Spec

\* What is before the agent: for a worker the attempts that are left, of three
\* steps each (the attempt, the request that may arrive late, the next one); for
\* a chunk all of them, in the queue; before that the two selects of Submit.
ChunkSteps == 3 * MaxAttempts

WorkerSteps(w) ==
  CASE workers[w].pc = "send"    -> 3 * (MaxAttempts - workers[w].attempt) + 3
    [] workers[w].pc = "backoff" -> 3 * (MaxAttempts - workers[w].attempt) + 1
    [] workers[w].pc = "idle"    -> 1
    [] OTHER                     -> 0

PoolSteps == SumOver(Workers, [w \in Workers |-> WorkerSteps(w)])

QueueSteps == Len(jobs) * ChunkSteps

SubmitSteps ==
  Len(flush.chunks) * (ChunkSteps + 2) - (IF flush.checked THEN 1 ELSE 0)

ExpirySteps == IF flush.active /\ ~flush.expired THEN 1 ELSE 0

MainSteps ==
  CASE main = "flush" -> 3
    [] main = "stop"  -> 2
    [] main = "join"  -> 1
    [] OTHER          -> 0

StepsLeft ==
  MainSteps + ExpirySteps + SubmitSteps + QueueSteps + PoolSteps + Len(limbo)

ShutdownAdvances == main # "waiting" => StepsLeft' \in Nat /\ StepsLeft' < StepsLeft

LEMMA Multiples ==
  ASSUME NEW n \in Nat, NEW k \in Nat
  PROVE  /\ n * k \in Nat /\ (n + 1) * k = n * k + k
         /\ n # 0 => (n - 1) * k = n * k - k /\ k <= n * k
<1>1. n * k \in Nat /\ (n + 1) * k = n * k + k
  OBVIOUS
<1>2. ASSUME n # 0 PROVE (n - 1) * k = n * k - k /\ k <= n * k
  <2>1. PICK m \in Nat : n = m + 1
    <3>1. n - 1 \in Nat /\ n = (n - 1) + 1
      BY <1>2
    <3> QED
      BY <3>1
  <2>2. m * k \in Nat /\ n * k = m * k + k /\ n - 1 = m
    BY <2>1
  <2> QED
    BY <2>2
<1> QED
  BY <1>1, <1>2

LEMMA WorkerStepsNat ==
  ASSUME TypeInv, NEW w \in Workers
  PROVE  WorkerSteps(w) \in Nat
<1>1. MaxAttempts - workers[w].attempt \in Nat
  BY AgentAssumption DEF TypeInv, TypeOK, WorkerType
<1> QED
  BY <1>1 DEF WorkerSteps

LEMMA StepsNat ==
  ASSUME TypeInv
  PROVE  /\ ChunkSteps \in Nat /\ MainSteps \in Nat /\ ExpirySteps \in Nat
         /\ SubmitSteps \in Nat /\ QueueSteps \in Nat /\ PoolSteps \in Nat
         /\ Len(limbo) \in Nat /\ StepsLeft \in Nat
<1>1. ChunkSteps \in Nat /\ ChunkSteps + 2 \in Nat
  BY AgentAssumption DEF ChunkSteps
<1>2. Len(jobs) \in Nat /\ Len(limbo) \in Nat /\ Len(flush.chunks) \in Nat
  BY DEF TypeInv, TypeOK, FlushType
<1>3. QueueSteps \in Nat
  BY <1>1, <1>2, Multiples DEF QueueSteps
<1>4. SubmitSteps \in Nat
  <2> DEFINE all == Len(flush.chunks) * (ChunkSteps + 2)
  <2>1. all \in Nat /\ (Len(flush.chunks) # 0 => ChunkSteps + 2 <= all)
    BY <1>1, <1>2, Multiples
  <2>2. flush.checked => Len(flush.chunks) # 0
    BY DEF TypeInv, TypeOK, FlushType, FlushInv
  <2>3. SubmitSteps = all - (IF flush.checked THEN 1 ELSE 0)
    BY DEF SubmitSteps
  <2> HIDE DEF all
  <2> QED
    BY <1>1, <2>1, <2>2, <2>3
<1>5. PoolSteps \in Nat
  BY WorkerStepsNat, SumOverNat, AgentAssumption DEF PoolSteps
<1>6. MainSteps \in Nat /\ ExpirySteps \in Nat
  BY DEF MainSteps, ExpirySteps
<1> QED
  BY <1>1, <1>2, <1>3, <1>4, <1>5, <1>6 DEF StepsLeft

WorkersHaveSteps == \A w \in Workers : WorkerSteps(w) \in Nat

AllSteps == WorkersHaveSteps /\ SubmitSteps \in Nat /\ StepsLeft \in Nat

LEMMA AllStepsNat == TypeInv => AllSteps
BY StepsNat, WorkerStepsNat DEF AllSteps, WorkersHaveSteps

LEMMA AllStepsNatThen == TypeInv' => AllSteps'
BY AllStepsNat, PTL

LEMMA StepsNatThen ==
  ASSUME TypeInv'
  PROVE  WorkersHaveSteps' /\ SubmitSteps' \in Nat /\ StepsLeft' \in Nat
BY AllStepsNatThen DEF AllSteps

\* The pool has the steps it had, but for one worker.
LEMMA OneWorkerSteps ==
  ASSUME TypeInv, TypeInv', NEW w \in Workers,
         \A v \in Workers : v # w => workers'[v] = workers[v]
  PROVE  PoolSteps' = PoolSteps - WorkerSteps(w) + WorkerSteps(w)'
<1> DEFINE before == [v \in Workers |-> WorkerSteps(v)]
           after  == [v \in Workers |-> WorkerSteps(v)']
<1>1. IsFiniteSet(Workers) /\ \A v \in Workers : before[v] \in Nat
  BY WorkerStepsNat, AgentAssumption
<1>2. \A v \in Workers : after[v] \in Nat
  BY StepsNatThen DEF WorkersHaveSteps
<1>3. \A v \in Workers : v # w => after[v] = before[v]
  BY DEF WorkerSteps
<1>4. before[w] = WorkerSteps(w) /\ after[w] = WorkerSteps(w)'
  OBVIOUS
<1>5. PoolSteps = SumOver(Workers, before) /\ PoolSteps' = SumOver(Workers, after)
  BY DEF PoolSteps
<1> HIDE DEF before, after
<1>6. SumOver(Workers, after) = SumOver(Workers, before) - before[w] + after[w]
  BY <1>1, <1>2, <1>3, SumOverReplace
<1> QED
  BY <1>4, <1>5, <1>6

\* A worker that is done with its chunk, or goes on to its next attempt.
LEMMA WorkerComesCloser ==
  ASSUME TypeInv, TypeInv', NEW w \in Workers, UNCHANGED <<runnerVars, jobs>>,
         \A v \in Workers : v # w => workers'[v] = workers[v],
         WorkerSteps(w)' + Len(limbo') < WorkerSteps(w) + Len(limbo)
  PROVE  StepsLeft' < StepsLeft
<1>1. PoolSteps' = PoolSteps - WorkerSteps(w) + WorkerSteps(w)'
  BY OneWorkerSteps
<1>2. /\ MainSteps' = MainSteps /\ ExpirySteps' = ExpirySteps
      /\ SubmitSteps' = SubmitSteps /\ QueueSteps' = QueueSteps
  BY DEF runnerVars, MainSteps, ExpirySteps, SubmitSteps, QueueSteps
<1>3. /\ WorkerSteps(w) \in Nat /\ WorkerSteps(w)' \in Nat
      /\ Len(limbo) \in Nat /\ Len(limbo') \in Nat
  <2>1. WorkerSteps(w) \in Nat /\ WorkerSteps(w)' \in Nat
    BY WorkerStepsNat, StepsNatThen DEF WorkersHaveSteps
  <2>2. Len(limbo) \in Nat /\ Len(limbo') \in Nat
    BY DEF TypeInv, TypeOK
  <2> QED
    BY <2>1, <2>2
<1>4. /\ StepsLeft = MainSteps + ExpirySteps + SubmitSteps + QueueSteps + PoolSteps + Len(limbo)
      /\ StepsLeft' = MainSteps + ExpirySteps + SubmitSteps + QueueSteps + PoolSteps'
                        + Len(limbo')
  BY <1>2 DEF StepsLeft
<1>5. /\ MainSteps + ExpirySteps + SubmitSteps + QueueSteps \in Nat /\ PoolSteps \in Nat
      /\ WorkerSteps(w)' + Len(limbo') < WorkerSteps(w) + Len(limbo)
  BY StepsNat
<1> HIDE DEF WorkerSteps
<1>6. \A r, p, q, a, b, m, n \in Nat :
        b + n < a + m => r + (p - a + b) + n < r + p + m
  OBVIOUS
<1> QED
  BY <1>1, <1>3, <1>4, <1>5, <1>6

LEMMA MayArriveLateSteps ==
  ASSUME TypeInv, NEW chunk, MayArriveLate(chunk)
  PROVE  Len(limbo') <= Len(limbo) + 1
BY DEF MayArriveLate, TypeInv, TypeOK

LEMMA SendAdvances ==
  ASSUME TypeInv, TypeInv', NEW w \in Workers, Send(w)
  PROVE  StepsLeft' < StepsLeft
<1> DEFINE left == MaxAttempts - workers[w].attempt
<1>1. /\ workers \in [Workers -> WorkerType] /\ UNCHANGED <<runnerVars, jobs>>
      /\ Len(limbo) \in Nat /\ left \in Nat
  <2>1. UNCHANGED <<runnerVars, jobs>>
    BY DEF Send, SendSucceeds, SendRefused, SendFails, Retry, SendTimesOut
  <2>2. workers \in [Workers -> WorkerType] /\ Len(limbo) \in Nat
    BY DEF TypeInv, TypeOK
  <2>3. workers[w].attempt \in 0 .. MaxAttempts /\ MaxAttempts \in Nat
    BY <2>2, AgentAssumption DEF WorkerType
  <2> QED
    BY <2>1, <2>2, <2>3
<1>2. \A v \in Workers : v # w => workers'[v] = workers[v]
  BY <1>1 DEF Send, SendSucceeds, SendRefused, SendFails, Retry, SendTimesOut, GiveUp
<1>3. /\ workers[w].pc = "send" => WorkerSteps(w) = 3 * left + 3
      /\ workers[w].pc = "backoff" => WorkerSteps(w) = 3 * left + 1 /\ left > 0
  <2>1. workers[w].pc = "send" => WorkerSteps(w) = 3 * left + 3
    BY DEF WorkerSteps
  <2>2. workers[w].pc = "backoff" => WorkerSteps(w) = 3 * left + 1
    BY DEF WorkerSteps
  <2>3. workers[w].pc = "backoff" => left # 0
    <3>1. workers[w].attempt \in 0 .. MaxAttempts /\ MaxAttempts \in Nat
      BY <1>1, AgentAssumption DEF WorkerType
    <3> QED
      BY <3>1 DEF TypeInv, WorkerInv
  <2> HIDE DEF left
  <2> QED
    BY <1>1, <2>1, <2>2, <2>3
<1>4. CASE workers' = [workers EXCEPT ![w] = IdleWorker]
  <2>1. WorkerSteps(w)' = 1
    BY <1>1, <1>4 DEF WorkerSteps, IdleWorker
  <2>2. \/ workers[w].pc = "send" /\ Len(limbo') <= Len(limbo) + 1
        \/ workers[w].pc = "backoff" /\ Len(limbo') = Len(limbo)
    <3>1. CASE SendSucceeds(w) \/ SendRefused(w)
      BY <1>1, <3>1 DEF SendSucceeds, SendRefused
    <3>2. CASE SendFails(w)
      BY <3>2, MayArriveLateSteps DEF SendFails
    <3>3. CASE SendTimesOut(w)
      BY <3>3, MayArriveLateSteps DEF SendTimesOut
    <3>4. ~Retry(w)
      <4>1. IdleWorker.pc = "idle"
        BY DEF IdleWorker
      <4> QED
        BY <1>1, <1>4, <4>1 DEF Retry, WorkerType
    <3> QED
      BY <3>1, <3>2, <3>3, <3>4 DEF Send
  <2>3. Len(limbo') \in Nat
    BY DEF TypeInv, TypeOK
  <2> HIDE DEF left
  <2>4. WorkerSteps(w)' + Len(limbo') < WorkerSteps(w) + Len(limbo)
    BY <1>1, <1>3, <2>1, <2>2, <2>3
  <2> QED
    BY <1>1, <1>2, <2>4, WorkerComesCloser
<1>5. CASE SendFails(w) /\ workers' = [workers EXCEPT ![w].pc = "backoff"]
  <2>1. WorkerSteps(w)' = 3 * left + 1
    BY <1>1, <1>5 DEF WorkerSteps, WorkerType
  <2>2. workers[w].pc = "send" /\ Len(limbo') <= Len(limbo) + 1
    BY <1>5, MayArriveLateSteps DEF SendFails
  <2>3. Len(limbo') \in Nat
    BY DEF TypeInv, TypeOK
  <2> HIDE DEF left
  <2>4. WorkerSteps(w)' + Len(limbo') < WorkerSteps(w) + Len(limbo)
    BY <1>1, <1>3, <2>1, <2>2, <2>3
  <2> QED
    BY <1>1, <1>2, <2>4, WorkerComesCloser
<1>6. CASE Retry(w)
  <2>1. workers[w].pc = "backoff" /\ limbo' = limbo
    BY <1>6 DEF Retry, netVars
  <2>2. workers'[w].pc = "send" /\ workers'[w].attempt = workers[w].attempt + 1
    BY <1>1, <1>6 DEF Retry, WorkerType
  <2>3. WorkerSteps(w)' = 3 * (MaxAttempts - (workers[w].attempt + 1)) + 3
    BY <2>2 DEF WorkerSteps
  <2>4. WorkerSteps(w)' = 3 * left
    <3>1. workers[w].attempt \in Nat /\ MaxAttempts \in Nat
      BY <1>1, AgentAssumption DEF WorkerType
    <3> QED
      BY <2>3, <3>1
  <2> HIDE DEF left
  <2>5. WorkerSteps(w)' + Len(limbo') < WorkerSteps(w) + Len(limbo)
    BY <1>1, <1>3, <2>1, <2>4
  <2> QED
    BY <1>1, <1>2, <2>5, WorkerComesCloser
<1> QED
  BY <1>4, <1>5, <1>6 DEF Send, SendSucceeds, SendRefused, SendFails, SendTimesOut, GiveUp

LEMMA ReceiveAdvances ==
  ASSUME TypeInv, TypeInv', NEW w \in Workers, Receive(w)
  PROVE  StepsLeft' < StepsLeft
<1>1. /\ workers \in [Workers -> WorkerType] /\ jobs \in Seq(Chunks) /\ jobs # <<>>
      /\ jobs' = Tail(jobs) /\ workers[w].pc = "idle" /\ UNCHANGED <<runnerVars, limbo>>
      /\ workers' = [workers EXCEPT ![w] = [pc |-> "send", chunk |-> Head(jobs), attempt |-> 1]]
  BY DEF Receive, netVars, TypeInv, TypeOK
<1>2. \A v \in Workers : v # w => workers'[v] = workers[v]
  BY <1>1
<1>3. WorkerSteps(w) = 1 /\ WorkerSteps(w)' = ChunkSteps
  <2>1. workers'[w].pc = "send" /\ workers'[w].attempt = 1
    BY <1>1
  <2>2. WorkerSteps(w)' = 3 * (MaxAttempts - 1) + 3
    BY <2>1 DEF WorkerSteps
  <2> QED
    BY <1>1, <2>2, AgentAssumption DEF WorkerSteps, ChunkSteps
<1>4. QueueSteps' = QueueSteps - ChunkSteps
  <2>1. Len(jobs) \in Nat /\ Len(jobs) # 0 /\ Len(jobs') = Len(jobs) - 1
    BY <1>1
  <2>2. (Len(jobs) - 1) * ChunkSteps = Len(jobs) * ChunkSteps - ChunkSteps
    BY <2>1, Multiples, StepsNat
  <2> QED
    BY <2>1, <2>2 DEF QueueSteps, ChunkSteps
<1>5. PoolSteps' = PoolSteps - 1 + ChunkSteps
  BY <1>2, <1>3, OneWorkerSteps
<1>6. /\ MainSteps' = MainSteps /\ ExpirySteps' = ExpirySteps /\ SubmitSteps' = SubmitSteps
  BY <1>1 DEF runnerVars, MainSteps, ExpirySteps, SubmitSteps, ChunkSteps
<1>7. PICK a \in Nat, q \in Nat, p \in Nat, l \in Nat, k \in Nat :
        /\ a = MainSteps + ExpirySteps + SubmitSteps /\ q = QueueSteps /\ p = PoolSteps
        /\ l = Len(limbo) /\ k = ChunkSteps
  <2>1. MainSteps + ExpirySteps + SubmitSteps \in Nat
    BY StepsNat
  <2> QED
    BY <2>1, StepsNat
<1>8. StepsLeft = a + q + p + l
  BY <1>7 DEF StepsLeft
<1>9. StepsLeft' = a + (q - k) + (p - 1 + k) + l
  BY <1>1, <1>4, <1>5, <1>6, <1>7 DEF StepsLeft
<1> QED
  BY <1>8, <1>9

LEMMA SubmitSendsAdvances ==
  ASSUME TypeInv, SubmitSends
  PROVE  StepsLeft' < StepsLeft
<1>1. /\ flush \in FlushType /\ jobs \in Seq(Chunks) /\ flush.checked /\ flush.chunks # <<>>
      /\ jobs' = Append(jobs, Head(flush.chunks))
      /\ flush' = [flush EXCEPT !.chunks = Tail(@), !.checked = FALSE]
      /\ UNCHANGED <<main, workers, limbo>>
  BY DEF SubmitSends, netVars, TypeInv, TypeOK, FlushInv
<1>2. QueueSteps' = QueueSteps + ChunkSteps
  <2>1. Len(jobs) \in Nat /\ Len(jobs') = Len(jobs) + 1
    BY <1>1
  <2>2. (Len(jobs) + 1) * ChunkSteps = Len(jobs) * ChunkSteps + ChunkSteps
    BY <2>1, Multiples, StepsNat
  <2> QED
    BY <2>1, <2>2 DEF QueueSteps, ChunkSteps
<1>3. SubmitSteps' = SubmitSteps - ChunkSteps - 1
  <2> DEFINE n == Len(flush.chunks)
             k == ChunkSteps + 2
  <2>1. n \in Nat /\ n # 0 /\ k \in Nat /\ ChunkSteps \in Nat
    BY <1>1, StepsNat DEF FlushType
  <2>2. /\ Len(flush'.chunks) = n - 1 /\ ~flush'.checked
    BY <1>1 DEF FlushType
  <2>3. SubmitSteps = n * k - 1 /\ SubmitSteps' = (n - 1) * k - 0
    BY <1>1, <2>2 DEF SubmitSteps, ChunkSteps
  <2>4. (n - 1) * k = n * k - k /\ n * k \in Nat
    <3> HIDE DEF n, k
    <3> QED
      BY <2>1, Multiples
  <2>5. PICK all \in Nat : n * k = all
    BY <2>4
  <2>6. SubmitSteps = all - 1 /\ SubmitSteps' = (all - k) - 0
    BY <2>3, <2>4, <2>5, Zenon
  <2> QED
    BY <2>1, <2>6
<1>4. MainSteps' = MainSteps /\ ExpirySteps' = ExpirySteps /\ PoolSteps' = PoolSteps
  BY <1>1 DEF MainSteps, ExpirySteps, PoolSteps, WorkerSteps, FlushType
<1>5. PICK a \in Nat, s \in Nat, q \in Nat, p \in Nat, l \in Nat, k \in Nat :
        /\ a = MainSteps + ExpirySteps /\ s = SubmitSteps /\ q = QueueSteps
        /\ p = PoolSteps /\ l = Len(limbo) /\ k = ChunkSteps
  <2>1. MainSteps + ExpirySteps \in Nat
    BY StepsNat
  <2> QED
    BY <2>1, StepsNat
<1>6. StepsLeft = a + s + q + p + l
  BY <1>5 DEF StepsLeft
<1>7. StepsLeft' = a + (s - k - 1) + (q + k) + p + l
  BY <1>1, <1>2, <1>3, <1>4, <1>5 DEF StepsLeft
<1> QED
  BY <1>6, <1>7

\* The flush, Run, or a request that arrives late: the workers and the queue
\* stay as they are.
LEMMA OutsideAdvances ==
  ASSUME TypeInv, TypeInv', UNCHANGED <<jobs, workers>>,
         MainSteps' + ExpirySteps' + SubmitSteps' + Len(limbo')
           < MainSteps + ExpirySteps + SubmitSteps + Len(limbo)
  PROVE  StepsLeft' < StepsLeft
<1>1. QueueSteps' = QueueSteps /\ PoolSteps' = PoolSteps
  BY DEF QueueSteps, PoolSteps, WorkerSteps
<1>2. /\ MainSteps' \in Nat /\ ExpirySteps' \in Nat /\ SubmitSteps' \in Nat
      /\ Len(limbo') \in Nat
  <2>1. Len(limbo') \in Nat
    BY DEF TypeInv, TypeOK
  <2>2. MainSteps' \in Nat /\ ExpirySteps' \in Nat
    BY DEF MainSteps, ExpirySteps
  <2>3. SubmitSteps' \in Nat
    BY StepsNatThen
  <2> QED
    BY <2>1, <2>2, <2>3
<1>3. PICK m \in Nat, e \in Nat, s \in Nat, l \in Nat :
        m = MainSteps' /\ e = ExpirySteps' /\ s = SubmitSteps' /\ l = Len(limbo')
  BY <1>2
<1>4. StepsLeft' = m + e + s + QueueSteps + PoolSteps + l
  BY <1>1, <1>3 DEF StepsLeft
<1>5. PICK a \in Nat, l0 \in Nat, q \in Nat, p \in Nat :
        /\ a = MainSteps + ExpirySteps + SubmitSteps /\ l0 = Len(limbo)
        /\ q = QueueSteps /\ p = PoolSteps
  <2>1. MainSteps + ExpirySteps + SubmitSteps \in Nat
    BY StepsNat
  <2> QED
    BY <2>1, StepsNat
<1>6. m + e + s + l < a + l0
  BY <1>3, <1>5
<1>7. StepsLeft = a + q + p + l0
  BY <1>5 DEF StepsLeft
<1>8. StepsLeft' = m + e + s + q + p + l
  BY <1>4, <1>5
<1> QED
  BY <1>6, <1>7, <1>8

\* While Run is past its wg.Wait, a flush that returns returns to Run.
LEMMA FlushReturnsAdvances ==
  ASSUME TypeInv, TypeInv', ShutdownInv, main # "waiting",
         flush.active, FlushReturns, UNCHANGED <<jobs, workers, limbo>>
  PROVE  StepsLeft' < StepsLeft
<1>1. main = "flush"
  <2>1. loops.report = "done"
    BY DEF ShutdownInv, LoopsDone, TypeInv, TypeOK
  <2> QED
    BY <2>1 DEF ShutdownInv
<1>2. main' = "stop" /\ flush' = NoFlush
  BY <1>1 DEF FlushReturns
<1>3. MainSteps = 3 /\ MainSteps' = 2
  BY <1>1, <1>2 DEF MainSteps
<1>4. ExpirySteps' = 0
  BY <1>2 DEF ExpirySteps, NoFlush
<1>5. SubmitSteps' = 0
  <2>1. Len(flush'.chunks) = 0 /\ ~flush'.checked
    BY <1>2 DEF NoFlush
  <2>2. SubmitSteps' = 0 * (ChunkSteps + 2) - 0
    BY <2>1 DEF SubmitSteps, ChunkSteps
  <2> QED
    BY <2>2, StepsNat
<1>6. UNCHANGED <<jobs, workers>> /\ limbo' = limbo
  OBVIOUS
<1>7. MainSteps' + ExpirySteps' + SubmitSteps' + Len(limbo')
        < MainSteps + ExpirySteps + SubmitSteps + Len(limbo)
  BY <1>3, <1>4, <1>5, <1>6, StepsNat
<1> QED
  BY <1>6, <1>7, OutsideAdvances

LEMMA NextAdvances ==
  ASSUME TypeInv, TypeInv', ShutdownInv, PlaceInv, main # "waiting", Next
  PROVE  StepsLeft' < StepsLeft \/ UNCHANGED vars
<1>0. /\ DOMAIN loops = {"runtime", "system", "report"}
      /\ loops.runtime = "done" /\ loops.system = "done" /\ loops.report = "done" /\ cancelled
  <2>1. DOMAIN loops = {"runtime", "system", "report"}
    BY DEF TypeInv, TypeOK
  <2> QED
    BY <2>1 DEF ShutdownInv, LoopsDone, PlaceInv
<1>1. ~Cancel /\ ~PollRuntime /\ ~PollSystem /\ ~ReportTick /\ ~FinalFlush
  BY <1>0 DEF Cancel, PollRuntime, PollSystem, ReportTick, FinalFlush
<1>2. \A l \in DOMAIN loops : ~LoopStops(l)
  BY <1>0 DEF LoopStops
<1>3. flush \in FlushType /\ Len(limbo) \in Nat
  BY DEF TypeInv, TypeOK
<1>4. CASE FlushExpires
  <2>1. /\ UNCHANGED <<main, jobs, workers, limbo>> /\ flush.active /\ ~flush.expired
        /\ flush' = [flush EXCEPT !.expired = TRUE]
    BY <1>4 DEF FlushExpires, netVars
  <2>2. ExpirySteps = 1 /\ ExpirySteps' = 0 /\ MainSteps' = MainSteps
    BY <1>3, <2>1 DEF ExpirySteps, MainSteps, FlushType
  <2>3. SubmitSteps' = SubmitSteps
    BY <1>3, <2>1 DEF SubmitSteps, ChunkSteps, FlushType
  <2>4. MainSteps' + ExpirySteps' + SubmitSteps' + Len(limbo')
          < MainSteps + ExpirySteps + SubmitSteps + Len(limbo)
    BY <1>3, <2>1, <2>2, <2>3, StepsNat
  <2> QED
    BY <2>1, <2>4, OutsideAdvances
<1>5. CASE SubmitChecks
  <2>1. /\ UNCHANGED <<main, jobs, workers, limbo>> /\ ~flush.checked
        /\ flush' = [flush EXCEPT !.checked = TRUE]
    BY <1>5 DEF SubmitChecks, netVars
  <2>2. ExpirySteps' = ExpirySteps /\ MainSteps' = MainSteps
    BY <1>3, <2>1 DEF ExpirySteps, MainSteps, FlushType
  <2>3. SubmitSteps' = SubmitSteps - 1
    <3> DEFINE all == Len(flush.chunks) * (ChunkSteps + 2)
    <3>1. flush'.chunks = flush.chunks /\ flush'.checked
      BY <1>3, <2>1 DEF FlushType
    <3>2. SubmitSteps = all - 0 /\ SubmitSteps' = all - 1
      BY <2>1, <3>1 DEF SubmitSteps, ChunkSteps
    <3>3. all \in Nat
      BY <1>3, Multiples, StepsNat DEF FlushType
    <3> HIDE DEF all
    <3> QED
      BY <3>2, <3>3
  <2>4. MainSteps' + ExpirySteps' + SubmitSteps' + Len(limbo')
          < MainSteps + ExpirySteps + SubmitSteps + Len(limbo)
    BY <1>3, <2>1, <2>2, <2>3, StepsNat
  <2> QED
    BY <2>1, <2>4, OutsideAdvances
<1>6. CASE SubmitSends
  BY <1>6, SubmitSendsAdvances
<1>7. CASE SubmitFails \/ FlushDone
  <2>1. flush.active /\ FlushReturns /\ UNCHANGED <<jobs, workers, limbo>>
    BY <1>7 DEF SubmitFails, FlushDone, netVars
  <2> QED
    BY <2>1, FlushReturnsAdvances
<1>8. CASE PoolStop \/ PoolStopped
  <2>1. UNCHANGED <<flush, jobs, workers, limbo>>
    BY <1>8 DEF PoolStop, PoolStopped, netVars
  <2>2. MainSteps' < MainSteps /\ MainSteps' \in Nat
    BY <1>8 DEF PoolStop, PoolStopped, MainSteps
  <2>3. ExpirySteps' = ExpirySteps /\ SubmitSteps' = SubmitSteps
    BY <2>1 DEF ExpirySteps, SubmitSteps, ChunkSteps
  <2>4. MainSteps' + ExpirySteps' + SubmitSteps' + Len(limbo')
          < MainSteps + ExpirySteps + SubmitSteps + Len(limbo)
    BY <1>3, <2>1, <2>2, <2>3, StepsNat
  <2> QED
    BY <2>1, <2>4, OutsideAdvances
<1>9. ASSUME NEW w \in Workers, Receive(w) \/ Send(w) PROVE StepsLeft' < StepsLeft
  BY <1>9, ReceiveAdvances, SendAdvances
<1>10. ASSUME NEW w \in Workers, WorkerExits(w) PROVE StepsLeft' < StepsLeft
  <2>1. /\ workers \in [Workers -> WorkerType] /\ workers[w].pc = "idle"
        /\ workers' = [workers EXCEPT ![w].pc = "exited"]
        /\ UNCHANGED <<runnerVars, jobs, limbo>>
    BY <1>10 DEF WorkerExits, netVars, TypeInv, TypeOK
  <2>2. WorkerSteps(w) = 1 /\ WorkerSteps(w)' = 0
    BY <2>1 DEF WorkerSteps, WorkerType
  <2>3. \A v \in Workers : v # w => workers'[v] = workers[v]
    BY <2>1
  <2>4. WorkerSteps(w)' + Len(limbo') < WorkerSteps(w) + Len(limbo)
    BY <1>3, <2>1, <2>2
  <2> QED
    BY <2>1, <2>3, <2>4, WorkerComesCloser
<1>11. CASE ArrivesLate
  <2>1. PICK k \in 1 .. Len(limbo) : limbo' = RemoveAt(limbo, k)
    BY <1>11 DEF ArrivesLate
  <2>2. Len(limbo') = Len(limbo) - 1
    <3>1. limbo \in Seq(Chunks)
      BY DEF TypeInv, TypeOK
    <3> QED
      BY <2>1, <3>1, RemoveAtType
  <2>3. UNCHANGED <<main, flush, jobs, workers>>
    BY <1>11 DEF ArrivesLate, runnerVars
  <2>4. MainSteps' = MainSteps /\ ExpirySteps' = ExpirySteps /\ SubmitSteps' = SubmitSteps
    BY <2>3 DEF MainSteps, ExpirySteps, SubmitSteps, ChunkSteps
  <2>5. MainSteps' + ExpirySteps' + SubmitSteps' + Len(limbo')
          < MainSteps + ExpirySteps + SubmitSteps + Len(limbo)
    BY <1>3, <2>2, <2>4, StepsNat
  <2> QED
    BY <2>3, <2>5, OutsideAdvances
<1>12. CASE Terminated
  BY <1>12 DEF Terminated
<1> QED
  BY <1>1, <1>2, <1>4, <1>5, <1>6, <1>7, <1>8, <1>9, <1>10, <1>11, <1>12 DEF Next

\* From its last flush on the agent makes at most StepsLeft more steps, of Run,
\* of a worker or of the network, whatever fails and however often: no retry,
\* no late request and no full queue makes the shutdown longer than that.
THEOREM ShutdownAdvancesHolds == Spec => [][ShutdownAdvances]_vars
<1>1. ASSUME TypeInv, TypeInv', ShutdownInv, PlaceInv, [Next]_vars
      PROVE  [ShutdownAdvances]_vars
  <2>1. StepsLeft' \in Nat
    BY <1>1, StepsNatThen
  <2>2. CASE main # "waiting" /\ Next
    BY <1>1, <2>1, <2>2, NextAdvances DEF ShutdownAdvances
  <2> QED
    BY <1>1, <2>2 DEF ShutdownAdvances
<1> QED
  BY <1>1, InitType, NextType, InitShutdown, NextShutdown, InitPlace, NextPlace, PTL DEF Spec
=============================================================================
