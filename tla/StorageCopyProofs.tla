------------------------- MODULE StorageCopyProofs -------------------------
(***************************************************************************)
(* Proof that the copy of a file by a reader and a writer thread, or by one   *)
(* thread alone, implements the ordered copy of BlockCopy, for files and      *)
(* buffers of any size.                                                       *)
(***************************************************************************)
EXTENDS StorageCopy, SequenceTheorems, TLAPS

Numbered(n) == [i \in 1 .. n |-> i]

(* Buffer b begins with `count` bytes of the source from offset `from` on.    *)
Holds(b, from, count) == count <= Len(b) /\ \A i \in 1 .. count : b[i] = from + i

(* The writer and the pipeline are at work.                                   *)
Live == writer.pc \in {"check", "wait", "write", "release"}
Over == writer.pc \in {"stop", "join", "finish", "end"}

(* The offset of the writer's slot in the source.                             *)
Head0 == Len(dest) - (IF writer.pc \in {"write", "release"} THEN writer.written ELSE 0)

CopyTypeOK ==
  /\ file \in [size : Nat, stat : Nat]
  /\ reader \in [pc : {"none", "wait", "read", "publish", "gone"}, slot : Slots,
                 completed : Nat, got : Int]
  /\ writer \in [pc : {"start", "check", "wait", "write", "release", "stop", "join", "finish",
                       "end", "seq", "seqwrite"},
                 slot : Slots, count : Nat, written : Nat, status : {"ok", "failed"}]
  /\ shared \in [pending : Int, stop : BOOLEAN, sizes : [Slots -> Int],
                 errors : [Slots -> BOOLEAN]]
  /\ buffers \in [Slots -> Seq(Nat)]
  /\ dest \in Seq(Nat)
  /\ outcome \in {"copying", "copied", "failed"}

(* The destination is a prefix of the source, nobody reads past its end, and  *)
(* a copy that ends without a failure has written all of it.                  *)
PrefixInv ==
  /\ Len(dest) <= file.size /\ dest = Numbered(Len(dest))
  /\ reader.completed <= file.size
  /\ writer.pc # "end" => outcome = "copying"
  /\ Over /\ writer.status = "ok" => Len(dest) = file.size
  /\ ~Over => writer.status = "ok"

(* A full slot, and the reader behind the last full slot.                     *)
Full(s, from) == shared.sizes[s] > 0 /\ Holds(buffers[s], from, shared.sizes[s])

ReaderAt(tail) ==
  /\ reader.pc \in {"wait", "read"} => reader.completed = tail
  /\ reader.pc = "publish" =>
       IF reader.got = Failed THEN reader.completed = tail
       ELSE /\ reader.got \in Nat
            /\ reader.completed = tail + reader.got
            /\ Holds(buffers[reader.slot], tail, reader.got)
            /\ reader.got = 0 => tail = file.size

(* The two slots are a queue: the writer's slot is its head, the reader fills *)
(* the first free one, and what lies between them is the next part of the     *)
(* source.  A reader that is gone has left an end of file or an error behind  *)
(* the last full slot.                                                        *)
QueueInv ==
  LET w == writer.slot
      o == Other(writer.slot)
      sizes == shared.sizes
  IN
  Live =>
    /\ ~shared.stop
    /\ reader.pc # "none"
    /\ shared.pending \in 0 .. 2
    /\ writer.pc \in {"write", "release"} =>
         /\ shared.pending > 0 /\ writer.count = sizes[w] /\ writer.count > 0
         /\ writer.written <= Len(dest)
    /\ writer.pc = "write" => writer.written < writer.count
    /\ writer.pc = "release" => writer.written = writer.count
    /\ reader.pc # "gone" =>
         /\ shared.pending = 0 => reader.slot = w /\ ReaderAt(Head0)
         /\ shared.pending = 1 => /\ reader.slot = o /\ Full(w, Head0)
                                  /\ ReaderAt(Head0 + sizes[w])
         /\ shared.pending = 2 => /\ reader.slot = w /\ reader.pc = "wait"
                                  /\ Full(w, Head0) /\ Full(o, Head0 + sizes[w])
                                  /\ reader.completed = Head0 + sizes[w] + sizes[o]
    /\ reader.pc = "gone" =>
         /\ shared.pending = 1 => /\ sizes[w] \in {EOFCount, Failed}
                                  /\ sizes[w] = EOFCount => Head0 = file.size
         /\ shared.pending = 2 => /\ sizes[o] \in {EOFCount, Failed}
                                  /\ Full(w, Head0) /\ Head0 + sizes[w] <= file.size
                                  /\ sizes[o] = EOFCount => Head0 + sizes[w] = file.size
         /\ shared.pending # 0

(* One thread alone: what it has read follows what it has written.            *)
SequentialInv ==
  /\ writer.pc = "start" => /\ reader.pc = "none" /\ reader.slot = writer.slot
                            /\ shared.pending = 0 /\ ~shared.stop
                            /\ reader.completed = 0 /\ Len(dest) = 0
  /\ writer.pc \in {"seq", "seqwrite"} => reader.pc = "none"
  /\ writer.pc = "seqwrite" =>
       /\ writer.written < writer.count /\ writer.written <= Len(dest)
       /\ Holds(buffers[writer.slot], Len(dest) - writer.written, writer.count)
       /\ Len(dest) - writer.written + writer.count <= file.size

CopyInv == CopyTypeOK /\ PrefixInv /\ QueueInv /\ SequentialInv

-----------------------------------------------------------------------------
(* The operators of the model.                                                *)

(* The smaller of two numbers.                                                *)
LEMMA MinOfTwo ==
  ASSUME NEW a \in Int, NEW b \in Int
  PROVE  Min({a, b}) \in Int /\ Min({a, b}) <= a /\ Min({a, b}) <= b
<1>1. \E x \in {a, b} : \A y \in {a, b} : x =< y
  OBVIOUS
<1>2. Min({a, b}) \in {a, b} /\ \A y \in {a, b} : Min({a, b}) =< y
  BY <1>1 DEF Min
<1> QED
  BY <1>2

(* The larger of two numbers.                                                 *)
LEMMA MaxOfTwo ==
  ASSUME NEW a \in Int, NEW b \in Int
  PROVE  Max({a, b}) \in {a, b} /\ Max({a, b}) >= a /\ Max({a, b}) >= b
<1>1. \E x \in {a, b} : \A y \in {a, b} : x >= y
  OBVIOUS
<1>2. Max({a, b}) \in {a, b} /\ \A y \in {a, b} : Max({a, b}) >= y
  BY <1>1 DEF Max
<1> QED
  BY <1>2

(* storage_read_ahead_thread's read() returns bytes of the source, its end or *)
(* an error, and the end only at the end.                                     *)
LEMMA ReadFacts ==
  ASSUME CopyTypeOK, NEW completed \in Nat, completed <= file.size,
         NEW count \in ReadResults(completed)
  PROVE  \/ count = Failed
         \/ /\ count \in Nat /\ completed + count <= file.size
            /\ count = EOFCount => completed = file.size
<1>1. file.size \in Nat /\ file.stat \in Nat /\ Chunk \in Nat
  BY CopyAssumption DEF CopyTypeOK
<1>2. storage_read_size(completed) \in Int
  <2>1. Min({file.stat - completed, Chunk}) \in Int
    <3>1. file.stat - completed \in Int /\ Chunk \in Int
      BY <1>1
    <3> QED
      BY <3>1, MinOfTwo
  <2>2. CASE completed > file.stat
    BY <1>1, <2>2 DEF storage_read_size
  <2>3. CASE completed = file.stat
    BY <1>1, <2>3 DEF storage_read_size
  <2>4. CASE completed < file.stat
    BY <1>1, <2>1, <2>4 DEF storage_read_size
  <2> QED
    BY <1>1, <2>2, <2>3, <2>4
<1> DEFINE m == Min({file.size - completed, storage_read_size(completed)})
<1>3. m \in Int /\ m <= file.size - completed
  <2>1. file.size - completed \in Int
    BY <1>1
  <2> QED
    BY <2>1, <1>2, MinOfTwo, Zenon
<1>4. count \in {Failed} \cup (IF file.size - completed = 0 THEN {EOFCount} ELSE 1 .. m)
  BY DEF ReadResults
<1> HIDE DEF m
<1> QED
  BY <1>1, <1>3, <1>4 DEF EOFCount, Failed

(* A function on 1 .. m is a sequence of length m.                            *)
LEMMA FunctionIsSeq ==
  ASSUME NEW m \in Nat, NEW f \in [1 .. m -> Nat]
  PROVE  f \in Seq(Nat) /\ Len(f) = m
<1>1. f \in Seq(Nat)
  BY SeqDef
<1>2. DOMAIN f = 1 .. m /\ DOMAIN f = 1 .. Len(f) /\ Len(f) \in Nat
  BY <1>1, LenProperties
<1> QED
  BY <1>1, <1>2

(* A read of count blocks at from fills the buffer with just these blocks.    *)
LEMMA FilledFacts ==
  ASSUME NEW b \in Seq(Nat), NEW from \in Nat, NEW count \in Nat
  PROVE  Filled(b, from, count) \in Seq(Nat) /\ Holds(Filled(b, from, count), from, count)
<1> DEFINE m == Max({count, Len(b)})
           f == [i \in 1 .. m |-> IF i <= count THEN from + i ELSE b[i]]
<1>1. m \in Nat /\ m >= count /\ m >= Len(b) /\ m \in {count, Len(b)}
  <2>1. Len(b) \in Nat /\ Len(b) \in Int /\ count \in Int
    BY LenProperties
  <2>2. m \in {count, Len(b)} /\ m >= count /\ m >= Len(b)
    BY <2>1, MaxOfTwo, Zenon
  <2> QED
    BY <2>1, <2>2
<1>2. Filled(b, from, count) = f
  BY DEF Filled
<1> HIDE DEF m
<1>3. \A i \in 1 .. m : (IF i <= count THEN from + i ELSE b[i]) \in Nat
  BY <1>1, ElementOfSeq
<1>4. f \in [1 .. m -> Nat] /\ \A i \in 1 .. m : f[i] = IF i <= count THEN from + i ELSE b[i]
  BY <1>3
<1> HIDE DEF f
<1>5. f \in Seq(Nat) /\ Len(f) = m
  BY <1>1, <1>4, FunctionIsSeq
<1>6. Holds(f, from, count)
  BY <1>1, <1>4, <1>5 DEF Holds
<1> QED
  BY <1>2, <1>5, <1>6

(* The first k blocks of a file, as a sequence.                               *)
LEMMA NumberedFacts ==
  ASSUME NEW k \in Nat
  PROVE  /\ Numbered(k) \in Seq(Nat) /\ Len(Numbered(k)) = k
         /\ \A i \in 1 .. k : Numbered(k)[i] = i
<1>1. Numbered(k) \in [1 .. k -> Nat]
  BY DEF Numbered
<1>2. \A i \in 1 .. k : Numbered(k)[i] = i
  BY DEF Numbered
<1> QED
  BY <1>1, <1>2, FunctionIsSeq

(* One write() of write_storage_buffer appends the next bytes of the source.  *)
Appended(d, b, w, n) == d \o SubSeq(b, w + 1, w + n)

(* Writing the next n blocks of a buffer extends the prefix by n blocks.      *)
LEMMA AppendFacts ==
  ASSUME NEW k \in Nat, NEW b \in Seq(Nat), NEW w \in Nat, NEW count \in Nat, NEW n \in Nat,
         Holds(b, k - w, count), w + n <= count
  PROVE  Appended(Numbered(k), b, w, n) = Numbered(k + n)
<1> DEFINE part == SubSeq(b, w + 1, w + n)
           d == Numbered(k) \o part
<1>2. \A i \in w + 1 .. w + n : i \in 1 .. Len(b) /\ b[i] = (k - w) + i /\ b[i] \in Nat
  <2>1. Len(b) \in Nat
    BY LenProperties
  <2>2. \A i \in w + 1 .. w + n : i \in 1 .. Len(b) /\ b[i] = (k - w) + i
    BY <2>1 DEF Holds
  <2> QED
    BY <2>2, ElementOfSeq
<1>3. part \in Seq(Nat) /\ Len(part) = n /\ \A i \in 1 .. n : part[i] = k + i
  <2>1. /\ part \in Seq(Nat)
        /\ Len(part) = IF w + 1 <= w + n THEN (w + n) - (w + 1) + 1 ELSE 0
        /\ \A i \in 1 .. (w + n) - (w + 1) + 1 : part[i] = b[(w + 1) + i - 1]
    BY <1>2, SubSeqProperties
  <2> HIDE DEF part
  <2>2. Len(part) = n
    BY <2>1
  <2>3. ASSUME NEW i \in 1 .. n PROVE part[i] = k + i
    <3>1. i \in 1 .. (w + n) - (w + 1) + 1 /\ (w + 1) + i - 1 = w + i /\ w + i \in w + 1 .. w + n
      OBVIOUS
    <3>2. part[i] = b[w + i]
      BY <2>1, <3>1, Zenon
    <3>3. b[w + i] = (k - w) + (w + i)
      BY <1>2, <3>1
    <3> QED
      BY <3>2, <3>3
  <2> QED
    BY <2>1, <2>2, <2>3
<1> HIDE DEF part
<1>4. /\ d \in Seq(Nat) /\ Len(d) = k + n
      /\ \A i \in 1 .. k + n : d[i] = IF i <= k THEN Numbered(k)[i] ELSE part[i - k]
  <2>1. Numbered(k) \in Seq(Nat) /\ Len(Numbered(k)) = k
    BY NumberedFacts
  <2>2. /\ d \in Seq(Nat) /\ Len(d) = Len(Numbered(k)) + Len(part)
        /\ \A i \in 1 .. Len(Numbered(k)) + Len(part) :
              d[i] = IF i <= Len(Numbered(k)) THEN Numbered(k)[i]
                     ELSE part[i - Len(Numbered(k))]
    BY <2>1, <1>3, ConcatProperties, Zenon
  <2> HIDE DEF d
  <2> QED
    BY <2>1, <1>3, <2>2
<1> HIDE DEF d
<1>5. \A i \in 1 .. k + n : d[i] = Numbered(k + n)[i]
  <2> TAKE i \in 1 .. k + n
  <2>1. Numbered(k + n)[i] = i
    <3>1. k + n \in Nat
      OBVIOUS
    <3> QED
      BY <3>1, NumberedFacts, Zenon
  <2>2. CASE i <= k
    <3>1. i \in 1 .. k
      BY <2>2
    <3>2. Numbered(k)[i] = i
      BY <3>1, NumberedFacts
    <3> QED
      BY <1>4, <2>1, <2>2, <3>2
  <2>3. CASE i > k
    <3>1. i - k \in 1 .. n /\ k + (i - k) = i
      BY <2>3
    <3>2. part[i - k] = i
      BY <1>3, <3>1
    <3> QED
      BY <1>4, <2>1, <2>3, <3>2
  <2> QED
    BY <2>2, <2>3
<1>6. d = Numbered(k + n)
  <2>1. Numbered(k + n) \in Seq(Nat) /\ Len(Numbered(k + n)) = k + n
    BY NumberedFacts
  <2> QED
    BY <1>4, <1>5, <2>1, SeqEqual
<1> QED
  BY <1>6, Zenon DEF d, part, Appended

(* A prefix of a prefix of the file is a prefix of the file.                  *)
LEMMA PrefixFacts ==
  ASSUME NEW m \in Nat, NEW k \in Nat, k <= m
  PROVE  SubSeq(Numbered(m), 1, k) = Numbered(k)
<1> DEFINE s == SubSeq(Numbered(m), 1, k)
<1>1. /\ s \in Seq(Nat) /\ Len(s) = IF 1 <= k THEN k - 1 + 1 ELSE 0
      /\ \A i \in 1 .. k - 1 + 1 : s[i] = Numbered(m)[1 + i - 1]
  <2>1. \A i \in 1 .. m : Numbered(m)[i] = i
    BY NumberedFacts
  <2>2. \A i \in 1 .. k : Numbered(m)[i] \in Nat
    BY <2>1
  <2> QED
    BY <2>2, SubSeqProperties
<1> HIDE DEF s
<1>2. Len(s) = k
  BY <1>1
<1>3. \A i \in 1 .. k : s[i] = Numbered(k)[i]
  <2> TAKE i \in 1 .. k
  <2>1. i \in 1 .. k - 1 + 1 /\ 1 + i - 1 = i /\ i \in 1 .. m
    OBVIOUS
  <2>2. s[i] = Numbered(m)[i]
    BY <1>1, <2>1
  <2> QED
    BY <2>1, <2>2, NumberedFacts
<1>4. s = Numbered(k)
  BY <1>1, <1>2, <1>3, NumberedFacts, SeqEqual
<1> QED
  BY <1>4 DEF s

-----------------------------------------------------------------------------
(* copy_regular_file starts with an empty destination and free slots.         *)
LEMMA InitCopy == CopyInit => CopyInv
<1> SUFFICES ASSUME CopyInit PROVE CopyInv
  OBVIOUS
<1>1. << >> \in Seq(Nat) /\ Len(<< >>) = 0
  BY EmptySeq
<1>2. file.size \in Nat /\ file.stat \in Nat
  BY CopyAssumption DEF CopyInit
<1>3. Numbered(0) = << >>
  BY <1>1, NumberedFacts, SeqEqual
<1>4. CopyTypeOK
  BY <1>1, CopyAssumption DEF CopyTypeOK, CopyInit, Slots
<1> QED
  BY <1>1, <1>2, <1>3, <1>4 DEF CopyInv, PrefixInv, QueueInv, SequentialInv, Live, Over, CopyInit

(* The read-ahead thread keeps the queue.                                     *)
LEMMA ReaderKeeps == CopyInv /\ ReaderNext => CopyInv'
<1> SUFFICES ASSUME CopyInv, ReaderNext PROVE CopyInv'
  OBVIOUS
<1>1. CASE ReaderTakesSlot
  <2> USE <1>1
  <2>1. CopyTypeOK'
    BY Zenon DEF CopyInv, CopyTypeOK, ReaderTakesSlot
  <2>2. PrefixInv'
    BY DEF CopyInv, CopyTypeOK, PrefixInv, ReaderTakesSlot, Over
  <2>3. QueueInv'
    BY DEF CopyInv, CopyTypeOK, QueueInv, ReaderTakesSlot, Live, Head0, Full, ReaderAt
  <2>4. SequentialInv'
    BY DEF CopyInv, CopyTypeOK, SequentialInv, ReaderTakesSlot
  <2> QED
    BY <2>1, <2>2, <2>3, <2>4 DEF CopyInv
<1>2. CASE ReaderReads
  <2>1. PICK count \in ReadResults(reader.completed) :
          /\ reader' = [reader EXCEPT !.pc = "publish", !.got = count,
                          !.completed = IF count = Failed THEN @ ELSE @ + count]
          /\ buffers' = IF count = Failed THEN buffers
                        ELSE [buffers EXCEPT ![reader.slot] =
                                Filled(@, reader.completed, count)]
    BY <1>2, Zenon DEF ReaderReads
  <2>2. UNCHANGED <<file, writer, shared, dest, cancel, outcome>> /\ reader.pc = "read"
    BY <1>2 DEF ReaderReads
  <2>3. \/ count = Failed
        \/ /\ count \in Nat /\ reader.completed + count <= file.size
           /\ count = EOFCount => reader.completed = file.size
    BY ReadFacts, Zenon DEF CopyInv, CopyTypeOK, PrefixInv
  <2>4. count # Failed =>
          /\ buffers'[reader.slot] \in Seq(Nat)
          /\ Holds(buffers'[reader.slot], reader.completed, count)
    BY <2>1, <2>3, FilledFacts, Zenon DEF CopyInv, CopyTypeOK
  <2>5. buffers' \in [Slots -> Seq(Nat)]
    BY <2>1, <2>4, Zenon DEF CopyInv, CopyTypeOK
  <2>6. reader' = [pc |-> "publish", slot |-> reader.slot, got |-> count,
                   completed |-> IF count = Failed THEN reader.completed
                                 ELSE reader.completed + count]
    BY <2>1, Zenon DEF CopyInv, CopyTypeOK
  <2>7. CopyTypeOK'
    <3>1. count \in Int /\ (count # Failed => reader.completed + count \in Nat)
      BY <2>3 DEF CopyInv, CopyTypeOK, Failed
    <3>2. reader' \in [pc : {"none", "wait", "read", "publish", "gone"}, slot : Slots,
                       completed : Nat, got : Int]
      BY <2>6, <3>1, Zenon DEF CopyInv, CopyTypeOK
    <3> QED
      BY <2>2, <2>5, <3>2, Zenon DEF CopyInv, CopyTypeOK
  <2>8. PrefixInv'
    BY <2>2, <2>3, <2>6 DEF CopyInv, CopyTypeOK, PrefixInv, Over
  <2>9. QueueInv'
    <3>1. SUFFICES ASSUME Live PROVE QueueInv'
      BY <2>2 DEF QueueInv, Live
    <3>2. Head0' = Head0 /\ Live' /\ Head0 \in Int
      BY <2>2, <3>1, LenProperties DEF Head0, Live, CopyInv, CopyTypeOK
    <3>3. /\ reader'.pc = "publish" /\ reader'.slot = reader.slot /\ reader'.got = count
          /\ count = Failed => reader'.completed = reader.completed
          /\ count # Failed => reader'.completed = reader.completed + count
      BY <2>6, Zenon
    <3>4. ASSUME NEW t, ReaderAt(t) PROVE ReaderAt(t)'
      <4>1. reader.completed = t
        BY <2>2, <3>4, Zenon DEF ReaderAt
      <4> QED
        BY <2>2, <2>3, <2>4, <3>3, <4>1, Zenon DEF ReaderAt, EOFCount
    <3>5. ASSUME reader.slot # writer.slot, Full(writer.slot, Head0)
          PROVE  Full(writer.slot, Head0)'
      <4>1. buffers'[writer.slot] = buffers[writer.slot]
        BY <2>1, <3>5, Zenon DEF CopyInv, CopyTypeOK
      <4> QED
        BY <2>2, <3>2, <3>5, <4>1, Zenon DEF Full
    <3>6. Other(writer.slot) # writer.slot
      <4>1. writer.slot \in Slots
        BY Zenon DEF CopyInv, CopyTypeOK
      <4> QED
        BY <4>1 DEF Slots, Other
    <3>7. QueueInv
      BY Zenon DEF CopyInv
    <3>8. CASE shared.pending = 0
      BY <2>2, <3>1, <3>2, <3>3, <3>4, <3>7, <3>8, Zenon DEF QueueInv
    <3>9. CASE shared.pending = 1
      BY <2>2, <3>1, <3>2, <3>3, <3>4, <3>5, <3>6, <3>7, <3>9, Zenon DEF QueueInv
    <3>10. shared.pending \in 0 .. 2 /\ shared.pending # 2
      BY <2>2, <3>1, <3>7, Zenon DEF QueueInv
    <3>11. shared.pending = 0 \/ shared.pending = 1
      BY <3>10
    <3> QED
      BY <3>8, <3>9, <3>11, Zenon
  <2>10. SequentialInv'
    BY <2>2, <2>6 DEF CopyInv, CopyTypeOK, SequentialInv
  <2> QED
    BY <2>7, <2>8, <2>9, <2>10 DEF CopyInv
<1>3. CASE ReaderPublishes
  <2> USE <1>3
  <2>1. CopyTypeOK'
    <3>1. reader.slot \in Slots /\ Other(reader.slot) \in Slots /\ shared.pending + 1 \in Int
          /\ (reader.got = Failed) \in BOOLEAN /\ reader.got \in Int
      BY DEF CopyInv, CopyTypeOK, Slots, Other
    <3>2. /\ [shared.sizes EXCEPT ![reader.slot] = reader.got] \in [Slots -> Int]
          /\ [shared.errors EXCEPT ![reader.slot] = (reader.got = Failed)] \in [Slots -> BOOLEAN]
      BY <3>1, Zenon DEF CopyInv, CopyTypeOK
    <3>3. shared' = shared \/
          shared' = [pending |-> shared.pending + 1, stop |-> shared.stop,
                     sizes |-> [shared.sizes EXCEPT ![reader.slot] = reader.got],
                     errors |-> [shared.errors EXCEPT ![reader.slot] = (reader.got = Failed)]]
      BY Zenon DEF ReaderPublishes, CopyInv, CopyTypeOK
    <3>4. shared' \in [pending : Int, stop : BOOLEAN, sizes : [Slots -> Int],
                       errors : [Slots -> BOOLEAN]]
      <4>1. shared.stop \in BOOLEAN /\ shared \in [pending : Int, stop : BOOLEAN,
                sizes : [Slots -> Int], errors : [Slots -> BOOLEAN]]
        BY Zenon DEF CopyInv, CopyTypeOK
      <4>2. ASSUME NEW a \in Int, NEW b \in BOOLEAN, NEW c \in [Slots -> Int],
                   NEW d \in [Slots -> BOOLEAN]
            PROVE  [pending |-> a, stop |-> b, sizes |-> c, errors |-> d]
                     \in [pending : Int, stop : BOOLEAN, sizes : [Slots -> Int],
                          errors : [Slots -> BOOLEAN]]
        BY Zenon
      <4>3. [pending |-> shared.pending + 1, stop |-> shared.stop,
             sizes |-> [shared.sizes EXCEPT ![reader.slot] = reader.got],
             errors |-> [shared.errors EXCEPT ![reader.slot] = (reader.got = Failed)]]
              \in [pending : Int, stop : BOOLEAN, sizes : [Slots -> Int],
                   errors : [Slots -> BOOLEAN]]
        BY <3>1, <3>2, <4>1, <4>2, Zenon
      <4> QED
        BY <3>3, <4>1, <4>3, Zenon
    <3>5. reader' \in [pc : {"none", "wait", "read", "publish", "gone"}, slot : Slots,
                       completed : Nat, got : Int]
      <4>1. \/ reader' = [reader EXCEPT !.pc = "gone"]
            \/ reader' = [reader EXCEPT !.pc = "wait", !.slot = Other(@)]
        BY Zenon DEF ReaderPublishes
      <4>2. CASE reader' = [reader EXCEPT !.pc = "gone"]
        BY <4>2, Zenon DEF CopyInv, CopyTypeOK
      <4>3. CASE reader' = [reader EXCEPT !.pc = "wait", !.slot = Other(@)]
        BY <3>1, <4>3, Zenon DEF CopyInv, CopyTypeOK
      <4> QED
        BY <4>1, <4>2, <4>3, Zenon
    <3> QED
      BY <3>4, <3>5, Zenon DEF ReaderPublishes, CopyInv, CopyTypeOK
  <2>2. PrefixInv'
    BY Zenon DEF CopyInv, CopyTypeOK, PrefixInv, ReaderPublishes, Over
  <2>3. QueueInv'
    <3>1. SUFFICES ASSUME Live PROVE QueueInv'
      BY DEF QueueInv, Live, ReaderPublishes
    <3>2. Head0' = Head0 /\ Live' /\ Head0 \in Int /\ ~shared.stop
      BY <3>1, LenProperties DEF Head0, Live, CopyInv, CopyTypeOK, ReaderPublishes, QueueInv
    <3>3. shared' = [pending |-> shared.pending + 1, stop |-> FALSE,
                     sizes |-> [shared.sizes EXCEPT ![reader.slot] = reader.got],
                     errors |-> [shared.errors EXCEPT ![reader.slot] = (reader.got = Failed)]]
      BY <3>2, Zenon DEF ReaderPublishes, CopyInv, CopyTypeOK
    <3>4. reader' = IF reader.got \in {EOFCount, Failed} THEN [reader EXCEPT !.pc = "gone"]
                    ELSE [reader EXCEPT !.pc = "wait", !.slot = Other(@)]
      BY <3>2 DEF ReaderPublishes
    <3>5. CASE shared.pending = 0
      <4>1. /\ shared'.sizes[reader.slot] = reader.got /\ shared'.pending = 1 /\ ~shared'.stop
            /\ reader.got \in Int /\ reader.completed \in Nat /\ reader.slot \in Slots
        BY <3>3, <3>5 DEF CopyInv, CopyTypeOK
      <4>2. UNCHANGED <<file, writer, buffers, dest>> /\ reader.pc = "publish"
        BY Zenon DEF ReaderPublishes
      <4>3. /\ reader.slot = writer.slot /\ ReaderAt(Head0)
            /\ writer.pc \notin {"write", "release"}
        BY <3>1, <3>5, <4>2 DEF CopyInv, QueueInv
      <4>4. CASE reader.got \in {EOFCount, Failed}
        <5>1. reader'.pc = "gone"
          BY <3>4, <4>4, Zenon DEF CopyInv, CopyTypeOK
        <5>2. reader.got = EOFCount => Head0 = file.size
          BY <4>2, <4>3 DEF ReaderAt, EOFCount, Failed
        <5> QED
          BY <3>2, <4>1, <4>2, <4>3, <4>4, <5>1, <5>2 DEF QueueInv
      <4>5. CASE reader.got \notin {EOFCount, Failed}
        <5>1. /\ reader'.pc = "wait" /\ reader'.slot = Other(writer.slot)
              /\ reader'.completed = reader.completed
          BY <3>4, <4>3, <4>5, Zenon DEF CopyInv, CopyTypeOK
        <5>2. /\ reader.got > 0 /\ reader.completed = Head0 + reader.got
              /\ Holds(buffers[writer.slot], Head0, reader.got)
          BY <4>2, <4>3, <4>5 DEF ReaderAt, EOFCount, Failed
        <5>3. Full(writer.slot, Head0)' /\ ReaderAt(Head0 + shared.sizes[writer.slot])'
          BY <3>2, <4>1, <4>2, <4>3, <5>1, <5>2 DEF Full, ReaderAt
        <5> QED
          BY <3>2, <4>1, <4>2, <4>3, <5>1, <5>2, <5>3 DEF QueueInv
      <4> QED
        BY <4>4, <4>5
    <3>6. CASE shared.pending = 1
      <4>1. /\ reader.slot = Other(writer.slot) /\ writer.slot \in Slots
            /\ reader.slot # writer.slot /\ Other(reader.slot) = writer.slot
        BY <3>1, <3>6 DEF CopyInv, CopyTypeOK, QueueInv, Slots, Other, ReaderPublishes
      <4>2. /\ shared'.sizes[writer.slot] = shared.sizes[writer.slot]
            /\ shared'.sizes[reader.slot] = reader.got /\ shared'.pending = 2
            /\ ~shared'.stop /\ shared.sizes[writer.slot] \in Int
        BY <3>3, <3>6, <4>1 DEF CopyInv, CopyTypeOK
      <4>3. UNCHANGED <<file, writer, buffers, dest>> /\ reader.pc = "publish"
        BY DEF ReaderPublishes
      <4>4. /\ Full(writer.slot, Head0) /\ ReaderAt(Head0 + shared.sizes[writer.slot])
            /\ writer.pc \in {"write", "release"} =>
                 /\ writer.count = shared.sizes[writer.slot] /\ writer.count > 0
                 /\ writer.written <= Len(dest)
            /\ writer.pc = "write" => writer.written < writer.count
            /\ writer.pc = "release" => writer.written = writer.count
        BY <3>1, <3>6, <4>3 DEF CopyInv, QueueInv
      <4>5. Full(writer.slot, Head0)'
        BY <3>2, <4>2, <4>3, <4>4 DEF Full
      <4>6. CASE reader.got \in {EOFCount, Failed}
        <5>1. reader'.pc = "gone"
          BY <3>4, <4>6, Zenon DEF CopyInv, CopyTypeOK
        <5>2. /\ Head0 + shared.sizes[writer.slot] <= file.size
              /\ reader.got = EOFCount => Head0 + shared.sizes[writer.slot] = file.size
          BY <3>2, <4>2, <4>3, <4>4, <4>6
          DEF ReaderAt, EOFCount, Failed, CopyInv, CopyTypeOK, PrefixInv
        <5> QED
          BY <3>2, <4>1, <4>2, <4>3, <4>4, <4>5, <4>6, <5>1, <5>2 DEF QueueInv
      <4>7. CASE reader.got \notin {EOFCount, Failed}
        <5>1. /\ reader'.pc = "wait" /\ reader'.slot = writer.slot
              /\ reader'.completed = reader.completed
          BY <3>4, <4>1, <4>7, Zenon DEF CopyInv, CopyTypeOK
        <5>2. /\ reader.got > 0
              /\ reader.completed = Head0 + shared.sizes[writer.slot] + reader.got
              /\ Holds(buffers[reader.slot], Head0 + shared.sizes[writer.slot], reader.got)
          BY <4>3, <4>4, <4>7 DEF ReaderAt, EOFCount, Failed
        <5> QED
          BY <3>2, <4>1, <4>2, <4>3, <4>4, <4>5, <5>1, <5>2 DEF QueueInv, Full
      <4> QED
        BY <4>6, <4>7
    <3> QED
      BY <3>1, <3>5, <3>6 DEF CopyInv, CopyTypeOK, QueueInv, ReaderPublishes
  <2>4. SequentialInv'
    BY Zenon DEF CopyInv, CopyTypeOK, SequentialInv, ReaderPublishes
  <2> QED
    BY <2>1, <2>2, <2>3, <2>4 DEF CopyInv
<1> QED
  BY <1>1, <1>2, <1>3 DEF ReaderNext

(* What a write() of n more bytes of the buffer does to the counts.           *)
LEMMA RoundFacts ==
  ASSUME NEW count \in Nat, NEW written \in Nat, NEW length \in Nat,
         NEW n \in 1 .. count - written, written <= length
  PROVE  /\ (length + n) - (written + n) = length - written
         /\ written + n <= length + n /\ written + n <= count
         /\ written + n # count => written + n < count
  OBVIOUS

(* The slot the writer has taken holds the next bytes of the source.          *)
LEMMA TakenSlot ==
  ASSUME CopyInv, Live, shared.pending > 0, shared.sizes[writer.slot] > 0
  PROVE  /\ Full(writer.slot, Head0)
         /\ Head0 + shared.sizes[writer.slot] <= file.size
<1>1. /\ Head0 \in Int /\ shared.sizes[writer.slot] \in Int /\ file.size \in Nat
      /\ shared.sizes[Other(writer.slot)] \in Int /\ reader.completed \in Nat
      /\ reader.got \in Int /\ reader.completed <= file.size
      /\ reader.pc \in {"none", "wait", "read", "publish", "gone"}
  BY LenProperties DEF CopyInv, CopyTypeOK, PrefixInv, Head0, Slots, Other
<1>2. shared.pending \in {1, 2} /\ reader.pc # "none"
  BY DEF CopyInv, QueueInv
<1>3. CASE reader.pc = "gone"
  BY <1>1, <1>2, <1>3 DEF CopyInv, QueueInv, EOFCount, Failed
<1>4. CASE reader.pc # "gone" /\ shared.pending = 1
  <2>1. Full(writer.slot, Head0) /\ ReaderAt(Head0 + shared.sizes[writer.slot])
    BY <1>2, <1>4, Zenon DEF CopyInv, QueueInv
  <2> QED
    BY <1>1, <1>2, <1>4, <2>1 DEF ReaderAt, Failed
<1>5. CASE reader.pc # "gone" /\ shared.pending = 2
  BY <1>1, <1>2, <1>5 DEF CopyInv, QueueInv, Full
<1> QED
  BY <1>2, <1>3, <1>4, <1>5

(* A write of n blocks stays within its buffer and within the file.           *)
LEMMA WriteBounds ==
  ASSUME NEW k \in Nat, NEW w \in Nat, NEW c \in Nat, NEW z \in Nat, NEW n \in 1 .. c - w,
         w <= k, k - w + c <= z
  PROVE  n \in Nat /\ w + n \in Nat /\ w + n <= c /\ k + n \in Nat /\ k + n <= z /\ w + n <= k + n
  OBVIOUS

(* What one successful write() of write_storage_buffer leaves.                *)
LEMMA WriteKeepsPrefix ==
  ASSUME CopyInv, NEW n \in 1 .. writer.count - writer.written,
         writer.written <= Len(dest),
         Holds(buffers[writer.slot], Len(dest) - writer.written, writer.count),
         Len(dest) - writer.written + writer.count <= file.size,
         dest' = Appended(dest, buffers[writer.slot], writer.written, n)
  PROVE  /\ dest' \in Seq(Nat) /\ Len(dest') = Len(dest) + n /\ Len(dest') <= file.size
         /\ dest' = Numbered(Len(dest'))
<1>1. /\ writer.count \in Nat /\ writer.written \in Nat /\ Len(dest) \in Nat
      /\ buffers[writer.slot] \in Seq(Nat) /\ file.size \in Nat /\ dest = Numbered(Len(dest))
  BY LenProperties DEF CopyInv, CopyTypeOK, PrefixInv
<1>2. PICK k \in Nat, w \in Nat, c \in Nat, z \in Nat, b \in Seq(Nat) :
        k = Len(dest) /\ w = writer.written /\ c = writer.count /\ z = file.size
        /\ b = buffers[writer.slot]
  BY <1>1, Zenon
<1>3. /\ n \in 1 .. c - w /\ w <= k /\ k - w + c <= z /\ Holds(b, k - w, c)
      /\ dest' = Appended(Numbered(k), b, w, n)
  BY <1>1, <1>2, Zenon
<1>4. n \in Nat /\ w + n <= c /\ k + n \in Nat /\ k + n <= z
  BY <1>3, WriteBounds, Zenon
<1>5. dest' = Numbered(k + n)
  BY <1>3, <1>4, AppendFacts
<1>6. dest' \in Seq(Nat) /\ Len(dest') = k + n
  BY <1>4, <1>5, NumberedFacts, Zenon
<1> QED
  BY <1>2, <1>4, <1>5, <1>6, Zenon

(* A write of the writer extends the prefix from the slot it holds.           *)
LEMMA WriterWritesKeeps == CopyInv /\ WriterWrites => CopyInv'
<1> SUFFICES ASSUME CopyInv, WriterWrites PROVE CopyInv'
  OBVIOUS
<1>1. writer.pc = "write" /\ UNCHANGED <<file, reader, shared, buffers, cancel, outcome>>
  BY Zenon DEF WriterWrites
<1>2. /\ Live /\ shared.pending > 0 /\ shared.sizes[writer.slot] > 0
      /\ writer.count = shared.sizes[writer.slot] /\ writer.written < writer.count
      /\ writer.written <= Len(dest) /\ Head0 = Len(dest) - writer.written
  BY <1>1, Zenon DEF CopyInv, CopyTypeOK, QueueInv, Live, Head0
<1>3. /\ Full(writer.slot, Head0) /\ Head0 + shared.sizes[writer.slot] <= file.size
  BY <1>2, TakenSlot, Zenon
<1>4. CASE /\ writer' = [writer EXCEPT !.pc = "stop", !.status = "failed"]
           /\ UNCHANGED dest
  <2>1. CopyTypeOK'
    BY <1>1, <1>4, Zenon DEF CopyInv, CopyTypeOK
  <2> QED
    BY <1>1, <1>4, <2>1, Zenon
    DEF CopyInv, CopyTypeOK, PrefixInv, QueueInv, SequentialInv, Live, Over
<1>5. CASE \E n \in 1 .. writer.count - writer.written :
          /\ dest' = Appended(dest, buffers[writer.slot], writer.written, n)
          /\ writer' = [writer EXCEPT !.written = @ + n,
                          !.pc = IF writer.written + n = writer.count THEN "release" ELSE @]
  <2>1. PICK n \in 1 .. writer.count - writer.written :
          /\ dest' = Appended(dest, buffers[writer.slot], writer.written, n)
          /\ writer' = [writer EXCEPT !.written = @ + n,
                          !.pc = IF writer.written + n = writer.count THEN "release" ELSE @]
    BY <1>5, Zenon
  <2>2. /\ dest' \in Seq(Nat) /\ Len(dest') = Len(dest) + n /\ Len(dest') <= file.size
        /\ dest' = Numbered(Len(dest'))
    BY <1>2, <1>3, <2>1, WriteKeepsPrefix DEF Full
  <2>3. /\ writer.count \in Nat /\ writer.written \in Nat /\ n \in Nat /\ Len(dest) \in Nat
    BY LenProperties DEF CopyInv, CopyTypeOK
  <2>4. writer' = [pc |-> IF writer.written + n = writer.count THEN "release" ELSE "write",
                   slot |-> writer.slot, count |-> writer.count,
                   written |-> writer.written + n, status |-> writer.status]
    BY <1>1, <2>1, Zenon DEF CopyInv, CopyTypeOK
  <2>5. CopyTypeOK'
    <3>1. writer.written + n \in Nat
      BY <2>3
    <3>2. writer' \in [pc : {"start", "check", "wait", "write", "release", "stop", "join",
                             "finish", "end", "seq", "seqwrite"},
                       slot : Slots, count : Nat, written : Nat, status : {"ok", "failed"}]
      BY <2>4, <3>1, Zenon DEF CopyInv, CopyTypeOK
    <3> QED
      BY <1>1, <2>2, <3>2, Zenon DEF CopyInv, CopyTypeOK
  <2>6. PrefixInv'
    BY <1>1, <2>2, <2>4, Zenon DEF CopyInv, PrefixInv, Over
  <2>7. Head0' = Head0 /\ Live' /\ Head0 \in Int
    BY <1>1, <1>2, <2>2, <2>3, <2>4 DEF Head0, Live
  <2>8. QueueInv'
    <3>1. /\ writer'.slot = writer.slot /\ writer'.count = writer.count
          /\ writer'.written = writer.written + n /\ writer'.written <= Len(dest')
          /\ writer'.pc \in {"write", "release"}
          /\ writer'.pc = "write" => writer'.written < writer.count
          /\ writer'.pc = "release" => writer'.written = writer.count
      <4>1. /\ writer.written + n <= writer.count
            /\ writer.written + n <= Len(dest) + n
            /\ writer.written + n # writer.count => writer.written + n < writer.count
        BY <1>2, <2>3, RoundFacts, Zenon
      <4>2. Len(dest') = Len(dest) + n
        BY <2>2, Zenon
      <4> QED
        BY <2>4, <4>1, <4>2, Zenon
    <3>2. \A s, t : Full(s, t)' <=> Full(s, t)
      BY <1>1 DEF Full
    <3>3. \A t : ReaderAt(t)' <=> ReaderAt(t)
      BY <1>1 DEF ReaderAt
    <3> QED
      BY <1>1, <1>2, <2>7, <3>1, <3>2, <3>3, Zenon DEF CopyInv, QueueInv
  <2>9. SequentialInv'
    BY <2>4 DEF SequentialInv
  <2> QED
    BY <2>5, <2>6, <2>8, <2>9 DEF CopyInv
<1> QED
  BY <1>4, <1>5, Zenon DEF WriterWrites, WriteRound, Appended

(* Start, check, stop, join and finish touch neither buffers nor destination. *)
LEMMA ControlKeeps ==
  CopyInv /\ (StartPipeline \/ StartSequential \/ WriterChecks \/ WriterStops \/ WriterJoins
              \/ FinishFile) => CopyInv'
<1> SUFFICES ASSUME CopyInv, StartPipeline \/ StartSequential \/ WriterChecks \/ WriterStops
                              \/ WriterJoins \/ FinishFile
             PROVE  CopyInv'
  BY Zenon
<1> USE DEF CopyInv
<1>1. CopyTypeOK /\ PrefixInv /\ QueueInv /\ SequentialInv
  BY Zenon
<1>2. CASE StartPipeline
  <2>1. /\ writer' = [writer EXCEPT !.pc = "check"] /\ reader' = [reader EXCEPT !.pc = "wait"]
        /\ writer.pc = "start" /\ UNCHANGED <<file, shared, buffers, dest, cancel, outcome>>
    BY <1>2, Zenon DEF StartPipeline
  <2>2. /\ writer'.pc = "check" /\ writer'.slot = writer.slot /\ writer'.status = writer.status
        /\ reader'.pc = "wait" /\ reader'.slot = writer.slot /\ reader'.completed = 0
        /\ shared.pending = 0 /\ ~shared.stop /\ Len(dest) = 0
    BY <1>1, <2>1, Zenon DEF CopyTypeOK, SequentialInv
  <2>3. CopyTypeOK'
    BY <1>1, <2>1, Zenon DEF CopyTypeOK
  <2>4. PrefixInv' /\ SequentialInv'
    BY <1>1, <2>1, <2>2 DEF PrefixInv, SequentialInv, Over
  <2>5. Head0' = 0
    BY <2>1, <2>2 DEF Head0
  <2>6. QueueInv'
    BY <2>1, <2>2, <2>5 DEF QueueInv, ReaderAt
  <2> QED
    BY <2>3, <2>4, <2>6, Zenon
<1>3. CASE StartSequential
  <2>1. /\ writer' = [writer EXCEPT !.pc = "seq"] /\ writer.pc = "start"
        /\ UNCHANGED <<file, reader, shared, buffers, dest, cancel, outcome>>
    BY <1>3, Zenon DEF StartSequential
  <2>2. writer'.pc = "seq" /\ writer'.status = writer.status
    BY <1>1, <2>1, Zenon DEF CopyTypeOK
  <2>3. CopyTypeOK'
    BY <1>1, <2>1, Zenon DEF CopyTypeOK
  <2>4. PrefixInv' /\ SequentialInv' /\ QueueInv'
    BY <1>1, <2>1, <2>2, Zenon DEF PrefixInv, SequentialInv, QueueInv, Over, Live
  <2> QED
    BY <2>3, <2>4, Zenon
<1>4. CASE WriterChecks /\ cancel
  <2>1. /\ writer' = [writer EXCEPT !.pc = "stop", !.status = "failed"]
        /\ UNCHANGED <<file, reader, shared, buffers, dest, cancel, outcome>>
        /\ writer.pc = "check"
    BY <1>4, Zenon DEF WriterChecks
  <2>2. writer'.pc = "stop" /\ writer'.status = "failed"
    BY <1>1, <2>1, Zenon DEF CopyTypeOK
  <2>3. CopyTypeOK'
    BY <1>1, <2>1, Zenon DEF CopyTypeOK
  <2>4. PrefixInv' /\ SequentialInv' /\ QueueInv'
    BY <1>1, <2>1, <2>2, Zenon DEF PrefixInv, SequentialInv, QueueInv, Over, Live
  <2> QED
    BY <2>3, <2>4, Zenon
<1>5. CASE WriterChecks /\ ~cancel
  <2>1. /\ writer' = [writer EXCEPT !.pc = "wait"]
        /\ UNCHANGED <<file, reader, shared, buffers, dest, cancel, outcome>>
        /\ writer.pc = "check"
    BY <1>5, Zenon DEF WriterChecks, CopyTypeOK
  <2>2. writer'.pc = "wait" /\ writer'.status = writer.status /\ writer'.slot = writer.slot
    BY <1>1, <2>1, Zenon DEF CopyTypeOK
  <2>3. CopyTypeOK'
    BY <1>1, <2>1, Zenon DEF CopyTypeOK
  <2>4. PrefixInv' /\ SequentialInv'
    BY <1>1, <2>1, <2>2, Zenon DEF PrefixInv, SequentialInv, Over
  <2>5. Head0' = Head0 /\ Live
    BY <2>1, <2>2, Zenon DEF Head0, Live
  <2>6. QueueInv'
    BY <1>1, <2>1, <2>2, <2>5, Zenon DEF QueueInv, Full, ReaderAt
  <2> QED
    BY <2>3, <2>4, <2>6, Zenon
<1>6. CASE WriterStops
  <2>1. /\ writer' = [writer EXCEPT !.pc = "join"] /\ writer.pc = "stop"
        /\ shared' = [shared EXCEPT !.stop = TRUE]
        /\ UNCHANGED <<file, reader, buffers, dest, cancel, outcome>>
    BY <1>6, Zenon DEF WriterStops
  <2>2. writer'.pc = "join" /\ writer'.status = writer.status
    BY <1>1, <2>1, Zenon DEF CopyTypeOK
  <2>3. CopyTypeOK'
    BY <1>1, <2>1, Zenon DEF CopyTypeOK
  <2>4. PrefixInv' /\ SequentialInv' /\ QueueInv'
    BY <1>1, <2>1, <2>2, Zenon DEF PrefixInv, SequentialInv, QueueInv, Over, Live
  <2> QED
    BY <2>3, <2>4, Zenon
<1>7. CASE WriterJoins
  <2>1. /\ writer' = [writer EXCEPT !.pc = "finish"] /\ writer.pc = "join"
        /\ UNCHANGED <<file, reader, shared, buffers, dest, cancel, outcome>>
    BY <1>7, Zenon DEF WriterJoins
  <2>2. writer'.pc = "finish" /\ writer'.status = writer.status
    BY <1>1, <2>1, Zenon DEF CopyTypeOK
  <2>3. CopyTypeOK'
    BY <1>1, <2>1, Zenon DEF CopyTypeOK
  <2>4. PrefixInv' /\ SequentialInv' /\ QueueInv'
    BY <1>1, <2>1, <2>2, Zenon DEF PrefixInv, SequentialInv, QueueInv, Over, Live
  <2> QED
    BY <2>3, <2>4, Zenon
<1>8. CASE FinishFile
  <2>1. /\ writer' = [writer EXCEPT !.pc = "end"] /\ writer.pc = "finish"
        /\ outcome' \in {"copied", "failed"}
        /\ UNCHANGED <<file, reader, shared, buffers, dest, cancel>>
    BY <1>8, Zenon DEF FinishFile
  <2>2. writer'.pc = "end" /\ writer'.status = writer.status
    BY <1>1, <2>1, Zenon DEF CopyTypeOK
  <2>3. CopyTypeOK'
    BY <1>1, <2>1, Zenon DEF CopyTypeOK
  <2>4. PrefixInv' /\ SequentialInv' /\ QueueInv'
    BY <1>1, <2>1, <2>2, Zenon DEF PrefixInv, SequentialInv, QueueInv, Over, Live
  <2> QED
    BY <2>3, <2>4, Zenon
<1> QED
  BY <1>2, <1>3, <1>4, <1>5, <1>6, <1>7, <1>8, Zenon

(* The slot the writer takes is the oldest one the reader has filled.         *)
LEMMA WriterTakesSlotKeeps == CopyInv /\ WriterTakesSlot => CopyInv'
<1> SUFFICES ASSUME CopyInv, WriterTakesSlot PROVE CopyInv'
  OBVIOUS
<1>1. /\ writer.pc = "wait" /\ shared.pending > 0 /\ Live
      /\ UNCHANGED <<file, reader, shared, buffers, dest, cancel, outcome>>
      /\ shared.sizes[writer.slot] \in Int /\ Len(dest) \in Nat /\ Head0 = Len(dest)
  BY LenProperties DEF WriterTakesSlot, Live, CopyInv, CopyTypeOK, Head0
<1>2. CASE shared.sizes[writer.slot] = EOFCount
  <2>1. writer' = [writer EXCEPT !.pc = "stop"]
    BY <1>1, <1>2 DEF WriterTakesSlot, EOFCount, Failed
  <2>2. Len(dest) = file.size
    BY <1>1, <1>2 DEF CopyInv, QueueInv, Full, EOFCount, Failed
  <2> QED
    BY <1>1, <2>1, <2>2, Zenon
    DEF CopyInv, CopyTypeOK, PrefixInv, QueueInv, SequentialInv, Live, Over
<1>3. CASE shared.sizes[writer.slot] = Failed
  <2>1. writer' = [writer EXCEPT !.pc = "stop", !.status = "failed"]
    BY <1>1, <1>3 DEF WriterTakesSlot, EOFCount, Failed
  <2> QED
    BY <1>1, <2>1, Zenon DEF CopyInv, CopyTypeOK, PrefixInv, QueueInv, SequentialInv, Live, Over
<1>4. CASE shared.sizes[writer.slot] \notin {EOFCount, Failed}
  <2>1. writer' = [writer EXCEPT !.pc = "write", !.count = shared.sizes[writer.slot],
                                 !.written = 0]
    BY <1>1, <1>4 DEF WriterTakesSlot
  <2>2. shared.sizes[writer.slot] > 0 /\ reader.pc # "none" /\ ~shared.stop
    BY <1>1, <1>4 DEF CopyInv, QueueInv, Full
  <2>3. /\ writer'.pc = "write" /\ writer'.slot = writer.slot
        /\ writer'.count = shared.sizes[writer.slot] /\ writer'.written = 0
        /\ writer'.status = writer.status
    BY <2>1 DEF CopyInv, CopyTypeOK
  <2>4. Head0' = Head0 /\ Live'
    BY <1>1, <2>3, Zenon DEF Head0, Live
  <2>5. QueueInv'
    <3>1. \A s, t : Full(s, t)' <=> Full(s, t)
      BY <1>1, Zenon DEF Full
    <3>2. \A t : ReaderAt(t)' <=> ReaderAt(t)
      BY <1>1 DEF ReaderAt
    <3> QED
      BY <1>1, <2>2, <2>3, <2>4, <3>1, <3>2 DEF CopyInv, QueueInv
  <2>6. CopyTypeOK'
    <3>1. shared.sizes[writer.slot] \in Nat
      BY <1>1, <2>2
    <3> QED
      BY <1>1, <2>1, <3>1, Zenon DEF CopyInv, CopyTypeOK
  <2> QED
    BY <1>1, <2>3, <2>5, <2>6 DEF CopyInv, PrefixInv, SequentialInv, Over
<1> QED
  BY <1>2, <1>3, <1>4

(* The writer gives a slot back only when all of it is written.               *)
LEMMA WriterReleasesKeeps == CopyInv /\ WriterReleases => CopyInv'
<1> SUFFICES ASSUME CopyInv, WriterReleases PROVE CopyInv'
  OBVIOUS
<1>1. /\ writer.pc = "release" /\ Live /\ shared.pending \in {1, 2}
      /\ UNCHANGED <<file, reader, buffers, dest, cancel, outcome>>
      /\ writer.count = shared.sizes[writer.slot] /\ writer.count > 0
      /\ writer.written = writer.count
  BY DEF WriterReleases, Live, CopyInv, CopyTypeOK, QueueInv
<1>2. /\ writer' = [writer EXCEPT !.pc = "check", !.slot = Other(writer.slot)]
      /\ shared' = [shared EXCEPT !.pending = shared.pending - 1]
  BY DEF WriterReleases
<1>3. /\ writer'.pc = "check" /\ writer'.slot = Other(writer.slot) /\ writer'.status = writer.status
      /\ shared'.pending = shared.pending - 1 /\ shared'.sizes = shared.sizes
      /\ shared'.stop = shared.stop
  BY <1>2, Zenon DEF CopyInv, CopyTypeOK
<1>4. /\ Len(dest) \in Nat /\ writer.written \in Nat /\ Head0 = Len(dest) - writer.written
      /\ Head0' = Len(dest) /\ Head0' = Head0 + shared.sizes[writer.slot] /\ Live'
  BY <1>1, <1>3, LenProperties DEF Head0, Live, CopyInv, CopyTypeOK
<1>5. writer.slot \in Slots /\ Other(writer.slot) \in Slots /\ Other(Other(writer.slot)) = writer.slot
  BY DEF CopyInv, CopyTypeOK, Slots, Other
<1>6. \A s, t : Full(s, t)' <=> Full(s, t)
  BY <1>1, <1>3, Zenon DEF Full
<1>7. \A t : ReaderAt(t)' <=> ReaderAt(t)
  BY <1>1 DEF ReaderAt
<1>8. CopyTypeOK'
  <2>1. shared' \in [pending : Int, stop : BOOLEAN, sizes : [Slots -> Int],
                     errors : [Slots -> BOOLEAN]]
    <3>1. shared.pending - 1 \in Int
      BY DEF CopyInv, CopyTypeOK
    <3> QED
      BY <1>2, <3>1, Zenon DEF CopyInv, CopyTypeOK
  <2> QED
    BY <1>1, <1>2, <1>5, <2>1, Zenon DEF CopyInv, CopyTypeOK
<1>9. QueueInv'
  <2>1. CASE shared.pending = 1
    BY <1>1, <1>3, <1>4, <1>5, <1>6, <1>7, <2>1 DEF CopyInv, QueueInv, EOFCount, Failed
  <2>2. CASE shared.pending = 2
    BY <1>1, <1>3, <1>4, <1>5, <1>6, <1>7, <2>2 DEF CopyInv, QueueInv, EOFCount, Failed, ReaderAt
  <2> QED
    BY <1>1, <2>1, <2>2, Zenon
<1> QED
  BY <1>1, <1>3, <1>8, <1>9 DEF CopyInv, PrefixInv, SequentialInv, Over

(* The sequential loop of copy_regular_file reads what follows the bytes it   *)
(* has written, and ends without a failure only at the end of the source.     *)
LEMMA SequentialReadsKeeps == CopyInv /\ SequentialReads => CopyInv'
<1> SUFFICES ASSUME CopyInv, SequentialReads PROVE CopyInv'
  OBVIOUS
<1>1. /\ writer.pc = "seq" /\ UNCHANGED <<file, reader, shared, dest, cancel, outcome>>
      /\ Len(dest) \in Nat /\ writer.slot \in Slots /\ buffers[writer.slot] \in Seq(Nat)
      /\ Len(dest) <= file.size
  BY LenProperties, Zenon DEF SequentialReads, CopyInv, CopyTypeOK, PrefixInv
<1>2. CASE writer' = [writer EXCEPT !.pc = "finish", !.status = "failed"] /\ UNCHANGED buffers
  BY <1>1, <1>2, Zenon DEF CopyInv, CopyTypeOK, PrefixInv, QueueInv, SequentialInv, Live, Over
<1>3. ASSUME NEW count \in ReadResults(Len(dest)),
             writer' = CASE count = EOFCount -> [writer EXCEPT !.pc = "finish"]
                         [] count = Failed -> [writer EXCEPT !.pc = "finish", !.status = "failed"]
                         [] OTHER -> [writer EXCEPT !.pc = "seqwrite", !.count = count,
                                                    !.written = 0],
             buffers' = IF count \in {EOFCount, Failed} THEN buffers
                        ELSE [buffers EXCEPT ![writer.slot] = Filled(@, Len(dest), count)]
      PROVE  CopyInv'
  <2>1. \/ count = Failed
        \/ /\ count \in Nat /\ Len(dest) + count <= file.size
           /\ count = EOFCount => Len(dest) = file.size
    BY <1>1, ReadFacts DEF CopyInv
  <2>2. CASE count = EOFCount
    <3>1. writer' = [writer EXCEPT !.pc = "finish"] /\ UNCHANGED buffers /\ Len(dest) = file.size
      BY <1>3, <2>1, <2>2 DEF EOFCount, Failed
    <3> QED
      BY <1>1, <3>1, Zenon DEF CopyInv, CopyTypeOK, PrefixInv, QueueInv, SequentialInv, Live, Over
  <2>3. CASE count = Failed
    <3>1. /\ writer' = [writer EXCEPT !.pc = "finish", !.status = "failed"]
          /\ UNCHANGED buffers
      BY <1>3, <2>3 DEF EOFCount, Failed
    <3> QED
      BY <1>2, <3>1
  <2>4. CASE count \notin {EOFCount, Failed}
    <3>1. /\ writer' = [writer EXCEPT !.pc = "seqwrite", !.count = count, !.written = 0]
          /\ buffers' = [buffers EXCEPT ![writer.slot] =
                           Filled(buffers[writer.slot], Len(dest), count)]
          /\ count \in Nat /\ count > 0 /\ Len(dest) + count <= file.size
      BY <1>3, <2>1, <2>4 DEF EOFCount
    <3>2. /\ Filled(buffers[writer.slot], Len(dest), count) \in Seq(Nat)
          /\ Holds(Filled(buffers[writer.slot], Len(dest), count), Len(dest), count)
      BY <1>1, <3>1, FilledFacts, Zenon
    <3>3. /\ buffers' \in [Slots -> Seq(Nat)] /\ Holds(buffers'[writer.slot], Len(dest), count)
      BY <1>1, <3>1, <3>2 DEF CopyInv, CopyTypeOK
    <3>4. /\ writer'.pc = "seqwrite" /\ writer'.slot = writer.slot /\ writer'.count = count
          /\ writer'.written = 0 /\ writer'.status = writer.status
      BY <3>1 DEF CopyInv, CopyTypeOK
    <3>5. CopyTypeOK'
      BY <1>1, <3>1, <3>3, Zenon DEF CopyInv, CopyTypeOK
    <3>6. Len(dest) - 0 = Len(dest) /\ Len(dest) - 0 + count <= file.size
      BY <1>1, <3>1
    <3>7. SequentialInv'
      BY <1>1, <3>1, <3>3, <3>4, <3>6 DEF CopyInv, SequentialInv
    <3> QED
      BY <1>1, <3>4, <3>5, <3>7, Zenon DEF CopyInv, PrefixInv, QueueInv, Live, Over
  <2> QED
    BY <2>2, <2>3, <2>4
<1> QED
  BY <1>2, <1>3, Zenon DEF SequentialReads

(* A write of the sequential fallback extends the prefix.                     *)
LEMMA SequentialWritesKeeps == CopyInv /\ SequentialWrites => CopyInv'
<1> SUFFICES ASSUME CopyInv, SequentialWrites PROVE CopyInv'
  OBVIOUS
<1>1. /\ writer.pc = "seqwrite" /\ UNCHANGED <<file, reader, shared, buffers, cancel, outcome>>
      /\ writer.written < writer.count /\ writer.written <= Len(dest)
      /\ Holds(buffers[writer.slot], Len(dest) - writer.written, writer.count)
      /\ Len(dest) - writer.written + writer.count <= file.size
  BY DEF SequentialWrites, CopyInv, SequentialInv
<1>2. CASE /\ writer' = [writer EXCEPT !.pc = "finish", !.status = "failed"]
           /\ UNCHANGED dest
  BY <1>1, <1>2, Zenon DEF CopyInv, CopyTypeOK, PrefixInv, QueueInv, SequentialInv, Live, Over
<1>3. ASSUME NEW n \in 1 .. writer.count - writer.written,
             dest' = Appended(dest, buffers[writer.slot], writer.written, n),
             writer' = [writer EXCEPT !.written = @ + n,
                          !.pc = IF writer.written + n = writer.count THEN "seq" ELSE @]
      PROVE  CopyInv'
  <2>1. /\ dest' \in Seq(Nat) /\ Len(dest') = Len(dest) + n /\ Len(dest') <= file.size
        /\ dest' = Numbered(Len(dest'))
    BY <1>1, <1>3, WriteKeepsPrefix
  <2>2. /\ writer.count \in Nat /\ writer.written \in Nat /\ n \in Nat /\ Len(dest) \in Nat
        /\ file.size \in Nat
    BY LenProperties DEF CopyInv, CopyTypeOK
  <2>3. writer' = [pc |-> IF writer.written + n = writer.count THEN "seq" ELSE "seqwrite",
                   slot |-> writer.slot, count |-> writer.count,
                   written |-> writer.written + n, status |-> writer.status]
    BY <1>1, <1>3, Zenon DEF CopyInv, CopyTypeOK
  <2>4. CopyTypeOK'
    <3>1. writer.written + n \in Nat
      BY <2>2
    <3>2. writer' \in [pc : {"start", "check", "wait", "write", "release", "stop", "join",
                             "finish", "end", "seq", "seqwrite"},
                       slot : Slots, count : Nat, written : Nat, status : {"ok", "failed"}]
      BY <2>3, <3>1 DEF CopyInv, CopyTypeOK
    <3> QED
      BY <1>1, <2>1, <3>2, Zenon DEF CopyInv, CopyTypeOK
  <2>5. PrefixInv'
    BY <1>1, <2>1, <2>3 DEF CopyInv, PrefixInv, Over
  <2>6. /\ (Len(dest) + n) - (writer.written + n) = Len(dest) - writer.written
        /\ writer.written + n <= Len(dest) + n /\ writer.written + n <= writer.count
        /\ writer.written + n # writer.count => writer.written + n < writer.count
    BY <1>1, <2>2, RoundFacts, Zenon
  <2>7. SequentialInv'
    BY <1>1, <2>1, <2>3, <2>6 DEF CopyInv, SequentialInv
  <2>8. QueueInv'
    BY <2>3 DEF QueueInv, Live
  <2> QED
    BY <2>4, <2>5, <2>7, <2>8 DEF CopyInv
<1> QED
  BY <1>2, <1>3, Zenon DEF SequentialWrites, WriteRound, Appended

(* Every step of reader, writer, fallback and caller keeps the invariant.     *)
LEMMA NextCopy == CopyInv /\ [CopyNext]_copyVars => CopyInv'
<1> SUFFICES ASSUME CopyInv, [CopyNext]_copyVars PROVE CopyInv'
  OBVIOUS
<1>1. CASE ReaderNext
  BY <1>1, ReaderKeeps
<1>2. CASE WriterNext
  BY <1>2, ControlKeeps, WriterTakesSlotKeeps, WriterWritesKeeps, WriterReleasesKeeps,
     SequentialReadsKeeps, SequentialWritesKeeps, Zenon DEF WriterNext
<1>3. CASE UNCHANGED <<file, reader, writer, shared, buffers, dest, outcome>>
  <2>1. CopyTypeOK' /\ PrefixInv' /\ SequentialInv'
    BY <1>3, Zenon DEF CopyInv, CopyTypeOK, PrefixInv, SequentialInv, Over
  <2>2. QueueInv'
    BY <1>3, Zenon DEF CopyInv, QueueInv, Live, Head0, Full, ReaderAt
  <2> QED
    BY <2>1, <2>2, Zenon DEF CopyInv
<1> QED
  BY <1>1, <1>2, <1>3 DEF CopyNext, Cancel, Copied, copyVars

(* In every state of a copy: the destination is a prefix of the source, the   *)
(* full buffers hold what follows it in order, and a copy that ended without  *)
(* a failure has written the whole source (storage_read_ahead_thread,         *)
(* copy_file_read_ahead, copy_regular_file).                                  *)
THEOREM CopyInvariance == CopySpec => []CopyInv
<1>1. CopyInit => CopyInv
  BY InitCopy
<1>2. CopyInv /\ [CopyNext]_copyVars => CopyInv'
  BY NextCopy
<1> QED
  BY <1>1, <1>2, PTL DEF CopySpec

(* The reader never fills the buffer the writer is writing from               *)
(* (copy_file_read_ahead's "Keep this slot occupied while writing").          *)
THEOREM BuffersAreNotShared == CopySpec => []BuffersNotShared
<1>1. CopyInv => BuffersNotShared
  BY DEF CopyInv, CopyTypeOK, QueueInv, BuffersNotShared, Live, Slots, Other
<1> QED
  BY <1>1, CopyInvariance, PTL

(* The destination only grows, and only in a write().                         *)
LEMMA DestinationGrows ==
  ASSUME CopyInv, CopyNext, dest' # dest
  PROVE  /\ \E n \in 1 .. file.size - Len(dest) : Len(dest') = Len(dest) + n
         /\ UNCHANGED <<file, outcome>> /\ outcome = "copying"
<1>1. WriterWrites \/ SequentialWrites
  BY Zenon DEF CopyNext, ReaderNext, WriterNext, ReaderTakesSlot, ReaderReads, ReaderPublishes,
         StartPipeline, StartSequential, WriterChecks, WriterTakesSlot, WriterReleases,
         WriterStops, WriterJoins, SequentialReads, FinishFile, Cancel, Copied, copyVars
<1>2. UNCHANGED <<file, outcome>> /\ writer.pc \in {"write", "seqwrite"}
  BY <1>1 DEF WriterWrites, SequentialWrites
<1>3. outcome = "copying"
  BY <1>2, Zenon DEF CopyInv, PrefixInv
<1>4. PICK n \in 1 .. writer.count - writer.written :
        dest' = Appended(dest, buffers[writer.slot], writer.written, n)
  BY <1>1, Zenon DEF WriterWrites, SequentialWrites, WriteRound, Appended
<1>5. /\ writer.written <= Len(dest)
      /\ Holds(buffers[writer.slot], Len(dest) - writer.written, writer.count)
      /\ Len(dest) - writer.written + writer.count <= file.size
  <2>1. CASE writer.pc = "write"
    <3>1. /\ Live /\ shared.pending > 0 /\ shared.sizes[writer.slot] > 0
          /\ writer.count = shared.sizes[writer.slot]
          /\ writer.written <= Len(dest) /\ Head0 = Len(dest) - writer.written
      BY <2>1, Zenon DEF CopyInv, CopyTypeOK, QueueInv, Live, Head0
    <3>2. Full(writer.slot, Head0) /\ Head0 + shared.sizes[writer.slot] <= file.size
      BY <3>1, TakenSlot, Zenon
    <3> QED
      BY <3>1, <3>2, Zenon DEF Full
  <2>2. CASE writer.pc = "seqwrite"
    BY <2>2, Zenon DEF CopyInv, SequentialInv
  <2> QED
    BY <1>2, <2>1, <2>2, Zenon
<1>6. Len(dest') = Len(dest) + n /\ Len(dest') <= file.size
  BY <1>4, <1>5, WriteKeepsPrefix
<1>7. n \in 1 .. file.size - Len(dest)
  <2>1. Len(dest) \in Nat /\ file.size \in Nat /\ writer.count \in Nat /\ writer.written \in Nat
    BY LenProperties DEF CopyInv, CopyTypeOK
  <2>2. Len(dest) + n <= file.size
    BY <1>6, Zenon
  <2> QED
    BY <2>1, <2>2
<1> QED
  BY <1>2, <1>3, <1>6, <1>7

(* Every step of the two threads is a step of the ordered copy or leaves it   *)
(* as it is.                                                                  *)
LEMMA StepImplements ==
  ASSUME CopyInv, CopyInv', [CopyNext]_copyVars
  PROVE  [Abstract!CopyNext]_<<Content, dest, outcome>>
<1>1. /\ Content = Numbered(file.size) /\ Content' = Numbered(file'.size)
      /\ file.size \in Nat /\ Len(dest) \in Nat /\ Len(dest') \in Nat
      /\ dest = Numbered(Len(dest)) /\ dest' = Numbered(Len(dest')) /\ Len(dest') <= file'.size
  BY LenProperties, Zenon DEF Content, Numbered, CopyInv, CopyTypeOK, PrefixInv
<1>2. file' = file
  BY Zenon DEF CopyNext, ReaderNext, WriterNext, ReaderTakesSlot, ReaderReads, ReaderPublishes,
         StartPipeline, StartSequential, WriterChecks, WriterTakesSlot, WriterWrites,
         WriterReleases, WriterStops, WriterJoins, SequentialReads, SequentialWrites,
         FinishFile, Cancel, Copied, copyVars
<1>3. Content' = Content /\ Len(Content) = file.size
  BY <1>1, <1>2, NumberedFacts
<1>4. CASE dest' # dest
  <2>1. CopyNext
    BY <1>4 DEF copyVars
  <2>2. PICK n \in 1 .. file.size - Len(dest) : Len(dest') = Len(dest) + n
    BY <1>4, <2>1, DestinationGrows
  <2>3. outcome' = outcome /\ outcome = "copying"
    BY <1>4, <2>1, DestinationGrows
  <2>4. dest' = SubSeq(Content, 1, Len(dest) + n)
    BY <1>1, <1>2, <2>2, PrefixFacts, Zenon
  <2>5. Abstract!Extend
    BY <1>3, <2>2, <2>3, <2>4, Zenon DEF Abstract!Extend
  <2> QED
    BY <2>5 DEF Abstract!CopyNext
<1>5. CASE dest' = dest /\ outcome' # outcome
  <2>1. FinishFile
    BY <1>5, Zenon DEF CopyNext, ReaderNext, WriterNext, ReaderTakesSlot, ReaderReads,
         ReaderPublishes, StartPipeline, StartSequential, WriterChecks, WriterTakesSlot,
         WriterWrites, WriterReleases, WriterStops, WriterJoins, SequentialReads,
         SequentialWrites, Cancel, Copied, copyVars
  <2>2. outcome = "copying" /\ outcome' \in {"copied", "failed"}
        /\ (outcome' = "copied" => writer.status = "ok" /\ writer.pc = "finish")
    BY <2>1 DEF FinishFile, CopyInv, PrefixInv
  <2>3. CASE outcome' = "copied"
    <3>1. Len(dest) = file.size
      BY <2>2, <2>3 DEF CopyInv, PrefixInv, Over
    <3>2. dest = Content
      BY <1>1, <3>1, Zenon
    <3> QED
      BY <1>3, <1>5, <2>2, <2>3, <3>2, Zenon DEF Abstract!CopyNext, Abstract!Succeed
  <2>4. CASE outcome' = "failed"
    BY <1>3, <1>5, <2>2, <2>4 DEF Abstract!CopyNext, Abstract!Fail
  <2> QED
    BY <2>2, <2>3, <2>4, Zenon
<1> QED
  BY <1>3, <1>4, <1>5, Zenon

(* Whatever the interleaving of the two threads, the sizes of the file and of *)
(* the buffers, the short reads and writes, the failures and the cancellation,*)
(* a copy behaves as one ordered copy that reports success only for the whole *)
(* source.                                                                    *)
THEOREM CopyImplementsBlockCopy == CopySpec => ImplementsBlockCopy
<1>1. CopyInit => Abstract!CopyInit
  <2>1. CopyInit => file.size \in Nat /\ Content = Numbered(file.size)
    BY CopyAssumption DEF CopyInit, Content, Numbered
  <2> QED
    BY <2>1, NumberedFacts, Zenon DEF CopyInit, Abstract!CopyInit
<1>2. CopyInv /\ CopyInv' /\ [CopyNext]_copyVars =>
        [Abstract!CopyNext]_<<Content, dest, outcome>>
  BY StepImplements
<1> QED
  BY <1>1, <1>2, CopyInvariance, PTL DEF CopySpec, ImplementsBlockCopy, Abstract!CopySpec
=============================================================================
