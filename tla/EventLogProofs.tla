--------------------------- MODULE EventLogProofs ---------------------------
(***************************************************************************)
(* Machine-checked proofs about EventLog with one instance over the file,  *)
(* for any number of events, reads, I/O errors, failed rollbacks and       *)
(* crashes.                                                                *)
(***************************************************************************)
EXTENDS EventLog, SequenceTheorems, WellFoundedInduction, TLAPS

\* One JsonlEventLog instance over the file, as every session has but during a rebuild.
\* The theorems need it: two instances overwrite each other's lines.
W == CHOOSE w \in Writers : TRUE
OneWriter == Writers = {W}

Cells == [event : Events, part : {1, 2}]
LogTypeOK ==
    /\ bytes \in Seq(Cells) /\ disk \in Seq(Cells)
    /\ instance \in [Writers -> {"closed", "opening", "open", "refused"}]
    /\ tail \in [Writers -> Seq(Operations)]
    /\ pc \in [Writers -> {"ready", "truncating", "writing", "rollback"}]
    /\ at \in [Writers -> Nat] /\ put \in [Writers -> {0, 1, 2}]
    /\ told \in [Events -> {"none", "stored", "failed", "lost"}]
    /\ stored \in Seq(Events) /\ badRollbacks \in Nat

\* An append is between its stat and its end.
Writing == pc[W] \in {"writing", "rollback"}

\* The chain: its head is what pc says, and no queued append has been answered.
ChainInv ==
    /\ pc[W] = "truncating" => Running(W, "read")
    /\ Writing => Running(W, "append")
    /\ \A i \in DOMAIN tail[W] : tail[W][i].op = "append" => told[tail[W][i].event] = "none"
    /\ \A i, j \in DOMAIN tail[W] :
         tail[W][i].op = "append" /\ tail[W][i] = tail[W][j] => i = j

\* The file: what is synced is its beginning, every line is there once and begins before
\* it ends, and the line being written is its end.
FileInv ==
    /\ Len(disk) <= Len(bytes) /\ \A i \in DOMAIN disk : disk[i] = bytes[i]
    /\ \A i, j \in DOMAIN bytes : bytes[i] = bytes[j] => i = j
    /\ \A i \in DOMAIN bytes : bytes[i].part = 2 =>
         i - 1 \in DOMAIN bytes /\ bytes[i - 1] = Cell(bytes[i].event, 1)
    /\ Writing => /\ Len(disk) <= at[W] /\ Len(bytes) = at[W] + put[W]
                  /\ \A i \in DOMAIN bytes : i > at[W] => bytes[i] = Cell(Current(W).event, i - at[W])
    /\ \A i \in DOMAIN bytes : told[bytes[i].event] = "none" => Writing /\ i > at[W]
    /\ pc[W] = "truncating" => at[W] = CleanByteLength(bytes)

\* The ends of the lines of resolved appends are synced, in the order of stored.
StoredInv ==
    /\ \A i \in DOMAIN stored : /\ told[stored[i]] = "stored"
                                /\ \E n \in DOMAIN disk : bytes[n] = Cell(stored[i], 2)
    /\ \A i, j \in DOMAIN stored : \A m, n \in DOMAIN bytes :
         i < j /\ bytes[m] = Cell(stored[i], 2) /\ bytes[n] = Cell(stored[j], 2) => m < n

\* As long as every rollback succeeded the file is whole lines, but for the one being
\* written or one cut off by a crash, which is gone before the instance is open.
Alternating(f) == \A i \in DOMAIN f : f[i].part = IF i % 2 = 1 THEN 1 ELSE 2
Paired(f) == \A i \in DOMAIN f : f[i].part = 2 => /\ i - 1 \in DOMAIN f
                                                   /\ f[i - 1] = Cell(f[i].event, 1)
CleanFile ==
    /\ Alternating(bytes)
    /\ Writing => Len(disk) = at[W] /\ at[W] % 2 = 0
    /\ ~Writing => bytes = disk
    /\ (\E i \in DOMAIN tail[W] : tail[W][i].op = "append") => instance[W] = "open"
    /\ instance[W] = "open" /\ ~Writing => Len(bytes) % 2 = 0

Base == LogTypeOK /\ ChainInv /\ FileInv /\ StoredInv
LogInv == Base /\ (badRollbacks = 0 => CleanFile)

-----------------------------------------------------------------------------
\* Halves of natural numbers.
LEMMA Halves ==
    /\ \A x \in Nat : x % 2 \in {0, 1} /\ x \div 2 \in Nat
    /\ \A x \in Nat : x = 2 * (x \div 2) + (x % 2)
    /\ \A x \in Nat : x % 2 = 0 => (x + 1) % 2 = 1 /\ (x + 2) % 2 = 0
    /\ \A x \in Nat : x % 2 = 0 => (x + 1) \div 2 = x \div 2 /\ (x + 2) \div 2 = x \div 2 + 1
    /\ \A x \in Nat : x % 2 = 1 => x # 0 /\ (x - 1) % 2 = 0 /\ (x - 1) \div 2 = x \div 2
    /\ \A x, i \in Nat : 2 * i <= x <=> i <= x \div 2
    /\ \A i \in Nat : (2 * i) % 2 = 0 /\ (2 * i) \div 2 = i
OBVIOUS

\* A set of natural numbers that is not empty has a least element.
LEMMA LeastNat ==
    ASSUME NEW T \in SUBSET Nat, T # {}
    PROVE  \E x \in T : \A y \in T : x <= y
<1> DEFINE R == OpToRel(<, Nat)
<1>1. \A x, y \in Nat : x < y => <<x, y>> \in R
  BY DEF OpToRel
<1>2. IsWellFoundedOn(R, Nat)
  BY NatLessThanWellFounded
<1> HIDE DEF R
<1>3. PICK x \in T : \A y \in T : ~(<<y, x>> \in R)
  BY <1>2, WFMin
<1>4. \A y \in T : ~(y < x)
  BY <1>1, <1>3
<1>5. \A y \in T : x <= y
  BY <1>4
<1> QED
  BY <1>5

\* The first n cells of a file.
LEMMA CutFacts ==
    ASSUME NEW f \in Seq(Cells), NEW n \in 0..Len(f)
    PROVE  /\ SubSeq(f, 1, n) \in Seq(Cells) /\ Len(SubSeq(f, 1, n)) = n
           /\ DOMAIN SubSeq(f, 1, n) = 1..n /\ DOMAIN f = 1..Len(f) /\ Len(f) \in Nat /\ n \in Nat
           /\ \A i \in 1..n : SubSeq(f, 1, n)[i] = f[i] /\ i \in DOMAIN f
           /\ Truncated(f, n) = SubSeq(f, 1, n)
<1>1. Len(f) \in Nat /\ DOMAIN f = 1..Len(f) /\ n \in Nat /\ n <= Len(f)
  BY LenProperties
<1>2. \A i \in 1..n : i \in 1..Len(f)
  BY <1>1
<1>3. \A i \in 1..n : f[i] \in Cells
  BY <1>1, <1>2, ElementOfSeq
<1>4. SubSeq(f, 1, n) = [i \in 1..n |-> f[i]]
  BY <1>1 
<1>5. [i \in 1..n |-> f[i]] \in Seq(Cells)
  BY <1>1, <1>3, IsASeq
<1>6. Len(SubSeq(f, 1, n)) = n /\ DOMAIN SubSeq(f, 1, n) = 1..n
  BY <1>1, <1>4, <1>5, LenProperties
<1>7. Truncated(f, n) = SubSeq(f, 1, n)
  BY <1>1 DEF Truncated
<1> QED
  BY <1>1, <1>2, <1>4, <1>5, <1>6, <1>7

\* A cell written at the end of the file.
LEMMA WriteFacts ==
    ASSUME NEW f \in Seq(Cells), NEW c \in Cells, NEW g, g = WrittenAt(f, Len(f), c)
    PROVE  /\ g \in Seq(Cells) /\ Len(g) = Len(f) + 1 /\ Len(f) \in Nat
           /\ DOMAIN g = 1..(Len(f) + 1) /\ DOMAIN f = 1..Len(f)
           /\ g[Len(f) + 1] = c /\ \A i \in DOMAIN f : g[i] = f[i]
<1>1. Len(f) \in Nat /\ DOMAIN f = 1..Len(f) /\ Len(f) \in 0..Len(f)
  BY LenProperties
<1> DEFINE h == SubSeq(f, 1, Len(f))
<1>2. Truncated(f, Len(f)) = h /\ h \in Seq(Cells) /\ Len(h) = Len(f) /\ \A i \in 1..Len(f) : h[i] = f[i]
  BY <1>1, CutFacts
<1>3. g = h \o <<c>>
  BY <1>1, <1>2 DEF WrittenAt
<1> HIDE DEF h
<1>4. <<c>> \in Seq(Cells) /\ Len(<<c>>) = 1 /\ <<c>>[1] = c
  OBVIOUS
<1>5. /\ h \o <<c>> \in Seq(Cells) /\ Len(h \o <<c>>) = Len(f) + 1
      /\ \A i \in 1..(Len(f) + 1) : (h \o <<c>>)[i] = IF i <= Len(f) THEN h[i] ELSE c
  BY <1>1, <1>2, <1>4, ConcatProperties
<1> QED
  BY <1>1, <1>2, <1>3, <1>5, LenProperties

\* decodeEventLogBytes takes the file up to its last newline.
LEMMA CleanFacts ==
    ASSUME NEW f \in Seq(Cells), NEW n, n = CleanByteLength(f)
    PROVE  /\ n \in 0..Len(f) /\ n \in Nat /\ Len(f) \in Nat /\ DOMAIN f = 1..Len(f)
           /\ n = 0 \/ f[n].part = 2
           /\ \A i \in DOMAIN f : f[i].part = 2 => i <= n
<1>1. Len(f) \in Nat /\ DOMAIN f = 1..Len(f)
  BY LenProperties
<1> DEFINE Is(k) == (k = 0 \/ f[k].part = 2) /\ \A i \in (k + 1)..Len(f) : f[i].part # 2
           T == {k \in Nat : k <= Len(f) /\ \A i \in (k + 1)..Len(f) : f[i].part # 2}
<1>2. Len(f) \in T
  BY <1>1
<1>3. T \in SUBSET Nat /\ T # {}
  BY <1>2
<1>4. PICK x \in T : \A y \in T : x <= y
  BY <1>3, LeastNat
<1>5. x = 0 \/ f[x].part = 2
  <2> SUFFICES ASSUME x # 0, f[x].part # 2 PROVE FALSE
    OBVIOUS
  <2>1. x - 1 \in Nat /\ x - 1 <= Len(f) /\ \A i \in (x - 1 + 1)..Len(f) : i = x \/ i \in (x + 1)..Len(f)
    BY <1>1
  <2>2. x - 1 \in T
    BY <2>1
  <2> QED
    BY <1>4, <2>2
<1>6. x \in 0..Len(f) /\ Is(x)
  BY <1>1, <1>5
<1>7. n \in 0..Len(f) /\ Is(n)
  <2>1. n = CHOOSE k \in 0..Len(f) : Is(k)
    BY DEF CleanByteLength
  <2> HIDE DEF Is
  <2> QED
    BY <1>6, <2>1
<1> QED
  BY <1>1, <1>7

-----------------------------------------------------------------------------
\* A cell is its event and its part.
LEMMA CellFacts ==
    /\ \A e, k : Cell(e, k).event = e /\ Cell(e, k).part = k
    /\ \A c \in Cells : /\ c = Cell(c.event, c.part) /\ c.event \in Events
                        /\ c.part \in {1, 2}
    /\ \A e \in Events : \A k \in {1, 2} : Cell(e, k) \in Cells
BY DEF Cell, Cells

\* A crash leaves the file up to some cell after the synced ones.
LEMMA CrashFacts ==
    ASSUME LogTypeOK, FileInv, NEW f \in CrashOutcomes
    PROVE  \E n \in 0..Len(bytes) : Len(disk) <= n /\ f = SubSeq(bytes, 1, n)
<1>1. /\ bytes \in Seq(Cells) /\ disk \in Seq(Cells) /\ Len(bytes) \in Nat /\ Len(disk) \in Nat
      /\ DOMAIN disk = 1..Len(disk) /\ Len(disk) <= Len(bytes)
      /\ \A i \in DOMAIN disk : disk[i] = bytes[i]
  BY LenProperties DEF LogTypeOK, FileInv
<1>2. CASE f = disk
  <2>1. Len(disk) \in 0..Len(bytes)
    BY <1>1
  <2> DEFINE g == SubSeq(bytes, 1, Len(disk))
  <2>2. g \in Seq(Cells) /\ Len(g) = Len(disk) /\ \A i \in 1..Len(disk) : g[i] = bytes[i]
    BY <1>1, <2>1, CutFacts
  <2> HIDE DEF g
  <2>3. disk = g
    BY <1>1, <2>2, SeqEqual
  <2>4. \A k : k <= k \/ k \notin Nat
    OBVIOUS
  <2> QED
    BY <1>1, <1>2, <2>1, <2>3, <2>4, Zenon DEF g
<1>3. CASE f = bytes
  <2>1. Len(bytes) \in 0..Len(bytes)
    BY <1>1
  <2>2. bytes = SubSeq(bytes, 1, Len(bytes))
    BY <1>1, SubSeqFull
  <2> QED
    BY <1>1, <1>3, <2>1, <2>2
<1>4. ASSUME NEW n \in 0..Len(bytes), f = SubSeq(bytes, 1, n), IsPrefixOf(disk, f)
      PROVE  Len(disk) <= n
  BY <1>1, <1>4, CutFacts DEF IsPrefixOf
<1> QED
  BY <1>2, <1>3, <1>4 DEF CrashOutcomes

\* The events a reader finds are those of the even cells before the last newline.
LEMMA DecodedFacts ==
    ASSUME NEW f \in Seq(Cells), Decodable(f), NEW c, c = CleanByteLength(f)
    PROVE  /\ c \in 0..Len(f) /\ c \in Nat /\ DOMAIN Decoded(f) = 1..(c \div 2) /\ c \div 2 \in Nat
           /\ \A m \in DOMAIN Decoded(f) : /\ m \in Nat /\ m >= 1 /\ 2 * m <= c /\ 2 * m \in 1..c
                                           /\ Decoded(f)[m] = f[2 * m].event
           /\ \A m \in Nat : m >= 1 /\ 2 * m <= c => m \in DOMAIN Decoded(f)
<1>1. c \in Nat /\ c \in 0..Len(f) /\ c \div 2 \in Nat
  BY CleanFacts, Halves
<1>2. Decoded(f) = [i \in 1..(c \div 2) |-> f[2 * i].event]
  BY DEF Decoded
<1>3. \A m \in 1..(c \div 2) : m \in Nat /\ m >= 1 /\ 2 * m <= c /\ 2 * m \in 1..c
  BY <1>1
<1>4. \A m \in Nat : m >= 1 /\ 2 * m <= c => m \in 1..(c \div 2)
  BY <1>1
<1> QED
  BY <1>1, <1>2, <1>3, <1>4

\* Where a reader finds the event of a resolved append: once, at the even cell of its line.
LEMMA Position ==
    ASSUME LogTypeOK, FileInv, StoredInv, NEW f \in CrashOutcomes, Decodable(f),
           NEW i \in DOMAIN stored
    PROVE  \E p \in DOMAIN disk :
             /\ p \in DOMAIN bytes /\ bytes[p] = Cell(stored[i], 2)
             /\ p - 1 \in DOMAIN bytes /\ bytes[p - 1] = Cell(stored[i], 1)
             /\ p \div 2 \in DOMAIN Decoded(f)
             /\ \A m \in DOMAIN Decoded(f) : Decoded(f)[m] = stored[i] <=> m = p \div 2
<1>1. PICK n \in 0..Len(bytes) : Len(disk) <= n /\ f = SubSeq(bytes, 1, n)
  BY CrashFacts
<1>2. /\ bytes \in Seq(Cells) /\ disk \in Seq(Cells) /\ Len(disk) \in Nat /\ DOMAIN disk = 1..Len(disk)
  BY LenProperties DEF LogTypeOK
<1>3. /\ f \in Seq(Cells) /\ Len(f) = n /\ n \in Nat /\ DOMAIN f = 1..n
      /\ \A x \in 1..n : f[x] = bytes[x] /\ x \in DOMAIN bytes
      /\ DOMAIN bytes = 1..Len(bytes) /\ Len(bytes) \in Nat
  BY <1>1, <1>2, CutFacts
<1>4. PICK p \in DOMAIN disk : bytes[p] = Cell(stored[i], 2)
  BY DEF StoredInv
<1>5. p \in 1..n /\ p \in DOMAIN bytes
  BY <1>1, <1>2, <1>3
<1>6. p - 1 \in DOMAIN bytes /\ bytes[p - 1] = Cell(stored[i], 1)
  BY <1>4, <1>5, CellFacts DEF FileInv
<1>7. \A x \in DOMAIN bytes : bytes[x].event = stored[i] <=> x \in {p - 1, p}
  <2> SUFFICES ASSUME NEW x \in DOMAIN bytes
               PROVE  bytes[x].event = stored[i] <=> x \in {p - 1, p}
    OBVIOUS
  <2>1. bytes[x] \in Cells
    BY <1>2, <1>3, ElementOfSeq
  <2>2. bytes[x].event = stored[i] => bytes[x] = Cell(stored[i], 1) \/ bytes[x] = Cell(stored[i], 2)
    BY <2>1, CellFacts
  <2>3. bytes[x].event = stored[i] => bytes[x] = bytes[p - 1] \/ bytes[x] = bytes[p]
    BY <1>4, <1>6, <2>2
  <2>4. bytes[x].event = stored[i] => x \in {p - 1, p}
    BY <1>5, <1>6, <2>3 DEF FileInv
  <2>5. x \in {p - 1, p} => bytes[x].event = stored[i]
    BY <1>4, <1>6, CellFacts
  <2> QED
    BY <2>4, <2>5
<1> DEFINE c == CleanByteLength(f)
<1>8. c \in Nat /\ c <= n /\ p <= c
  <2>1. f[p].part = 2
    BY <1>3, <1>4, <1>5, CellFacts
  <2> QED
    BY <1>3, <1>5, <2>1, CleanFacts
<1>9. /\ \A m \in DOMAIN Decoded(f) : /\ m \in Nat /\ m >= 1 /\ 2 * m <= c /\ 2 * m \in 1..c
                                      /\ Decoded(f)[m] = f[2 * m].event
      /\ \A m \in Nat : m >= 1 /\ 2 * m <= c => m \in DOMAIN Decoded(f)
  BY <1>3, DecodedFacts
<1> HIDE DEF c
<1>10. p \in Nat /\ p >= 2
  BY <1>3, <1>5, <1>6
<1>11. p \div 2 \in Nat /\ p \div 2 >= 1 /\ 2 * (p \div 2) <= c
  BY <1>8, <1>10
<1>12. ASSUME NEW m \in DOMAIN Decoded(f)
       PROVE  Decoded(f)[m] = stored[i] <=> m = p \div 2
  <2>1. m \in Nat /\ 2 * m \in 1..c /\ Decoded(f)[m] = f[2 * m].event
    BY <1>9
  <2>2. 2 * m \in 1..n
    BY <1>3, <1>8, <2>1
  <2>3. Decoded(f)[m] = stored[i] <=> 2 * m \in {p - 1, p}
    BY <1>3, <1>7, <2>1, <2>2
  <2>4. 2 * m \in {p - 1, p} <=> m = p \div 2
    BY <1>10, <2>1
  <2> QED
    BY <2>3, <2>4
<1> QED
  BY <1>4, <1>5, <1>6, <1>9, <1>11, <1>12

\* The invariant says of what a reader gets after a crash what StoredSurvives asks.
LEMMA Survival ==
    ASSUME LogTypeOK, FileInv, StoredInv, badRollbacks = 0 => Readable
    PROVE  StoredSurvives
<1> SUFFICES ASSUME NEW f \in CrashOutcomes, Decodable(f)
             PROVE  /\ \A i \in DOMAIN stored : \E n \in DOMAIN Decoded(f) :
                         \A m \in DOMAIN Decoded(f) : Decoded(f)[m] = stored[i] <=> m = n
                    /\ \A i, j \in DOMAIN stored : \A m, n \in DOMAIN Decoded(f) :
                         i < j /\ Decoded(f)[m] = stored[i] /\ Decoded(f)[n] = stored[j] => m < n
  BY DEF StoredSurvives
<1>1. \A i \in DOMAIN stored : \E n \in DOMAIN Decoded(f) :
        \A m \in DOMAIN Decoded(f) : Decoded(f)[m] = stored[i] <=> m = n
  BY Position
<1>2. ASSUME NEW i \in DOMAIN stored, NEW j \in DOMAIN stored,
             NEW m \in DOMAIN Decoded(f), NEW n \in DOMAIN Decoded(f),
             i < j, Decoded(f)[m] = stored[i], Decoded(f)[n] = stored[j]
      PROVE  m < n
  <2>1. PICK p \in DOMAIN disk : /\ p \in DOMAIN bytes /\ bytes[p] = Cell(stored[i], 2) /\ m = p \div 2
    BY <1>2, Position
  <2>2. PICK q \in DOMAIN disk : /\ q \in DOMAIN bytes /\ bytes[q] = Cell(stored[j], 2) /\ n = q \div 2
                                 /\ q - 1 \in DOMAIN bytes /\ bytes[q - 1] = Cell(stored[j], 1)
    BY <1>2, Position
  <2>3. p < q
    BY <1>2, <2>1, <2>2 DEF StoredInv
  <2>4. p # q - 1
    <3>1. bytes[p].part = 2 /\ bytes[q - 1].part = 1
      BY <2>1, <2>2, CellFacts
    <3> QED
      BY <3>1
  <2>5. p \in Nat /\ q \in Nat
    BY LenProperties DEF LogTypeOK
  <2>6. \A x, y \in Nat : x < y /\ x # y - 1 => x \div 2 < y \div 2
    OBVIOUS
  <2> QED
    BY <2>1, <2>2, <2>3, <2>4, <2>5, <2>6
<1> QED
  BY <1>1, <1>2

-----------------------------------------------------------------------------
\* The queue of operations: its head, its tail and one more at its end.
LEMMA QueueFacts ==
    ASSUME NEW q \in Seq(Operations), NEW op \in Operations
    PROVE  /\ Len(q) \in Nat /\ DOMAIN q = 1..Len(q) /\ \A i \in DOMAIN q : q[i] \in Operations
           /\ Append(q, op) \in Seq(Operations) /\ DOMAIN Append(q, op) = 1..(Len(q) + 1)
           /\ Append(q, op)[Len(q) + 1] = op /\ \A i \in 1..Len(q) : Append(q, op)[i] = q[i]
           /\ q # <<>> => /\ 1 \in DOMAIN q /\ Head(q) = q[1] /\ Append(q, op)[1] = q[1]
                          /\ Tail(q) \in Seq(Operations) /\ DOMAIN Tail(q) = 1..(Len(q) - 1)
                          /\ \A i \in 1..(Len(q) - 1) : Tail(q)[i] = q[i + 1]
           /\ Append(q, op) # <<>> /\ Head(Append(q, op)) = Append(q, op)[1]
<1>1. Len(q) \in Nat /\ DOMAIN q = 1..Len(q) /\ \A i \in DOMAIN q : q[i] \in Operations
  BY LenProperties, ElementOfSeq
<1>2. /\ Append(q, op) \in Seq(Operations) /\ Len(Append(q, op)) = Len(q) + 1
      /\ Append(q, op)[Len(q) + 1] = op /\ \A i \in 1..Len(q) : Append(q, op)[i] = q[i]
  BY AppendProperties
<1>3. DOMAIN Append(q, op) = 1..(Len(q) + 1)
  BY <1>2, LenProperties
<1>4. ASSUME q # <<>>
      PROVE  /\ 1 \in DOMAIN q /\ Head(q) = q[1] /\ Append(q, op)[1] = q[1]
             /\ Tail(q) \in Seq(Operations) /\ DOMAIN Tail(q) = 1..(Len(q) - 1)
             /\ \A i \in 1..(Len(q) - 1) : Tail(q)[i] = q[i + 1]
  <2>1. Len(q) # 0
    BY <1>4, EmptySeq
  <2>2. 1 \in DOMAIN q /\ 1 \in 1..Len(q)
    BY <1>1, <2>1
  <2>3. /\ Tail(q) \in Seq(Operations) /\ Len(Tail(q)) = Len(q) - 1 /\ Head(q) = q[1]
        /\ \A i \in 1..Len(Tail(q)) : Tail(q)[i] = q[i + 1]
    BY <1>4, HeadTailProperties
  <2>4. DOMAIN Tail(q) = 1..(Len(q) - 1)
    BY <2>3, LenProperties
  <2> QED
    BY <1>2, <2>2, <2>3, <2>4
<1>5. Append(q, op) # <<>>
  <2>1. Len(q) + 1 # 0
    BY <1>1
  <2> QED
    BY <1>2, <2>1, EmptySeq
<1>6. Head(Append(q, op)) = Append(q, op)[1]
  BY <1>2, <1>5, HeadTailProperties
<1> QED
  BY <1>1, <1>2, <1>3, <1>4, <1>5, <1>6

\* The operation at the head of the chain.
LEMMA HeadFacts ==
    ASSUME OneWriter, LogTypeOK
    PROVE  /\ W \in Writers /\ tail[W] \in Seq(Operations)
           /\ tail[W] # <<>> => /\ 1 \in DOMAIN tail[W] /\ Current(W) = tail[W][1]
                                /\ Current(W) \in Operations
           /\ \A i \in DOMAIN tail[W] : tail[W][i].op = "append" => tail[W][i].event \in Events
           /\ \A i \in DOMAIN tail[W] : tail[W][i].event \in Events => tail[W][i].op = "append"
           /\ [op |-> "read", event |-> NoEvent] \in Operations
           /\ \A e \in Events : [op |-> "append", event |-> e] \in Operations
           /\ \A i, j \in DOMAIN tail[W] :
                tail[W][i].op = "append" /\ tail[W][j].op = "append"
                  /\ tail[W][i].event = tail[W][j].event => tail[W][i] = tail[W][j]
<1>1. W \in Writers
  BY DEF OneWriter
<1>2. tail[W] \in Seq(Operations)
  BY <1>1 DEF LogTypeOK
<1>3. /\ [op |-> "read", event |-> NoEvent] \in Operations
      /\ \A e \in Events : [op |-> "append", event |-> e] \in Operations
  BY DEF Operations
<1>4. /\ \A i \in DOMAIN tail[W] : tail[W][i] \in Operations
      /\ tail[W] # <<>> => 1 \in DOMAIN tail[W] /\ Head(tail[W]) = tail[W][1]
  BY <1>2, <1>3, QueueFacts
<1>5. \A o \in Operations : /\ o.op = "append" => o.event \in Events
                            /\ o.event \in Events => o.op = "append"
  BY LogAssumption DEF Operations
<1>6. \A o, u \in Operations : o.op = "append" /\ u.op = "append" /\ o.event = u.event => o = u
  BY DEF Operations
<1>7. tail[W] # <<>> => /\ 1 \in DOMAIN tail[W] /\ Current(W) = tail[W][1]
                        /\ Current(W) \in Operations
  BY <1>4, Zenon DEF Current
<1>8. /\ \A i \in DOMAIN tail[W] : tail[W][i].op = "append" => tail[W][i].event \in Events
      /\ \A i \in DOMAIN tail[W] : tail[W][i].event \in Events => tail[W][i].op = "append"
  BY <1>4, <1>5, Zenon
<1>9. \A i, j \in DOMAIN tail[W] :
        tail[W][i].op = "append" /\ tail[W][j].op = "append"
          /\ tail[W][i].event = tail[W][j].event => tail[W][i] = tail[W][j]
  BY <1>4, <1>6, Zenon
<1> QED
  BY <1>1, <1>2, <1>3, <1>7, <1>8, <1>9, Zenon

\* enqueue() puts an operation at the end of the chain.
LEMMA ChainEnqueue ==
    ASSUME OneWriter, LogTypeOK, ChainInv, NEW o \in Operations, Enqueue(W, o),
           pc' = pc, told' = told,
           o.op = "append" => /\ told[o.event] = "none"
                              /\ \A i \in DOMAIN tail[W] : tail[W][i].event # o.event
    PROVE  /\ ChainInv' /\ tail' \in [Writers -> Seq(Operations)]
           /\ tail[W] # <<>> => Current(W)' = Current(W)
<1> DEFINE q == tail[W]
           r == tail'[W]
<1>1. W \in Writers /\ q \in Seq(Operations) /\ tail \in [Writers -> Seq(Operations)]
  BY HeadFacts DEF LogTypeOK
<1>2. r = Append(q, o)
  BY <1>1 DEF Enqueue
<1>3. /\ Append(q, o) \in Seq(Operations)
      /\ DOMAIN Append(q, o) = 1..(Len(q) + 1) /\ Len(q) \in Nat /\ DOMAIN q = 1..Len(q)
      /\ Append(q, o)[Len(q) + 1] = o /\ \A i \in 1..Len(q) : Append(q, o)[i] = q[i]
      /\ q # <<>> => Head(q) = q[1] /\ Append(q, o)[1] = q[1]
      /\ Append(q, o) # <<>> /\ Head(Append(q, o)) = Append(q, o)[1]
  BY <1>1, QueueFacts
<1>4. tail' \in [Writers -> Seq(Operations)]
  BY <1>1, <1>3 DEF Enqueue
<1> HIDE DEF q, r
<1>5. /\ \A i \in DOMAIN r : (i \in DOMAIN q /\ r[i] = q[i]) \/ (i = Len(q) + 1 /\ r[i] = o)
      /\ q # <<>> => Head(r) = Head(q)
      /\ r # <<>>
  <2>1. \A i \in DOMAIN r : i \in DOMAIN q \/ i = Len(q) + 1
    BY <1>2, <1>3
  <2>2. \A i \in DOMAIN r : (i \in DOMAIN q /\ r[i] = q[i]) \/ (i = Len(q) + 1 /\ r[i] = o)
    <3>1. (\A i \in DOMAIN q : r[i] = q[i]) /\ r[Len(q) + 1] = o
      BY <1>2, <1>3, Zenon
    <3> QED
      BY <2>1, <3>1, Zenon
  <2>3. (q # <<>> => Head(r) = Head(q)) /\ r # <<>>
    BY <1>2, <1>3, Zenon
  <2> QED
    BY <2>2, <2>3
<1>6. tail[W] # <<>> => Current(W)' = Current(W)
  BY <1>5 DEF Current, q, r
<1>7. /\ pc[W] = "truncating" => Running(W, "read")'
      /\ Writing => Running(W, "append")'
  BY <1>5, <1>6 DEF ChainInv, Running, q, r
<1>8. \A i \in DOMAIN r : r[i].op = "append" => told[r[i].event] = "none"
  <2>1. \A i \in DOMAIN q : q[i].op = "append" => told[q[i].event] = "none"
    BY DEF ChainInv, q
  <2> QED
    BY <1>5, <2>1
<1>9. \A i, j \in DOMAIN r : r[i].op = "append" /\ r[i] = r[j] => i = j
  <2>1. \A i, j \in DOMAIN q : q[i].op = "append" /\ q[i] = q[j] => i = j
    BY DEF ChainInv, q
  <2>2. o.op = "append" => \A i \in DOMAIN q : q[i] # o
    BY DEF q
  <2> QED
    BY <1>5, <2>1, <2>2
<1> QED
  BY <1>4, <1>6, <1>7, <1>8, <1>9 DEF ChainInv, Writing, r

\* The operation at the head of the chain settles.
LEMMA ChainSettle ==
    ASSUME OneWriter, LogTypeOK, ChainInv, tail[W] # <<>>, Settled(W),
           \A i \in DOMAIN tail[W] :
             tail[W][i].op = "append" /\ told'[tail[W][i].event] # told[tail[W][i].event] => i = 1
    PROVE  /\ ChainInv' /\ tail' \in [Writers -> Seq(Operations)] /\ pc'[W] = "ready" /\ ~Writing'
           /\ pc' \in [Writers -> {"ready", "truncating", "writing", "rollback"}]
           /\ \A i \in DOMAIN tail'[W] : \E j \in DOMAIN tail[W] : tail'[W][i] = tail[W][j]
<1> DEFINE q == tail[W]
           r == tail'[W]
<1>1. W \in Writers /\ q \in Seq(Operations) /\ tail \in [Writers -> Seq(Operations)]
  BY HeadFacts DEF LogTypeOK
<1>2. r = Tail(q) /\ pc'[W] = "ready" /\ pc' \in [Writers -> {"ready", "truncating", "writing", "rollback"}]
  BY <1>1 DEF Settled, Goto, LogTypeOK
<1>3. Tail(q) \in Seq(Operations) /\ DOMAIN Tail(q) = 1..(Len(q) - 1)
      /\ Len(q) \in Nat /\ DOMAIN q = 1..Len(q)
      /\ \A i \in 1..(Len(q) - 1) : Tail(q)[i] = q[i + 1]
  <2>1. [op |-> "read", event |-> NoEvent] \in Operations
    BY HeadFacts
  <2> QED
    BY <1>1, <2>1, QueueFacts
<1>4. tail' \in [Writers -> Seq(Operations)]
  BY <1>1, <1>3 DEF Settled
<1> HIDE DEF q, r
<1>5. \A i \in DOMAIN r : i + 1 \in DOMAIN q /\ r[i] = q[i + 1] /\ i + 1 # 1 /\ i \in Nat
  BY <1>2, <1>3
<1>6. ~Writing'
  BY <1>2 DEF Writing
<1>7. \A i \in DOMAIN r : r[i].op = "append" => told'[r[i].event] = "none"
  <2>1. \A i \in DOMAIN q : q[i].op = "append" => told[q[i].event] = "none"
    BY DEF ChainInv, q
  <2>2. \A i \in DOMAIN q : q[i].op = "append" /\ told'[q[i].event] # told[q[i].event] => i = 1
    BY DEF q
  <2> QED
    BY <1>5, <2>1, <2>2
<1>8. \A i, j \in DOMAIN r : r[i].op = "append" /\ r[i] = r[j] => i = j
  <2>1. \A i, j \in DOMAIN q : q[i].op = "append" /\ q[i] = q[j] => i = j
    BY DEF ChainInv, q
  <2> QED
    BY <1>5, <2>1
<1>9. ChainInv'
  BY <1>2, <1>6, <1>7, <1>8 DEF ChainInv, r
<1> QED
  BY <1>2, <1>4, <1>5, <1>6, <1>9 DEF q, r

-----------------------------------------------------------------------------
\* The file is cut at n, behind the lines of all resolved appends, and nothing is being
\* written any more.
LEMMA CutStep ==
    ASSUME LogTypeOK, FileInv, StoredInv, NEW n \in 0..Len(bytes), bytes' = SubSeq(bytes, 1, n),
           disk' = bytes' \/ (disk' = disk /\ Len(disk) <= n),
           pc'[W] = "ready", stored' = stored,
           \A i \in DOMAIN stored : told'[stored[i]] = "stored",
           \A i \in DOMAIN stored : \E m \in DOMAIN disk : m <= n /\ bytes[m] = Cell(stored[i], 2),
           \A i \in DOMAIN bytes : i <= n => told'[bytes[i].event] # "none"
    PROVE  bytes' \in Seq(Cells) /\ disk' \in Seq(Cells) /\ FileInv' /\ StoredInv'
<1> DEFINE b == bytes'
           d == disk'
<1>1. bytes \in Seq(Cells) /\ disk \in Seq(Cells) /\ Len(disk) \in Nat /\ DOMAIN disk = 1..Len(disk)
      /\ Len(disk) <= Len(bytes) /\ \A i \in DOMAIN disk : disk[i] = bytes[i]
  BY LenProperties DEF LogTypeOK, FileInv
<1>2. /\ b \in Seq(Cells) /\ Len(b) = n /\ DOMAIN b = 1..n
      /\ DOMAIN bytes = 1..Len(bytes) /\ Len(bytes) \in Nat /\ n \in Nat /\ n <= Len(bytes)
      /\ \A i \in 1..n : b[i] = bytes[i] /\ i \in DOMAIN bytes
  <2>1. Len(bytes) \in Nat /\ n \in Nat
    BY <1>1, CutFacts
  <2>2. n <= Len(bytes)
    BY <2>1
  <2> QED
    BY <1>1, <2>1, <2>2, CutFacts
<1> HIDE DEF b, d
<1>3. /\ d \in Seq(Cells) /\ Len(d) <= n /\ DOMAIN d \subseteq 1..n /\ \A i \in DOMAIN d : d[i] = b[i]
      /\ \A i \in DOMAIN disk : i <= n => i \in DOMAIN d
  <2>1. CASE d = b
    BY <1>1, <1>2, <2>1
  <2>2. CASE d = disk /\ Len(disk) <= n
    <3>1. \A i \in DOMAIN disk : i \in 1..n
      BY <1>1, <1>2, <2>2
    <3> QED
      BY <1>1, <1>2, <2>2, <3>1
  <2> QED
    BY <2>1, <2>2 DEF b, d
<1>4. ~Writing' /\ pc'[W] # "truncating"
  BY DEF Writing
<1>5. \A i, j \in DOMAIN b : b[i] = b[j] => i = j
  <2>1. \A i, j \in DOMAIN bytes : bytes[i] = bytes[j] => i = j
    BY DEF FileInv
  <2> QED
    BY <1>2, <2>1
<1>6. \A i \in DOMAIN b : b[i].part = 2 => i - 1 \in DOMAIN b /\ b[i - 1] = Cell(b[i].event, 1)
  <2> SUFFICES ASSUME NEW i \in 1..n, bytes[i].part = 2
               PROVE  i - 1 \in 1..n /\ b[i - 1] = Cell(bytes[i].event, 1)
    BY <1>2
  <2>1. i - 1 \in DOMAIN bytes /\ bytes[i - 1] = Cell(bytes[i].event, 1)
    BY <1>2 DEF FileInv
  <2>2. i - 1 \in 1..n
    BY <1>2, <2>1
  <2> QED
    BY <1>2, <2>1, <2>2
<1>7. \A i \in DOMAIN b : told'[b[i].event] # "none"
  <2>1. \A i \in 1..n : i <= n
    BY <1>2
  <2> QED
    BY <1>2, <2>1
<1>8. Len(d) <= Len(b)
  BY <1>2, <1>3
<1>9. FileInv'
  BY <1>3, <1>4, <1>5, <1>6, <1>7, <1>8 DEF FileInv, b, d
<1>10. \A i \in DOMAIN stored : \E m \in DOMAIN d : b[m] = Cell(stored[i], 2)
  BY <1>1, <1>2, <1>3
<1>11. \A i, j \in DOMAIN stored : \A k, m \in DOMAIN b :
         i < j /\ b[k] = Cell(stored[i], 2) /\ b[m] = Cell(stored[j], 2) => k < m
  <2>1. \A i, j \in DOMAIN stored : \A k, m \in DOMAIN bytes :
          i < j /\ bytes[k] = Cell(stored[i], 2) /\ bytes[m] = Cell(stored[j], 2) => k < m
    BY DEF StoredInv
  <2> QED
    BY <1>2, <2>1
<1>12. StoredInv'
  BY <1>10, <1>11 DEF StoredInv, b, d
<1> QED
  BY <1>2, <1>3, <1>9, <1>12 DEF b, d

\* The file, what its lines were told and the line being written stay as they are.
LEMMA SameFile ==
    ASSUME FileInv, StoredInv, UNCHANGED <<file, callers>>,
           Writing' => Writing /\ at' = at /\ put' = put /\ Current(W)' = Current(W),
           Writing => Writing',
           pc'[W] = "truncating" => at'[W] = CleanByteLength(bytes)
    PROVE  FileInv' /\ StoredInv'
<1>1. bytes' = bytes /\ disk' = disk /\ told' = told /\ stored' = stored
  BY DEF file, callers
<1>2. StoredInv'
  BY <1>1 DEF StoredInv
<1>3. Writing' => /\ Len(disk) <= at'[W] /\ Len(bytes) = at'[W] + put'[W]
                  /\ \A i \in DOMAIN bytes :
                       i > at'[W] => bytes[i] = Cell(Current(W)'.event, i - at'[W])
  BY DEF FileInv
<1>4. \A i \in DOMAIN bytes : told[bytes[i].event] = "none" => Writing' /\ i > at'[W]
  BY DEF FileInv
<1>5. pc'[W] = "truncating" => at'[W] = CleanByteLength(bytes)'
  BY <1>1
<1> QED
  BY <1>1, <1>2, <1>3, <1>4, <1>5 DEF FileInv

\* An operation joins the chain.
LEMMA EnqueueStep ==
    ASSUME OneWriter, Base, NEW o \in Operations, Enqueue(W, o),
           o.op = "append" => /\ told[o.event] = "none"
                              /\ \A i \in DOMAIN tail[W] : tail[W][i].event # o.event,
           UNCHANGED <<file, pc, at, put, callers, badRollbacks>>,
           instance' \in [Writers -> {"closed", "opening", "open", "refused"}]
    PROVE  Base'
<1>1. /\ bytes' = bytes /\ disk' = disk /\ told' = told /\ stored' = stored
      /\ pc' = pc /\ at' = at /\ put' = put /\ badRollbacks' = badRollbacks
  BY DEF file, callers
<1>2. LogTypeOK /\ ChainInv /\ FileInv /\ StoredInv
  BY DEF Base
<1>3. /\ ChainInv' /\ tail' \in [Writers -> Seq(Operations)]
      /\ tail[W] # <<>> => Current(W)' = Current(W)
  BY <1>1, <1>2, ChainEnqueue
<1>4. LogTypeOK'
  BY <1>1, <1>2, <1>3 DEF LogTypeOK
<1>5. Writing' <=> Writing
  BY <1>1 DEF Writing
<1>6. Writing => Current(W)' = Current(W)
  BY <1>2, <1>3 DEF ChainInv, Running
<1>7. pc'[W] = "truncating" => at'[W] = CleanByteLength(bytes)
  BY <1>1, <1>2 DEF FileInv
<1>8. FileInv' /\ StoredInv'
  BY <1>1, <1>2, <1>5, <1>6, <1>7, SameFile
<1> QED
  BY <1>3, <1>4, <1>8 DEF Base

\* An operation settles without having touched the file.
LEMMA QuietSettle ==
    ASSUME OneWriter, Base, tail[W] # <<>>, ~Writing, Settled(W),
           UNCHANGED <<file, at, put, callers, badRollbacks>>,
           instance' \in [Writers -> {"closed", "opening", "open", "refused"}]
    PROVE  Base'
<1>1. /\ bytes' = bytes /\ disk' = disk /\ told' = told /\ stored' = stored
      /\ at' = at /\ put' = put /\ badRollbacks' = badRollbacks
  BY DEF file, callers
<1>2. LogTypeOK /\ ChainInv /\ FileInv /\ StoredInv
  BY DEF Base
<1>3. /\ ChainInv' /\ tail' \in [Writers -> Seq(Operations)] /\ pc'[W] = "ready" /\ ~Writing'
      /\ pc' \in [Writers -> {"ready", "truncating", "writing", "rollback"}]
  BY <1>1, <1>2, ChainSettle
<1>4. LogTypeOK'
  BY <1>1, <1>2, <1>3 DEF LogTypeOK
<1>5. FileInv' /\ StoredInv'
  BY <1>2, <1>3, SameFile
<1> QED
  BY <1>3, <1>4, <1>5 DEF Base

\* A read at the head of the chain is not writing.
LEMMA ReadingFacts ==
    ASSUME ChainInv, Running(W, "read")
    PROVE  tail[W] # <<>> /\ ~Writing
BY DEF ChainInv, Running, Writing

\* OpenLog keeps Base.
LEMMA OpenLogStep == ASSUME OneWriter, Base, OpenLog(W) PROVE Base'
<1>1. [op |-> "read", event |-> NoEvent] \in Operations
  BY HeadFacts DEF Base
<1>2. instance' \in [Writers -> {"closed", "opening", "open", "refused"}]
  BY DEF OpenLog, Base, LogTypeOK
<1>3. UNCHANGED <<file, pc, at, put, callers, badRollbacks>>
  BY DEF OpenLog, bounds
<1> QED
  BY <1>1, <1>2, <1>3, EnqueueStep DEF OpenLog

\* Read keeps Base.
LEMMA ReadStep == ASSUME OneWriter, Base, Read(W) PROVE Base'
<1>1. [op |-> "read", event |-> NoEvent] \in Operations
  BY HeadFacts DEF Base
<1>2. instance' \in [Writers -> {"closed", "opening", "open", "refused"}]
  BY DEF Read, Base, LogTypeOK
<1>3. UNCHANGED <<file, pc, at, put, callers, badRollbacks>>
  BY DEF Read
<1> QED
  BY <1>1, <1>2, <1>3, EnqueueStep DEF Read

\* AppendEvent keeps Base.
LEMMA AppendEventStep == ASSUME OneWriter, Base, NEW e \in Events, AppendEvent(W, e) PROVE Base'
<1>1. [op |-> "append", event |-> e] \in Operations /\ W \in Writers
  BY HeadFacts DEF Base
<1>2. instance' \in [Writers -> {"closed", "opening", "open", "refused"}]
  BY DEF AppendEvent, Base, LogTypeOK
<1>3. UNCHANGED <<file, pc, at, put, callers, badRollbacks>>
  BY DEF AppendEvent, bounds
<1>4. told[e] = "none" /\ \A i \in DOMAIN tail[W] : tail[W][i].event # e
  BY <1>1 DEF AppendEvent
<1> QED
  BY <1>1, <1>2, <1>3, <1>4, EnqueueStep DEF AppendEvent

\* ReadFile keeps Base.
LEMMA ReadFileStep == ASSUME OneWriter, Base, ReadFile(W) PROVE Base'
<1>1. LogTypeOK /\ ChainInv /\ FileInv /\ StoredInv /\ W \in Writers
  BY HeadFacts DEF Base
<1>2. tail[W] # <<>> /\ ~Writing /\ Running(W, "read")
  BY <1>1, ReadingFacts DEF ReadFile
<1>3. /\ UNCHANGED <<file, put, callers, badRollbacks>>
      /\ bytes' = bytes /\ disk' = disk /\ told' = told /\ stored' = stored
      /\ put' = put /\ badRollbacks' = badRollbacks
  BY DEF ReadFile, bounds, file, callers
<1>4. CASE Settled(W) /\ UNCHANGED at
  <2>1. instance' \in [Writers -> {"closed", "opening", "open", "refused"}]
    BY <1>1 DEF ReadFile, Loaded, LogTypeOK
  <2> QED
    BY <1>2, <1>3, <1>4, <2>1, QuietSettle
<1>5. CASE /\ at' = [at EXCEPT ![W] = Kept(bytes)] /\ Goto(W, "truncating")
           /\ UNCHANGED <<instance, tail>>
  <2>1. pc'[W] = "truncating" /\ pc' \in [Writers -> {"ready", "truncating", "writing", "rollback"}]
    BY <1>1, <1>5 DEF Goto, LogTypeOK
  <2>2. at'[W] = CleanByteLength(bytes)
    BY <1>1, <1>5 DEF LogTypeOK, Kept
  <2>3. at' \in [Writers -> Nat]
    <3>1. CleanByteLength(bytes) \in Nat
      BY <1>1, CleanFacts DEF LogTypeOK
    <3> QED
      BY <1>1, <1>5, <3>1 DEF LogTypeOK, Kept
  <2>4. LogTypeOK'
    BY <1>1, <1>3, <1>5, <2>1, <2>3 DEF LogTypeOK
  <2>5. ~Writing'
    BY <2>1 DEF Writing
  <2>6. ChainInv'
    BY <1>1, <1>2, <1>3, <1>5, <2>1, <2>5 DEF ChainInv, Running, Current
  <2>7. FileInv' /\ StoredInv'
    BY <1>1, <1>2, <1>3, <2>2, <2>5, SameFile
  <2> QED
    BY <2>4, <2>6, <2>7 DEF Base
<1> QED
  BY <1>4, <1>5 DEF ReadFile, Rejected

\* ReadFails keeps Base.
LEMMA ReadFailsStep == ASSUME OneWriter, Base, ReadFails(W) PROVE Base'
<1>1. tail[W] # <<>> /\ ~Writing
  BY ReadingFacts DEF Base, ReadFails
<1>2. instance' \in [Writers -> {"closed", "opening", "open", "refused"}]
  BY DEF ReadFails, Base, LogTypeOK
<1>3. UNCHANGED <<file, at, put, callers, badRollbacks>>
  BY DEF ReadFails
<1> QED
  BY <1>1, <1>2, <1>3, QuietSettle DEF ReadFails, Rejected

\* What Tell does.
LEMMA TellFacts ==
    ASSUME LogTypeOK, NEW e \in Events, NEW a \in {"none", "stored", "failed", "lost"}, Tell(e, a)
    PROVE  /\ told' \in [Events -> {"none", "stored", "failed", "lost"}]
           /\ told'[e] = a /\ \A x \in Events : x # e => told'[x] = told[x]
BY DEF Tell, LogTypeOK

\* The append at the head of the chain: its event, told nothing so far.
LEMMA AppendingFacts ==
    ASSUME OneWriter, LogTypeOK, ChainInv, Running(W, "append")
    PROVE  /\ tail[W] # <<>> /\ Current(W).event \in Events /\ told[Current(W).event] = "none"
           /\ \A i \in DOMAIN tail[W] :
                tail[W][i].op = "append" /\ tail[W][i].event = Current(W).event => i = 1
<1>1. tail[W] # <<>> /\ Current(W).op = "append"
  BY DEF Running
<1>2. 1 \in DOMAIN tail[W] /\ Current(W) = tail[W][1]
  BY <1>1, HeadFacts
<1>3. Current(W).event \in Events /\ told[Current(W).event] = "none"
  BY <1>1, <1>2, HeadFacts DEF ChainInv
<1>4. ASSUME NEW i \in DOMAIN tail[W], tail[W][i].op = "append", tail[W][i].event = Current(W).event
      PROVE  i = 1
  <2>1. tail[W][i] = tail[W][1]
    BY <1>1, <1>2, <1>4, HeadFacts
  <2> QED
    BY <1>2, <1>4, <2>1 DEF ChainInv
<1> QED
  BY <1>1, <1>3, <1>4

\* The events of the lines in the file.
LEMMA LineFacts ==
    ASSUME LogTypeOK
    PROVE  /\ \A i \in DOMAIN bytes : bytes[i] \in Cells /\ bytes[i].event \in Events
           /\ \A i \in DOMAIN stored : stored[i] \in Events
           /\ Len(bytes) \in Nat /\ DOMAIN bytes = 1..Len(bytes)
           /\ Len(disk) \in Nat /\ DOMAIN disk = 1..Len(disk)
           /\ Len(stored) \in Nat /\ DOMAIN stored = 1..Len(stored)
<1>1. \A i \in DOMAIN bytes : bytes[i] \in Cells
  BY LenProperties, ElementOfSeq DEF LogTypeOK
<1>2. \A i \in DOMAIN stored : stored[i] \in Events
  BY LenProperties, ElementOfSeq DEF LogTypeOK
<1> QED
  BY <1>1, <1>2, LenProperties, CellFacts DEF LogTypeOK

\* An append fails and leaves the file cut at n.
LEMMA FailStep ==
    ASSUME OneWriter, Base, Running(W, "append"), Settled(W), Tell(Current(W).event, "failed"),
           NEW n \in 0..Len(bytes), Len(disk) <= n, bytes' = SubSeq(bytes, 1, n),
           disk' \in {disk, bytes'}, UNCHANGED <<instance, at, put, stored>>, badRollbacks' \in Nat
    PROVE  Base'
<1> DEFINE e == Current(W).event
<1>1. LogTypeOK /\ ChainInv /\ FileInv /\ StoredInv
  BY DEF Base
<1>2. /\ tail[W] # <<>> /\ e \in Events /\ told[e] = "none"
      /\ \A i \in DOMAIN tail[W] : tail[W][i].op = "append" /\ tail[W][i].event = e => i = 1
  BY <1>1, AppendingFacts
<1>3. Tell(e, "failed")
  OBVIOUS
<1>4. \A i \in DOMAIN bytes : told[bytes[i].event] = "none" => bytes[i].event = e
  BY <1>1, CellFacts DEF FileInv
<1> HIDE DEF e
<1>5. /\ told' \in [Events -> {"none", "stored", "failed", "lost"}]
      /\ told'[e] = "failed" /\ \A x \in Events : x # e => told'[x] = told[x]
  BY <1>1, <1>2, <1>3, TellFacts
<1>6. \A i \in DOMAIN tail[W] :
        tail[W][i].op = "append" /\ told'[tail[W][i].event] # told[tail[W][i].event] => i = 1
  BY <1>1, <1>2, <1>5, HeadFacts
<1>7. /\ ChainInv' /\ tail' \in [Writers -> Seq(Operations)] /\ pc'[W] = "ready" /\ ~Writing'
      /\ pc' \in [Writers -> {"ready", "truncating", "writing", "rollback"}]
  BY <1>1, <1>2, <1>6, ChainSettle
<1>8. \A i \in DOMAIN stored : told'[stored[i]] = "stored"
  BY <1>1, <1>2, <1>5, LineFacts DEF StoredInv
<1>9. \A i \in DOMAIN bytes : told'[bytes[i].event] # "none"
  BY <1>1, <1>4, <1>5, LineFacts
<1>10. \A i \in DOMAIN stored : \E m \in DOMAIN disk : m <= n /\ bytes[m] = Cell(stored[i], 2)
  <2>1. \A m \in DOMAIN disk : m <= n
    BY <1>1, LineFacts
  <2> QED
    BY <1>1, <2>1 DEF StoredInv
<1>11. bytes' \in Seq(Cells) /\ disk' \in Seq(Cells) /\ FileInv' /\ StoredInv'
  BY <1>1, <1>7, <1>8, <1>9, <1>10, CutStep
<1>12. LogTypeOK'
  BY <1>1, <1>5, <1>7, <1>11 DEF LogTypeOK
<1> QED
  BY <1>7, <1>11, <1>12 DEF Base

\* AppendRefused keeps Base.
LEMMA AppendRefusedStep == ASSUME OneWriter, Base, AppendRefused(W) PROVE Base'
<1>1. bytes \in Seq(Cells) /\ Len(bytes) \in 0..Len(bytes) /\ Len(disk) <= Len(bytes)
  BY LineFacts DEF Base, LogTypeOK, FileInv
<1>2. bytes' = SubSeq(bytes, 1, Len(bytes)) /\ disk' = disk
  BY <1>1, SubSeqFull DEF AppendRefused, file
<1>3. badRollbacks' \in Nat
  BY DEF AppendRefused, Base, LogTypeOK
<1> QED
  BY <1>1, <1>2, <1>3, FailStep DEF AppendRefused, Rejected

\* Where a rollback cuts the file.
LEMMA RollbackFacts ==
    ASSUME OneWriter, LogTypeOK, FileInv, Writing
    PROVE  /\ at[W] \in 0..Len(bytes) /\ Len(disk) <= at[W] /\ at[W] \in Nat /\ put[W] \in {0, 1, 2}
           /\ Len(bytes) = at[W] + put[W] /\ Truncated(bytes, at[W]) = SubSeq(bytes, 1, at[W])
<1>1. W \in Writers
  BY HeadFacts
<1>2. at[W] \in Nat /\ put[W] \in {0, 1, 2}
  BY <1>1 DEF LogTypeOK
<1>3. Len(bytes) = at[W] + put[W] /\ Len(disk) <= at[W]
  BY DEF FileInv
<1>4. at[W] \in 0..Len(bytes)
  BY <1>2, <1>3
<1>5. Truncated(bytes, at[W]) = SubSeq(bytes, 1, at[W])
  BY <1>4, CutFacts DEF LogTypeOK
<1> QED
  BY <1>2, <1>3, <1>4, <1>5

\* Rollback keeps Base.
LEMMA RollbackStep == ASSUME OneWriter, Base, Rollback(W) PROVE Base'
<1>1. Writing
  BY DEF Rollback, Writing
<1>2. /\ at[W] \in 0..Len(bytes) /\ Len(disk) <= at[W]
      /\ bytes' = SubSeq(bytes, 1, at[W]) /\ disk' = bytes'
  BY <1>1, RollbackFacts DEF Base, Rollback, RolledBack
<1>3. badRollbacks' \in Nat
  BY DEF Rollback, bounds, Base, LogTypeOK
<1> QED
  BY <1>2, <1>3, FailStep DEF Rollback, Rejected

\* RollbackFails keeps Base.
LEMMA RollbackFailsStep == ASSUME OneWriter, Base, RollbackFails(W) PROVE Base'
<1>1. Writing
  BY DEF RollbackFails, Writing
<1>2. /\ at[W] \in 0..Len(bytes) /\ Len(disk) <= at[W]
      /\ Truncated(bytes, at[W]) = SubSeq(bytes, 1, at[W])
  BY <1>1, RollbackFacts DEF Base
<1>3. bytes \in Seq(Cells) /\ Len(bytes) \in 0..Len(bytes) /\ Len(disk) <= Len(bytes)
  BY LineFacts DEF Base, LogTypeOK, FileInv
<1>4. bytes = SubSeq(bytes, 1, Len(bytes))
  BY <1>3, SubSeqFull
<1>5. badRollbacks' \in Nat
  BY DEF RollbackFails, Base, LogTypeOK
<1>6. CASE bytes' = bytes
  BY <1>3, <1>4, <1>5, <1>6, FailStep DEF RollbackFails, Rejected
<1>7. CASE bytes' = Truncated(bytes, at[W])
  BY <1>2, <1>5, <1>7, FailStep DEF RollbackFails, Rejected
<1> QED
  BY <1>6, <1>7 DEF RollbackFails

\* TruncateTail keeps Base.
LEMMA TruncateTailStep == ASSUME OneWriter, Base, TruncateTail(W) PROVE Base'
<1>1. LogTypeOK /\ ChainInv /\ FileInv /\ StoredInv /\ W \in Writers
  BY HeadFacts DEF Base
<1>2. tail[W] # <<>> /\ ~Writing /\ pc[W] = "truncating" /\ Settled(W)
  BY <1>1, ReadingFacts DEF TruncateTail
<1>3. /\ told' = told /\ stored' = stored /\ at' = at /\ put' = put /\ badRollbacks' = badRollbacks
      /\ disk' = bytes'
  BY DEF TruncateTail, callers, bounds
<1>4. instance' \in [Writers -> {"closed", "opening", "open", "refused"}]
  BY <1>1 DEF TruncateTail, Loaded, LogTypeOK
<1>5. /\ ChainInv' /\ tail' \in [Writers -> Seq(Operations)] /\ pc'[W] = "ready" /\ ~Writing'
      /\ pc' \in [Writers -> {"ready", "truncating", "writing", "rollback"}]
  BY <1>1, <1>2, <1>3, ChainSettle
<1> DEFINE n == CleanByteLength(bytes)
<1>6. at[W] = n
  BY <1>1, <1>2 DEF FileInv
<1>7. n \in 0..Len(bytes) /\ \A i \in DOMAIN bytes : bytes[i].part = 2 => i <= n
  BY <1>1, CleanFacts DEF LogTypeOK
<1> HIDE DEF n
<1>8. bytes' = SubSeq(bytes, 1, n)
  BY <1>1, <1>6, <1>7, CutFacts DEF TruncateTail, LogTypeOK
<1>9. \A i \in DOMAIN stored : told'[stored[i]] = "stored"
  BY <1>1, <1>3 DEF StoredInv
<1>10. \A i \in DOMAIN bytes : told'[bytes[i].event] # "none"
  BY <1>1, <1>2, <1>3 DEF FileInv
<1>11. \A i \in DOMAIN stored : \E m \in DOMAIN disk : m <= n /\ bytes[m] = Cell(stored[i], 2)
  <2>1. \A m \in DOMAIN disk : m \in DOMAIN bytes
    BY <1>1, LineFacts DEF FileInv
  <2> QED
    BY <1>1, <1>7, <2>1, CellFacts DEF StoredInv
<1>12. bytes' \in Seq(Cells) /\ disk' \in Seq(Cells) /\ FileInv' /\ StoredInv'
  BY <1>1, <1>3, <1>5, <1>7, <1>8, <1>9, <1>10, <1>11, CutStep
<1>13. LogTypeOK'
  BY <1>1, <1>3, <1>4, <1>5, <1>12 DEF LogTypeOK
<1> QED
  BY <1>5, <1>12, <1>13 DEF Base

\* Stat keeps Base.
LEMMA StatStep == ASSUME OneWriter, Base, Stat(W) PROVE Base'
<1>1. LogTypeOK /\ ChainInv /\ FileInv /\ StoredInv /\ W \in Writers
  BY HeadFacts DEF Base
<1>2. /\ bytes' = bytes /\ disk' = disk /\ told' = told /\ stored' = stored
      /\ instance' = instance /\ tail' = tail /\ badRollbacks' = badRollbacks
  BY DEF Stat, file, callers, bounds
<1>3. ~Writing /\ Running(W, "append")
  BY DEF Stat, Writing
<1>4. Len(bytes) \in Nat /\ DOMAIN bytes = 1..Len(bytes)
  BY <1>1, LineFacts
<1>5. /\ at'[W] = Len(bytes) /\ put'[W] = 0 /\ pc'[W] = "writing"
      /\ at' \in [Writers -> Nat] /\ put' \in [Writers -> {0, 1, 2}]
      /\ pc' \in [Writers -> {"ready", "truncating", "writing", "rollback"}]
  BY <1>1, <1>4 DEF Stat, Goto, LogTypeOK
<1>6. LogTypeOK'
  BY <1>1, <1>2, <1>5 DEF LogTypeOK
<1>7. ChainInv'
  BY <1>1, <1>2, <1>3, <1>5 DEF ChainInv, Writing, Running, Current
<1>8. Len(disk) <= at'[W] /\ Len(bytes) = at'[W] + put'[W] /\ \A i \in DOMAIN bytes : ~(i > at'[W])
  <2>1. Len(disk) <= Len(bytes)
    BY <1>1 DEF FileInv
  <2> QED
    BY <1>4, <1>5, <2>1
<1>9. \A i \in DOMAIN bytes : told[bytes[i].event] # "none"
  BY <1>1, <1>3 DEF FileInv
<1>10. FileInv'
  BY <1>1, <1>2, <1>5, <1>8, <1>9 DEF FileInv
<1>11. StoredInv'
  BY <1>1, <1>2 DEF StoredInv
<1> QED
  BY <1>6, <1>7, <1>10, <1>11 DEF Base

\* WriteFails keeps Base.
LEMMA WriteFailsStep == ASSUME OneWriter, Base, WriteFails(W) PROVE Base'
<1>1. LogTypeOK /\ ChainInv /\ FileInv /\ StoredInv /\ W \in Writers
  BY HeadFacts DEF Base
<1>2. /\ bytes' = bytes /\ disk' = disk /\ told' = told /\ stored' = stored /\ at' = at /\ put' = put
      /\ instance' = instance /\ tail' = tail /\ badRollbacks' = badRollbacks
  BY DEF WriteFails, file, callers
<1>3. Writing /\ Running(W, "append")
  BY DEF WriteFails, Writing
<1>4. pc'[W] = "rollback" /\ pc' \in [Writers -> {"ready", "truncating", "writing", "rollback"}]
  BY <1>1 DEF WriteFails, Goto, LogTypeOK
<1>5. LogTypeOK'
  BY <1>1, <1>2, <1>4 DEF LogTypeOK
<1>6. ChainInv'
  BY <1>1, <1>2, <1>3, <1>4 DEF ChainInv, Writing, Running, Current
<1>7. Writing' /\ Current(W)' = Current(W)
  BY <1>2, <1>4 DEF Writing, Current
<1>8. UNCHANGED <<file, callers>>
  BY <1>2 DEF file, callers
<1>9. FileInv' /\ StoredInv'
  BY <1>1, <1>2, <1>3, <1>4, <1>7, <1>8, SameFile
<1> QED
  BY <1>5, <1>6, <1>9 DEF Base

\* Sync keeps Base.
LEMMA SyncStep == ASSUME OneWriter, Base, Sync(W) PROVE Base'
<1> DEFINE e == Current(W).event
           L == Len(bytes)
<1>1. LogTypeOK /\ ChainInv /\ FileInv /\ StoredInv /\ W \in Writers
  BY HeadFacts DEF Base
<1>2. Writing /\ Running(W, "append") /\ Tell(e, "stored") /\ Settled(W) /\ stored' = Append(stored, e)
  BY DEF Sync, Writing
<1>3. /\ bytes' = bytes /\ disk' = bytes /\ at' = at /\ put' = put
      /\ instance' = instance /\ badRollbacks' = badRollbacks
  BY DEF Sync, Flushed, bounds
<1>4. /\ tail[W] # <<>> /\ e \in Events /\ told[e] = "none"
      /\ \A i \in DOMAIN tail[W] : tail[W][i].op = "append" /\ tail[W][i].event = e => i = 1
  BY <1>1, <1>2, AppendingFacts
<1>5. \A i \in DOMAIN bytes : told[bytes[i].event] = "none" => bytes[i].event = e
  BY <1>1, CellFacts DEF FileInv
<1>6. at[W] \in Nat /\ put[W] \in {0, 1, 2} /\ L = at[W] + put[W]
  BY <1>1, <1>2, RollbackFacts
<1>7. put[W] = 2
  BY <1>6 DEF Sync, Remains
<1>8. L \in DOMAIN bytes /\ L > at[W] /\ L - at[W] = 2
  <2>1. DOMAIN bytes = 1..L
    BY <1>1, LineFacts
  <2> QED
    BY <1>6, <1>7, <2>1
<1>9. bytes[L] = Cell(e, 2)
  <2>1. bytes[L] = Cell(Current(W).event, L - at[W])
    BY <1>1, <1>2, <1>8 DEF FileInv
  <2> QED
    BY <1>8, <2>1
<1>10. \A i \in DOMAIN bytes : bytes[i] = Cell(e, 2) => i = L
  BY <1>1, <1>8, <1>9 DEF FileInv
<1> HIDE DEF e
<1>11. /\ told' \in [Events -> {"none", "stored", "failed", "lost"}]
       /\ told'[e] = "stored" /\ \A x \in Events : x # e => told'[x] = told[x]
  BY <1>1, <1>2, <1>4, TellFacts
<1>12. \A i \in DOMAIN tail[W] :
         tail[W][i].op = "append" /\ told'[tail[W][i].event] # told[tail[W][i].event] => i = 1
  BY <1>1, <1>4, <1>11, HeadFacts
<1>13. /\ ChainInv' /\ tail' \in [Writers -> Seq(Operations)] /\ pc'[W] = "ready" /\ ~Writing'
       /\ pc' \in [Writers -> {"ready", "truncating", "writing", "rollback"}]
  BY <1>1, <1>2, <1>4, <1>12, ChainSettle
<1>14. /\ stored' \in Seq(Events) /\ DOMAIN stored' = 1..(Len(stored) + 1) /\ Len(stored) \in Nat
       /\ DOMAIN stored = 1..Len(stored)
       /\ stored'[Len(stored) + 1] = e /\ \A i \in 1..Len(stored) : stored'[i] = stored[i]
  BY <1>1, <1>2, <1>4, AppendProperties, LenProperties DEF LogTypeOK
<1>15. LogTypeOK'
  BY <1>1, <1>3, <1>11, <1>13, <1>14 DEF LogTypeOK
<1>16. \A i \in DOMAIN bytes : told'[bytes[i].event] # "none"
  BY <1>1, <1>5, <1>11, LineFacts
<1>17. FileInv'
  <2>1. Len(bytes) <= Len(bytes) /\ \A i \in DOMAIN bytes : bytes[i] = bytes[i]
    BY <1>1, LineFacts
  <2>2. pc'[W] # "truncating"
    BY <1>13
  <2> QED
    BY <1>1, <1>3, <1>13, <1>16, <2>1, <2>2 DEF FileInv
<1>18. \A i \in DOMAIN stored' : \/ (i \in DOMAIN stored /\ stored'[i] = stored[i])
                                 \/ (i = Len(stored) + 1 /\ stored'[i] = e)
  <2>1. \A i \in 1..(Len(stored) + 1) : i \in 1..Len(stored) \/ i = Len(stored) + 1
    BY <1>14
  <2> QED
    BY <1>14, <2>1, Zenon
<1>19. \A i \in DOMAIN disk : i \in DOMAIN bytes /\ i <= L
  BY <1>1, LineFacts DEF FileInv
<1>20. \A i \in DOMAIN stored' : /\ told'[stored'[i]] = "stored"
                                 /\ \E n \in DOMAIN bytes : bytes[n] = Cell(stored'[i], 2)
  <2>1. \A i \in DOMAIN stored : told'[stored[i]] = "stored"
    BY <1>1, <1>4, <1>11, LineFacts DEF StoredInv
  <2>2. \A i \in DOMAIN stored : \E n \in DOMAIN bytes : bytes[n] = Cell(stored[i], 2)
    BY <1>1, <1>19 DEF StoredInv
  <2> QED
    BY <1>8, <1>9, <1>11, <1>18, <2>1, <2>2
<1>21. ASSUME NEW i \in DOMAIN stored', NEW j \in DOMAIN stored', NEW m \in DOMAIN bytes,
              NEW n \in DOMAIN bytes, i < j, bytes[m] = Cell(stored'[i], 2), bytes[n] = Cell(stored'[j], 2)
       PROVE  m < n
  <2>1. i \in DOMAIN stored /\ stored'[i] = stored[i]
    <3>1. i \in 1..Len(stored)
      BY <1>14, <1>21
    <3> QED
      BY <1>14, <3>1
  <2>2. CASE j \in DOMAIN stored /\ stored'[j] = stored[j]
    BY <1>1, <1>21, <2>1, <2>2 DEF StoredInv
  <2>3. CASE stored'[j] = e
    <3>1. n = L
      BY <1>10, <1>21, <2>3
    <3>2. stored[i] # e
      BY <1>1, <1>4, <2>1 DEF StoredInv
    <3>3. m # L
      BY <1>9, <1>21, <2>1, <3>2, CellFacts
    <3>4. m \in 1..L /\ L \in Nat
      BY <1>1, LineFacts
    <3> QED
      BY <3>1, <3>3, <3>4
  <2> QED
    BY <1>18, <2>2, <2>3
<1>22. StoredInv'
  BY <1>3, <1>20, <1>21 DEF StoredInv
<1> QED
  BY <1>13, <1>15, <1>17, <1>22 DEF Base

\* Write keeps Base.
LEMMA WriteStep == ASSUME OneWriter, Base, Write(W) PROVE Base'
<1> DEFINE e == Current(W).event
           L == Len(bytes)
           p == put[W] + 1
           b == bytes'
<1>1. LogTypeOK /\ ChainInv /\ FileInv /\ StoredInv /\ W \in Writers
  BY HeadFacts DEF Base
<1>2. Writing /\ Running(W, "append")
  BY DEF Write, Writing
<1>3. /\ disk' = disk /\ told' = told /\ stored' = stored /\ tail' = tail /\ pc' = pc /\ at' = at
      /\ instance' = instance /\ badRollbacks' = badRollbacks
  BY DEF Write, callers, bounds
<1>4. e \in Events /\ told[e] = "none"
  BY <1>1, <1>2, AppendingFacts
<1>5. at[W] \in Nat /\ put[W] \in {0, 1, 2} /\ L = at[W] + put[W]
  BY <1>1, <1>2, RollbackFacts
<1>6. put[W] \in {0, 1} /\ p \in {1, 2}
  BY <1>5 DEF Write, Remains
<1>7. put'[W] = p /\ put' \in [Writers -> {0, 1, 2}]
  BY <1>1, <1>6 DEF Write, LogTypeOK
<1>8. b = WrittenAt(bytes, L, Cell(e, p))
  BY <1>5 DEF Write
<1>9. Cell(e, p) \in Cells
  BY <1>4, <1>6, CellFacts
<1>10. \A i \in DOMAIN bytes : bytes[i].event = e => i > at[W] /\ bytes[i] = Cell(e, i - at[W])
  BY <1>1, <1>2, <1>4 DEF FileInv
<1>11. \A i \in DOMAIN bytes : i > at[W] => bytes[i] = Cell(e, i - at[W])
  BY <1>1, <1>2 DEF FileInv
<1>12. \A i \in DOMAIN bytes : told[bytes[i].event] = "none" => i > at[W]
  BY <1>1 DEF FileInv
<1>13. Writing' /\ Current(W)'.event = e
  BY <1>2, <1>3 DEF Writing, Current
<1>14. /\ b \in Seq(Cells) /\ Len(b) = L + 1 /\ L \in Nat
       /\ DOMAIN b = 1..(L + 1) /\ DOMAIN bytes = 1..L
       /\ b[L + 1] = Cell(e, p) /\ \A i \in DOMAIN bytes : b[i] = bytes[i]
  <2>1. bytes \in Seq(Cells)
    BY <1>1 DEF LogTypeOK
  <2>2. \A c \in Cells : \A g : g = WrittenAt(bytes, Len(bytes), c) =>
          /\ g \in Seq(Cells) /\ Len(g) = Len(bytes) + 1 /\ Len(bytes) \in Nat
          /\ DOMAIN g = 1..(Len(bytes) + 1) /\ DOMAIN bytes = 1..Len(bytes)
          /\ g[Len(bytes) + 1] = c /\ \A i \in DOMAIN bytes : g[i] = bytes[i]
    BY <2>1, WriteFacts
  <2> HIDE DEF e, p, b
  <2> QED
    BY <1>8, <1>9, <2>2, Zenon
<1> HIDE DEF e, L, b
<1>15. \A i \in DOMAIN b : i \in DOMAIN bytes \/ i = L + 1
  BY <1>14
<1>16. LogTypeOK'
  BY <1>1, <1>3, <1>7, <1>14 DEF LogTypeOK, b
<1>17. ChainInv'
  BY <1>1, <1>3 DEF ChainInv, Writing, Running, Current
<1>18. \A i \in DOMAIN bytes : bytes[i] # Cell(e, p)
  <2> SUFFICES ASSUME NEW i \in DOMAIN bytes, bytes[i] = Cell(e, p) PROVE FALSE
    OBVIOUS
  <2>1. i > at[W] /\ bytes[i] = Cell(e, i - at[W])
    BY <1>10, CellFacts
  <2>2. i - at[W] = p
    BY <2>1, CellFacts
  <2> QED
    BY <1>5, <1>14, <2>2
<1>19. \A i, j \in DOMAIN b : b[i] = b[j] => i = j
  <2>1. \A i, j \in DOMAIN bytes : bytes[i] = bytes[j] => i = j
    BY <1>1 DEF FileInv
  <2> QED
    BY <1>14, <1>15, <1>18, <2>1, Zenon
<1>20. \A i \in DOMAIN b : b[i].part = 2 => i - 1 \in DOMAIN b /\ b[i - 1] = Cell(b[i].event, 1)
  <2>1. ASSUME NEW i \in DOMAIN bytes, b[i].part = 2
        PROVE  i - 1 \in DOMAIN b /\ b[i - 1] = Cell(b[i].event, 1)
    <3>1. i - 1 \in DOMAIN bytes /\ bytes[i - 1] = Cell(bytes[i].event, 1)
      BY <1>1, <1>14, <2>1 DEF FileInv
    <3>2. i - 1 \in DOMAIN b
      BY <1>14, <3>1
    <3> QED
      BY <1>14, <3>1, <3>2
  <2>2. ASSUME b[L + 1].part = 2
        PROVE  (L + 1) - 1 \in DOMAIN b /\ b[(L + 1) - 1] = Cell(b[L + 1].event, 1)
    <3>1. p = 2 /\ b[L + 1].event = e
      BY <1>14, <2>2, CellFacts
    <3>2. L \in DOMAIN bytes /\ L > at[W] /\ L - at[W] = 1 /\ (L + 1) - 1 = L /\ L \in DOMAIN b
      BY <1>5, <1>14, <3>1
    <3>3. bytes[L] = Cell(e, L - at[W])
      BY <1>11, <3>2
    <3> QED
      BY <1>14, <3>1, <3>2, <3>3
  <2> QED
    BY <1>15, <2>1, <2>2
<1>21. \A i \in DOMAIN b : i > at[W] => b[i] = Cell(e, i - at[W])
  <2>1. (L + 1) - at[W] = p
    BY <1>5
  <2> QED
    BY <1>11, <1>14, <1>15, <2>1
<1>22. \A i \in DOMAIN b : told[b[i].event] = "none" => i > at[W]
  <2>1. L + 1 > at[W]
    BY <1>5
  <2> QED
    BY <1>12, <1>14, <1>15, <2>1
<1>23. Len(disk) <= Len(b) /\ \A i \in DOMAIN disk : i \in DOMAIN bytes /\ disk[i] = b[i]
  <2>1. /\ Len(disk) <= L /\ Len(disk) \in Nat /\ DOMAIN disk = 1..Len(disk)
        /\ \A i \in DOMAIN disk : disk[i] = bytes[i]
    BY <1>1, LineFacts DEF FileInv, L
  <2>2. \A i \in DOMAIN disk : i \in DOMAIN bytes
    BY <1>14, <2>1
  <2>3. Len(disk) <= Len(b)
    BY <1>14, <2>1
  <2> QED
    BY <1>14, <2>1, <2>2, <2>3
<1>24. Len(disk) <= at[W] /\ Len(b) = at[W] + put'[W]
  <2>1. Len(disk) <= at[W]
    BY <1>1, <1>2 DEF FileInv
  <2> QED
    BY <1>5, <1>7, <1>14, <2>1
<1>25. pc'[W] # "truncating"
  BY <1>13 DEF Writing
<1>26. FileInv'
  BY <1>3, <1>13, <1>19, <1>20, <1>21, <1>22, <1>23, <1>24, <1>25 DEF FileInv, b
<1>27. \A i \in DOMAIN stored : stored[i] # e
  BY <1>1, <1>4 DEF StoredInv
<1>28. \A i \in DOMAIN stored : \A m \in DOMAIN b :
         b[m] = Cell(stored[i], 2) => m \in DOMAIN bytes /\ bytes[m] = b[m]
  BY <1>14, <1>15, <1>27, CellFacts
<1>29. \A i \in DOMAIN stored : /\ told[stored[i]] = "stored"
                                /\ \E n \in DOMAIN disk : b[n] = Cell(stored[i], 2)
  BY <1>1, <1>14, <1>23 DEF StoredInv
<1>30. \A i, j \in DOMAIN stored : \A m, n \in DOMAIN b :
         i < j /\ b[m] = Cell(stored[i], 2) /\ b[n] = Cell(stored[j], 2) => m < n
  BY <1>1, <1>28 DEF StoredInv
<1>31. StoredInv'
  BY <1>3, <1>29, <1>30 DEF StoredInv, b
<1> QED
  BY <1>16, <1>17, <1>26, <1>31 DEF Base

\* Crash keeps Base.
LEMMA CrashStep == ASSUME OneWriter, Base, Crash PROVE Base'
<1>1. LogTypeOK /\ ChainInv /\ FileInv /\ StoredInv /\ W \in Writers
  BY HeadFacts DEF Base
<1>2. /\ bytes' \in CrashOutcomes /\ disk' = bytes'
      /\ at' = at /\ put' = put /\ stored' = stored /\ badRollbacks' = badRollbacks
  BY DEF Crash
<1>3. /\ instance' \in [Writers -> {"closed", "opening", "open", "refused"}]
      /\ pc' \in [Writers -> {"ready", "truncating", "writing", "rollback"}]
      /\ pc'[W] = "ready"
  BY <1>1 DEF Crash
<1>4. tail' \in [Writers -> Seq(Operations)] /\ tail'[W] = <<>> /\ DOMAIN tail'[W] = {}
  BY <1>1 DEF Crash
<1>5. /\ told' \in [Events -> {"none", "stored", "failed", "lost"}]
      /\ \A e \in Events : told'[e] = IF Pending(e) THEN "lost" ELSE told[e]
  BY <1>1 DEF Crash, LogTypeOK
<1>6. \A e \in Events : Pending(e) <=>
        \E i \in DOMAIN tail[W] : tail[W][i].op = "append" /\ tail[W][i].event = e
  BY <1>1, HeadFacts DEF Pending, OneWriter
<1>7. \A e \in Events : Pending(e) => told[e] = "none"
  BY <1>1, <1>6 DEF ChainInv
<1>8. Writing => Pending(Current(W).event)
  <2> SUFFICES ASSUME Writing PROVE Pending(Current(W).event)
    OBVIOUS
  <2>1. Running(W, "append")
    BY <1>1 DEF ChainInv
  <2>2. tail[W] # <<>> /\ Current(W).event \in Events /\ Current(W).op = "append"
    BY <1>1, <2>1, AppendingFacts DEF Running
  <2>3. 1 \in DOMAIN tail[W] /\ Current(W) = tail[W][1]
    BY <1>1, <2>2, HeadFacts
  <2> QED
    BY <1>6, <2>2, <2>3
<1>9. \A i \in DOMAIN bytes : told'[bytes[i].event] # "none"
  <2> SUFFICES ASSUME NEW i \in DOMAIN bytes PROVE told'[bytes[i].event] # "none"
    OBVIOUS
  <2>1. bytes[i].event \in Events
    BY <1>1, LineFacts
  <2>2. told[bytes[i].event] = "none" => Writing /\ bytes[i].event = Current(W).event
    BY <1>1, CellFacts DEF FileInv
  <2>3. told[bytes[i].event] = "none" => Pending(bytes[i].event)
    BY <1>8, <2>2
  <2> QED
    BY <1>5, <2>1, <2>3
<1>10. \A i \in DOMAIN stored : told'[stored[i]] = "stored"
  BY <1>1, <1>5, <1>7, LineFacts DEF StoredInv
<1>11. PICK n \in 0..Len(bytes) : Len(disk) <= n /\ bytes' = SubSeq(bytes, 1, n)
  BY <1>1, <1>2, CrashFacts
<1>12. \A i \in DOMAIN stored : \E m \in DOMAIN disk : m <= n /\ bytes[m] = Cell(stored[i], 2)
  <2>1. \A m \in DOMAIN disk : m <= n
    BY <1>1, <1>11, LineFacts
  <2> QED
    BY <1>1, <2>1 DEF StoredInv
<1>13. bytes' \in Seq(Cells) /\ disk' \in Seq(Cells) /\ FileInv' /\ StoredInv'
  BY <1>1, <1>2, <1>3, <1>9, <1>10, <1>11, <1>12, CutStep
<1>14. LogTypeOK'
  BY <1>1, <1>2, <1>3, <1>4, <1>5, <1>13 DEF LogTypeOK
<1>15. ChainInv'
  BY <1>3, <1>4 DEF ChainInv, Writing
<1> QED
  BY <1>13, <1>14, <1>15 DEF Base

\* A step that changes nothing keeps Base.
LEMMA StutterStep == ASSUME Base, UNCHANGED vars PROVE Base'
<1>1. /\ bytes' = bytes /\ disk' = disk /\ told' = told /\ stored' = stored /\ tail' = tail /\ pc' = pc
      /\ at' = at /\ put' = put /\ instance' = instance /\ badRollbacks' = badRollbacks
  BY DEF vars, file, work, callers, bounds
<1>2. LogTypeOK' /\ StoredInv'
  BY <1>1 DEF Base, LogTypeOK, StoredInv
<1>3. ChainInv'
  BY <1>1 DEF Base, ChainInv, Writing, Running, Current
<1>4. (CleanByteLength(bytes))' = CleanByteLength(bytes)
  BY <1>1
<1>5. FileInv'
  BY <1>1, <1>4 DEF Base, FileInv, Writing, Current
<1> QED
  BY <1>2, <1>3, <1>5 DEF Base

-----------------------------------------------------------------------------
\* A file of whole lines, with perhaps half a line at its end, decodes to its even cells.
LEMMA AlternatingFacts ==
    ASSUME NEW f \in Seq(Cells), Alternating(f), Paired(f), NEW L, L = Len(f)
    PROVE  /\ L \in Nat /\ L \div 2 \in Nat /\ Decodable(f)
           /\ CleanByteLength(f) = 2 * (L \div 2) /\ CleanByteLength(f) % 2 = 0
           /\ CleanByteLength(f) \div 2 = L \div 2
           /\ DOMAIN Decoded(f) = 1..(L \div 2)
           /\ Decoded(f) = [i \in 1..(L \div 2) |-> f[2 * i].event]
           /\ Decoded(f) \in Seq(Events) /\ Len(Decoded(f)) = L \div 2
<1> DEFINE c == CleanByteLength(f)
<1>1. /\ c \in 0..L /\ c \in Nat /\ L \in Nat /\ DOMAIN f = 1..L
      /\ c = 0 \/ f[c].part = 2
      /\ \A i \in DOMAIN f : f[i].part = 2 => i <= c
  BY CleanFacts
<1>2. \A i \in 1..L : (f[i].part = 2) <=> (i % 2 = 0)
  BY <1>1 DEF Alternating
<1>3. c % 2 = 0
  <2> HIDE DEF c
  <2> QED
    BY <1>1, <1>2
<1>4. Decodable(f)
  <2> SUFFICES ASSUME NEW i \in 1..c
               PROVE  /\ f[i].part = (IF i % 2 = 1 THEN 1 ELSE 2)
                      /\ i % 2 = 1 => f[i].event = f[i + 1].event
    BY <1>3 DEF Decodable
  <2> HIDE DEF c
  <2>1. i \in DOMAIN f
    BY <1>1
  <2>2. f[i].part = (IF i % 2 = 1 THEN 1 ELSE 2)
    BY <2>1 DEF Alternating
  <2>3. ASSUME i % 2 = 1 PROVE f[i].event = f[i + 1].event
    <3>1. i + 1 \in 1..c /\ (i + 1) % 2 = 0 /\ (i + 1) - 1 = i
      BY <1>1, <1>3, <2>3
    <3>2. i + 1 \in DOMAIN f /\ f[i + 1].part = 2
      BY <1>1, <1>2, <3>1
    <3>3. f[i] = Cell(f[i + 1].event, 1)
      BY <3>1, <3>2 DEF Paired
    <3> QED
      BY <3>3, CellFacts
  <2> QED
    BY <2>2, <2>3
<1>5. Decoded(f) = [i \in 1..(c \div 2) |-> f[2 * i].event]
  BY <1>4 DEF Decoded
<1> HIDE DEF c
<1> DEFINE d == 2 * (L \div 2)
<1>6. d \in Nat /\ d % 2 = 0 /\ (d = L \/ d = L - 1) /\ d \div 2 = L \div 2 /\ L \div 2 \in Nat
  BY <1>1
<1>7. d <= c
  <2>1. CASE d = 0
    BY <1>1, <2>1
  <2>2. CASE d # 0
    <3>1. d \in 1..L
      BY <1>1, <1>6, <2>2
    <3> QED
      BY <1>1, <1>2, <1>6, <3>1
  <2> QED
    BY <2>1, <2>2
<1>8. c = d
  BY <1>1, <1>3, <1>6, <1>7
<1>9. c \div 2 = L \div 2
  BY <1>6, <1>8
<1>10. \A i \in 1..(L \div 2) : f[2 * i].event \in Events
  <2>1. \A i \in 1..(L \div 2) : 2 * i \in 1..L
    BY <1>1
  <2> QED
    BY <1>1, <2>1, ElementOfSeq, CellFacts
<1> DEFINE h == [i \in 1..(L \div 2) |-> f[2 * i].event]
<1>11. h \in Seq(Events) /\ DOMAIN h = 1..(L \div 2)
  BY <1>6, <1>10, IsASeq
<1>12. Len(h) = L \div 2
  <2> HIDE DEF h
  <2> QED
    BY <1>6, <1>11, LenProperties
<1> QED
  BY <1>1, <1>5, <1>3, <1>6, <1>8, <1>9, <1>11, <1>12, <1>4 DEF c

\* Two such files of as many whole lines, one the beginning of the other.
LEMMA SameDecoded ==
    ASSUME NEW f \in Seq(Cells), NEW g \in Seq(Cells), Alternating(f), Alternating(g),
           Paired(f), Paired(g),
           Len(f) \div 2 = Len(g) \div 2, \A i \in DOMAIN f : i \in DOMAIN g => f[i] = g[i]
    PROVE  Decoded(f) = Decoded(g)
<1>1. Decoded(f) = [i \in 1..(Len(f) \div 2) |-> f[2 * i].event]
  BY AlternatingFacts
<1>2. Decoded(g) = [i \in 1..(Len(f) \div 2) |-> g[2 * i].event]
  BY AlternatingFacts
<1>3. Len(f) \in Nat /\ Len(g) \in Nat /\ DOMAIN f = 1..Len(f) /\ DOMAIN g = 1..Len(g)
  BY LenProperties
<1>4. \A i \in 1..(Len(f) \div 2) : 2 * i \in 1..Len(f)
  BY <1>3
<1>5. \A i \in 1..(Len(f) \div 2) : 2 * i \in 1..Len(g)
  BY <1>3
<1>6. \A i \in 1..(Len(f) \div 2) : f[2 * i] = g[2 * i]
  BY <1>3, <1>4, <1>5
<1> QED
  BY <1>1, <1>2, <1>6

\* The same with one more line.
LEMMA MoreDecoded ==
    ASSUME NEW f \in Seq(Cells), NEW g \in Seq(Cells), Alternating(f), Alternating(g),
           Paired(f), Paired(g),
           NEW k, k = Len(f) \div 2, Len(g) \div 2 = k + 1,
           \A i \in DOMAIN f : i \in DOMAIN g => f[i] = g[i]
    PROVE  Decoded(g) = Append(Decoded(f), g[2 * (k + 1)].event)
<1> DEFINE e == g[2 * (k + 1)].event
           df == Decoded(f)
           dg == Decoded(g)
<1>1. /\ df = [i \in 1..k |-> f[2 * i].event] /\ df \in Seq(Events) /\ Len(df) = k /\ k \in Nat
  BY AlternatingFacts
<1>2. /\ dg = [i \in 1..(k + 1) |-> g[2 * i].event] /\ dg \in Seq(Events) /\ Len(dg) = k + 1
  BY AlternatingFacts
<1>3. Len(f) \in Nat /\ Len(g) \in Nat /\ DOMAIN f = 1..Len(f) /\ DOMAIN g = 1..Len(g)
  BY LenProperties
<1>4. \A i \in 1..k : 2 * i \in 1..Len(f)
  BY <1>1, <1>3
<1>5. \A i \in 1..k : 2 * i \in 1..Len(g) /\ i \in 1..(k + 1)
  BY <1>1, <1>3
<1>6. \A i \in 1..k : f[2 * i] = g[2 * i]
  BY <1>3, <1>4, <1>5
<1>7. \A i \in 1..k : dg[i] = df[i]
  BY <1>1, <1>2, <1>5, <1>6
<1>8. k + 1 \in 1..(k + 1) /\ dg[k + 1] = e
  BY <1>1, <1>2
<1>9. e \in Events
  <2>1. dg[k + 1] \in Events
    BY <1>2, <1>8, ElementOfSeq
  <2> QED
    BY <1>8, <2>1
<1> HIDE DEF df, dg, e
<1>10. /\ Append(df, e) \in Seq(Events) /\ Len(Append(df, e)) = k + 1
       /\ Append(df, e)[k + 1] = e /\ \A i \in 1..k : Append(df, e)[i] = df[i]
  BY <1>1, <1>9, AppendProperties
<1>11. \A i \in 1..(k + 1) : i \in 1..k \/ i = k + 1
  BY <1>1
<1>12. \A i \in 1..(k + 1) : dg[i] = Append(df, e)[i]
  BY <1>7, <1>8, <1>10, <1>11, Zenon
<1>13. dg = Append(df, e)
  BY <1>2, <1>10, <1>12, SeqEqual
<1> QED
  BY <1>13 DEF df, dg, e

\* The synced part of such a file is one too, and so is any beginning of it.
LEMMA CutAlternating ==
    ASSUME LogTypeOK, FileInv, Alternating(bytes)
    PROVE  /\ Alternating(disk) /\ Paired(bytes) /\ Paired(disk)
           /\ \A n \in 0..Len(bytes) : /\ Alternating(SubSeq(bytes, 1, n))
                                        /\ Paired(SubSeq(bytes, 1, n))
<1>1. Alternating(disk)
  BY LineFacts DEF FileInv, Alternating
<1>2. Paired(bytes)
  BY DEF FileInv, Paired
<1>3. Paired(disk)
  <2> SUFFICES ASSUME NEW i \in DOMAIN disk, disk[i].part = 2
               PROVE  i - 1 \in DOMAIN disk /\ disk[i - 1] = Cell(disk[i].event, 1)
    BY DEF Paired
  <2>1. /\ DOMAIN disk = 1..Len(disk) /\ DOMAIN bytes = 1..Len(bytes) /\ Len(disk) \in Nat
        /\ Len(bytes) \in Nat /\ Len(disk) <= Len(bytes) /\ \A x \in DOMAIN disk : disk[x] = bytes[x]
    BY LenProperties DEF LogTypeOK, FileInv
  <2>2. i \in DOMAIN bytes /\ disk[i] = bytes[i]
    BY <2>1
  <2>3. i - 1 \in DOMAIN bytes /\ bytes[i - 1] = Cell(bytes[i].event, 1)
    BY <1>2, <2>2 DEF Paired
  <2>4. i - 1 \in DOMAIN disk
    BY <2>1, <2>3
  <2> QED
    BY <2>1, <2>2, <2>3, <2>4
<1>4. ASSUME NEW n \in 0..Len(bytes)
      PROVE  Alternating(SubSeq(bytes, 1, n)) /\ Paired(SubSeq(bytes, 1, n))
  <2> DEFINE g == SubSeq(bytes, 1, n)
  <2>1. DOMAIN g = 1..n /\ \A i \in 1..n : g[i] = bytes[i] /\ i \in DOMAIN bytes
    BY <1>4, CutFacts DEF LogTypeOK
  <2> HIDE DEF g
  <2>2. \A i \in DOMAIN g : g[i].part = IF i % 2 = 1 THEN 1 ELSE 2
    BY <2>1 DEF Alternating
  <2>3. ASSUME NEW i \in DOMAIN g, g[i].part = 2
        PROVE  i - 1 \in DOMAIN g /\ g[i - 1] = Cell(g[i].event, 1)
    <3>1. i \in DOMAIN bytes /\ g[i] = bytes[i] /\ DOMAIN bytes = 1..Len(bytes)
      BY <2>1, <2>3, LenProperties DEF LogTypeOK
    <3>2. i - 1 \in DOMAIN bytes /\ bytes[i - 1] = Cell(bytes[i].event, 1)
      BY <1>2, <2>3, <3>1 DEF Paired
    <3>3. i - 1 \in 1..n
      BY <2>1, <3>1, <3>2
    <3> QED
      BY <2>1, <3>1, <3>2, <3>3
  <2> QED
    BY <2>2, <2>3 DEF Alternating, Paired, g
<1> QED
  BY <1>1, <1>4, <1>2, <1>3

\* Where the file is not touched.
LEMMA QuietClean ==
    ASSUME CleanFile, bytes' = bytes, disk' = disk,
           Writing' <=> Writing, Writing => at' = at,
           (\E i \in DOMAIN tail'[W] : tail'[W][i].op = "append") => instance'[W] = "open",
           instance'[W] = "open" => instance[W] = "open" \/ Len(bytes) % 2 = 0
    PROVE  CleanFile'
BY DEF CleanFile, Alternating

\* The chain holds an append after the settled one left only if it held one before.
LEMMA SettleAppends ==
    ASSUME OneWriter, Base, CleanFile, tail[W] # <<>>, Settled(W),
           \A i \in DOMAIN tail[W] :
             tail[W][i].op = "append" /\ told'[tail[W][i].event] # told[tail[W][i].event] => i = 1
    PROVE  /\ (\E i \in DOMAIN tail'[W] : tail'[W][i].op = "append") => instance[W] = "open"
           /\ ~Writing' /\ pc'[W] = "ready"
<1>1. /\ \A i \in DOMAIN tail'[W] : \E j \in DOMAIN tail[W] : tail'[W][i] = tail[W][j]
      /\ ~Writing' /\ pc'[W] = "ready"
  BY ChainSettle DEF Base
<1> QED
  BY <1>1 DEF CleanFile

\* An operation joins the chain.
LEMMA EnqueueClean ==
    ASSUME OneWriter, Base, CleanFile, NEW o \in Operations, Enqueue(W, o),
           bytes' = bytes, disk' = disk, pc' = pc, at' = at,
           o.op = "append" => instance[W] = "open",
           instance[W] = "open" => instance'[W] = "open",
           instance'[W] = "open" => instance[W] = "open"
    PROVE  CleanFile'
<1> DEFINE q == tail[W]
<1>1. W \in Writers /\ q \in Seq(Operations) /\ tail \in [Writers -> Seq(Operations)]
  BY HeadFacts DEF Base, LogTypeOK
<1>2. tail'[W] = Append(q, o)
  BY <1>1 DEF Enqueue
<1>3. /\ DOMAIN Append(q, o) = 1..(Len(q) + 1) /\ Len(q) \in Nat /\ DOMAIN q = 1..Len(q)
      /\ Append(q, o)[Len(q) + 1] = o /\ \A i \in 1..Len(q) : Append(q, o)[i] = q[i]
  BY <1>1, QueueFacts
<1>4. \A i \in 1..(Len(q) + 1) : i \in DOMAIN q \/ i = Len(q) + 1
  BY <1>3
<1>5. (\E i \in DOMAIN q : q[i].op = "append") => instance[W] = "open"
  BY DEF CleanFile
<1> HIDE DEF q
<1>6. (\E i \in DOMAIN tail'[W] : tail'[W][i].op = "append") => instance[W] = "open"
  BY <1>2, <1>3, <1>4, <1>5, Zenon
<1>7. Writing' <=> Writing
  BY DEF Writing
<1> QED
  BY <1>6, <1>7, QuietClean

\* The file is cut after whole lines, or its instance is closed.
LEMMA CutClean ==
    ASSUME Base, CleanFile, NEW n \in 0..Len(bytes), bytes' = SubSeq(bytes, 1, n), disk' = bytes',
           ~Writing',
           (\E i \in DOMAIN tail'[W] : tail'[W][i].op = "append") => instance'[W] = "open",
           instance'[W] = "open" => n % 2 = 0
    PROVE  CleanFile'
<1>1. Alternating(bytes)'
  <2>1. \A k \in 0..Len(bytes) : Alternating(SubSeq(bytes, 1, k))
    BY CutAlternating DEF Base, CleanFile
  <2>2. Alternating(bytes')
    BY <2>1
  <2> QED
    BY <2>2 DEF Alternating
<1>2. Len(bytes') = n
  BY CutFacts DEF Base, LogTypeOK
<1> QED
  BY <1>1, <1>2 DEF CleanFile

-----------------------------------------------------------------------------
\* What a step of the contract looks like to the file.
SameLog == Decoded(disk') = Decoded(disk)
Silent == SameLog /\ told' = told
Refuses == SameLog /\ \E e \in Events : told[e] = "none" /\ told' = [told EXCEPT ![e] = "failed"]
Commits == \E e \in Events : /\ told[e] = "none" /\ told' = [told EXCEPT ![e] = "stored"]
                             /\ Decoded(disk') = Append(Decoded(disk), e)
Loses == LET lost == {e \in Events : Pending(e)} IN
         /\ \A e \in lost : told[e] = "none"
         /\ told' = [e \in Events |-> IF e \in lost THEN "lost" ELSE told[e]]
         /\ SameLog \/ \E e \in lost : Decoded(disk') = Append(Decoded(disk), e)

\* OpenLog keeps CleanFile, and the contract stutters.
LEMMA OpenLogClean == ASSUME OneWriter, Base, CleanFile, OpenLog(W) PROVE CleanFile' /\ Silent
<1>1. [op |-> "read", event |-> NoEvent] \in Operations /\ W \in Writers
  BY HeadFacts DEF Base
<1>2. instance'[W] = "opening" /\ instance[W] = "closed"
  BY <1>1 DEF OpenLog, Base, LogTypeOK
<1>3. bytes' = bytes /\ disk' = disk /\ pc' = pc /\ at' = at /\ told' = told
  BY DEF OpenLog, file, callers
<1>4. CleanFile'
  BY <1>1, <1>2, <1>3, EnqueueClean DEF OpenLog
<1> QED
  BY <1>3, <1>4 DEF Silent, SameLog

\* Read keeps CleanFile, and the contract stutters.
LEMMA ReadClean == ASSUME OneWriter, Base, CleanFile, Read(W) PROVE CleanFile' /\ Silent
<1>1. [op |-> "read", event |-> NoEvent] \in Operations
  BY HeadFacts DEF Base
<1>2. bytes' = bytes /\ disk' = disk /\ pc' = pc /\ at' = at /\ told' = told /\ instance' = instance
  BY DEF Read, file, callers
<1>3. CleanFile'
  BY <1>1, <1>2, EnqueueClean DEF Read
<1> QED
  BY <1>2, <1>3 DEF Silent, SameLog

\* AppendEvent keeps CleanFile, and the contract stutters.
LEMMA AppendEventClean ==
    ASSUME OneWriter, Base, CleanFile, NEW e \in Events, AppendEvent(W, e)
    PROVE  CleanFile' /\ Silent
<1>1. [op |-> "append", event |-> e] \in Operations
  BY HeadFacts DEF Base
<1>2. bytes' = bytes /\ disk' = disk /\ pc' = pc /\ at' = at /\ told' = told /\ instance' = instance
  BY DEF AppendEvent, file, callers
<1>3. CleanFile'
  BY <1>1, <1>2, EnqueueClean DEF AppendEvent
<1> QED
  BY <1>2, <1>3 DEF Silent, SameLog

\* ReadFile keeps CleanFile, and the contract stutters.
LEMMA ReadFileClean == ASSUME OneWriter, Base, CleanFile, ReadFile(W) PROVE CleanFile' /\ Silent
<1>1. LogTypeOK /\ ChainInv /\ FileInv /\ W \in Writers
  BY HeadFacts DEF Base
<1>2. bytes' = bytes /\ disk' = disk /\ told' = told
  BY DEF ReadFile, file, callers
<1>3. tail[W] # <<>> /\ ~Writing
  BY <1>1, ReadingFacts DEF ReadFile
<1> SUFFICES CleanFile'
  BY <1>2 DEF Silent, SameLog
<1>4. ASSUME Settled(W), UNCHANGED at,
             instance[W] = "open" => instance'[W] = "open",
             instance'[W] = "open" => instance[W] = "open" \/ Len(bytes) % 2 = 0
      PROVE  CleanFile'
  <2>1. /\ (\E i \in DOMAIN tail'[W] : tail'[W][i].op = "append") => instance[W] = "open"
        /\ ~Writing'
    BY <1>2, <1>3, <1>4, SettleAppends
  <2> QED
    BY <1>2, <1>3, <1>4, <2>1, QuietClean
<1>5. CASE /\ instance' = [instance EXCEPT ![W] = IF @ = "opening" THEN "refused" ELSE @]
           /\ Settled(W) /\ UNCHANGED at
  <2>1. instance'[W] = IF instance[W] = "opening" THEN "refused" ELSE instance[W]
    BY <1>1, <1>5 DEF LogTypeOK
  <2>2. /\ instance[W] = "open" => instance'[W] = "open"
        /\ instance'[W] = "open" => instance[W] = "open"
    BY <2>1
  <2> QED
    BY <1>4, <1>5, <2>2, Zenon
<1>6. CASE CleanByteLength(bytes) = Len(bytes) /\ Loaded(W) /\ Settled(W) /\ UNCHANGED at
  <2>1. instance'[W] = "open"
    BY <1>1, <1>6 DEF LogTypeOK, Loaded
  <2>2. Len(bytes) % 2 = 0
    <3>1. CleanByteLength(bytes) % 2 = 0
      BY <1>1, CutAlternating, AlternatingFacts DEF Base, LogTypeOK, CleanFile
    <3> QED
      BY <1>6, <3>1
  <2> QED
    BY <1>4, <1>6, <2>1, <2>2, Zenon
<1>7. CASE Goto(W, "truncating") /\ UNCHANGED <<instance, tail>>
  <2>1. ~Writing'
    BY <1>1, <1>7 DEF Goto, Writing, LogTypeOK
  <2>2. (\E i \in DOMAIN tail'[W] : tail'[W][i].op = "append") => instance'[W] = "open"
    BY <1>7 DEF CleanFile
  <2>3. instance'[W] = instance[W]
    BY <1>7
  <2> QED
    BY <1>2, <1>3, <2>1, <2>2, <2>3, QuietClean, Zenon
<1> QED
  BY <1>5, <1>6, <1>7 DEF ReadFile, Rejected

\* ReadFails keeps CleanFile, and the contract stutters.
LEMMA ReadFailsClean == ASSUME OneWriter, Base, CleanFile, ReadFails(W) PROVE CleanFile' /\ Silent
<1>1. LogTypeOK /\ ChainInv /\ W \in Writers
  BY HeadFacts DEF Base
<1>2. bytes' = bytes /\ disk' = disk /\ told' = told /\ at' = at
  BY DEF ReadFails, file, callers
<1>3. tail[W] # <<>> /\ ~Writing
  BY <1>1, ReadingFacts DEF ReadFails
<1>4. instance'[W] = IF instance[W] = "opening" THEN "closed" ELSE instance[W]
  BY <1>1 DEF ReadFails, LogTypeOK
<1>5. /\ (\E i \in DOMAIN tail'[W] : tail'[W][i].op = "append") => instance[W] = "open"
      /\ ~Writing'
  BY <1>2, <1>3, SettleAppends DEF ReadFails, Rejected
<1>6. CleanFile'
  BY <1>2, <1>3, <1>4, <1>5, QuietClean
<1> QED
  BY <1>2, <1>6 DEF Silent, SameLog

\* TruncateTail keeps CleanFile, and the contract stutters.
LEMMA TruncateTailClean ==
    ASSUME OneWriter, Base, CleanFile, TruncateTail(W)
    PROVE  CleanFile' /\ Silent
<1>1. LogTypeOK /\ ChainInv /\ FileInv /\ W \in Writers /\ bytes \in Seq(Cells)
  BY HeadFacts DEF Base, LogTypeOK
<1>2. told' = told /\ disk' = bytes' /\ Settled(W) /\ pc[W] = "truncating"
  BY DEF TruncateTail, callers
<1>3. tail[W] # <<>> /\ ~Writing
  BY <1>1, ReadingFacts DEF TruncateTail
<1>4. bytes = disk /\ Alternating(bytes)
  BY <1>3 DEF CleanFile
<1>5. instance'[W] = "open"
  BY <1>1 DEF TruncateTail, Loaded, LogTypeOK
<1>6. ~Writing'
  BY <1>2, <1>3, SettleAppends
<1> DEFINE n == CleanByteLength(bytes)
<1>7. at[W] = n
  BY <1>1, <1>2 DEF FileInv
<1>8. n \in 0..Len(bytes) /\ n \in Nat
  BY <1>1, CleanFacts
<1>9. n % 2 = 0 /\ n \div 2 = Len(bytes) \div 2
  BY <1>1, <1>4, CutAlternating, AlternatingFacts
<1> HIDE DEF n
<1>10. bytes' = SubSeq(bytes, 1, n)
  BY <1>1, <1>7, <1>8, CutFacts DEF TruncateTail
<1>11. CleanFile'
  BY <1>2, <1>5, <1>6, <1>8, <1>9, <1>10, CutClean
<1> DEFINE g == SubSeq(bytes, 1, n)
<1>12. /\ g \in Seq(Cells) /\ Len(g) = n /\ DOMAIN g = 1..n
       /\ \A i \in 1..n : g[i] = bytes[i]
  BY <1>1, <1>8, CutFacts
<1>13. Alternating(g) /\ Paired(g) /\ Paired(bytes)
  BY <1>1, <1>4, <1>8, CutAlternating
<1> HIDE DEF g
<1>14. Decoded(g) = Decoded(bytes)
  <2>1. Len(g) \div 2 = Len(bytes) \div 2
    BY <1>9, <1>12
  <2> QED
    BY <1>1, <1>4, <1>12, <1>13, <2>1, SameDecoded
<1> QED
  BY <1>2, <1>4, <1>10, <1>11, <1>14 DEF Silent, SameLog, g

\* Stat keeps CleanFile, and the contract stutters.
LEMMA StatClean == ASSUME OneWriter, Base, CleanFile, Stat(W) PROVE CleanFile' /\ Silent
<1>1. LogTypeOK /\ ChainInv /\ W \in Writers
  BY HeadFacts DEF Base
<1>2. bytes' = bytes /\ disk' = disk /\ told' = told /\ tail' = tail /\ instance' = instance
  BY DEF Stat, file, callers
<1>3. ~Writing /\ Running(W, "append")
  BY DEF Stat, Writing
<1>4. Writing' /\ at'[W] = Len(bytes)
  BY <1>1 DEF Stat, Goto, Writing, LogTypeOK
<1>5. \E i \in DOMAIN tail[W] : tail[W][i].op = "append"
  BY <1>1, <1>3, HeadFacts DEF Running
<1>6. instance[W] = "open" /\ bytes = disk /\ Len(bytes) % 2 = 0
  BY <1>3, <1>5 DEF CleanFile
<1>7. CleanFile'
  BY <1>2, <1>4, <1>6 DEF CleanFile, Alternating
<1> QED
  BY <1>2, <1>7 DEF Silent, SameLog

\* Write keeps CleanFile, and the contract stutters.
LEMMA WriteClean == ASSUME OneWriter, Base, CleanFile, Write(W) PROVE CleanFile' /\ Silent
<1> DEFINE e == Current(W).event
           L == Len(bytes)
           p == put[W] + 1
           c == Cell(e, p)
<1>1. LogTypeOK /\ ChainInv /\ FileInv /\ W \in Writers /\ bytes \in Seq(Cells)
  BY HeadFacts DEF Base, LogTypeOK
<1>2. Writing /\ Running(W, "append")
  BY DEF Write, Writing
<1>3. disk' = disk /\ told' = told /\ tail' = tail /\ pc' = pc /\ at' = at /\ instance' = instance
  BY DEF Write, callers
<1>4. at[W] \in Nat /\ put[W] \in {0, 1, 2} /\ L = at[W] + put[W]
  BY <1>1, <1>2, RollbackFacts
<1>5. p \in {1, 2} /\ L + 1 = at[W] + p
  BY <1>4 DEF Write, Remains
<1>6. c \in Cells /\ c.part = p
  BY <1>1, <1>2, <1>5, AppendingFacts, CellFacts
<1>7. bytes' = WrittenAt(bytes, L, c)
  BY <1>4 DEF Write
<1> HIDE DEF c
<1>8. /\ DOMAIN bytes' = 1..(L + 1) /\ DOMAIN bytes = 1..L /\ L \in Nat
      /\ bytes'[L + 1] = c /\ \A i \in DOMAIN bytes : bytes'[i] = bytes[i]
  <2>1. bytes \in Seq(Cells)
    BY <1>1
  <2>2. \A x \in Cells : \A g : g = WrittenAt(bytes, Len(bytes), x) =>
          /\ g \in Seq(Cells) /\ Len(g) = Len(bytes) + 1 /\ Len(bytes) \in Nat
          /\ DOMAIN g = 1..(Len(bytes) + 1) /\ DOMAIN bytes = 1..Len(bytes)
          /\ g[Len(bytes) + 1] = x /\ \A i \in DOMAIN bytes : g[i] = bytes[i]
    BY <2>1, WriteFacts
  <2> DEFINE b == bytes'
  <2>3. b = WrittenAt(bytes, Len(bytes), c) /\ c \in Cells
    BY <1>6, <1>7
  <2> HIDE DEF b
  <2>4. /\ DOMAIN b = 1..(Len(bytes) + 1) /\ DOMAIN bytes = 1..Len(bytes) /\ Len(bytes) \in Nat
        /\ b[Len(bytes) + 1] = c /\ \A i \in DOMAIN bytes : b[i] = bytes[i]
    BY <2>2, <2>3, Zenon
  <2> QED
    BY <2>4 DEF b
<1>9. at[W] % 2 = 0
  BY <1>2 DEF CleanFile
<1>10. p = IF (L + 1) % 2 = 1 THEN 1 ELSE 2
  BY <1>4, <1>5, <1>9
<1>11. \A i \in DOMAIN bytes' : i \in DOMAIN bytes \/ i = L + 1
  BY <1>8
<1>12. \A i \in DOMAIN bytes' : bytes'[i].part = IF i % 2 = 1 THEN 1 ELSE 2
  <2>1. \A i \in DOMAIN bytes : bytes[i].part = IF i % 2 = 1 THEN 1 ELSE 2
    BY DEF CleanFile, Alternating
  <2> HIDE DEF L, p
  <2> QED
    BY <1>6, <1>8, <1>10, <1>11, <2>1
<1>13. Alternating(bytes)' /\ Writing'
  BY <1>2, <1>3, <1>12 DEF Alternating, Writing
<1>14. CleanFile'
  BY <1>2, <1>3, <1>13 DEF CleanFile
<1> QED
  BY <1>3, <1>14 DEF Silent, SameLog

\* WriteFails keeps CleanFile, and the contract stutters.
LEMMA WriteFailsClean == ASSUME OneWriter, Base, CleanFile, WriteFails(W) PROVE CleanFile' /\ Silent
<1>1. LogTypeOK /\ W \in Writers
  BY HeadFacts DEF Base
<1>2. /\ bytes' = bytes /\ disk' = disk /\ told' = told /\ tail' = tail /\ at' = at
      /\ instance' = instance
  BY DEF WriteFails, file, callers
<1>3. Writing /\ Writing'
  BY <1>1 DEF WriteFails, Goto, Writing, LogTypeOK
<1>4. CleanFile'
  BY <1>2, <1>3 DEF CleanFile, Alternating
<1> QED
  BY <1>2, <1>4 DEF Silent, SameLog

\* A failed append is told so and nobody else hears of it.
LEMMA FailsFacts ==
    ASSUME OneWriter, Base, CleanFile, Running(W, "append"), Settled(W),
           Tell(Current(W).event, "failed")
    PROVE  /\ \E e \in Events : told[e] = "none" /\ told' = [told EXCEPT ![e] = "failed"]
           /\ (\E i \in DOMAIN tail'[W] : tail'[W][i].op = "append") => instance[W] = "open"
           /\ ~Writing' /\ instance[W] = "open"
<1> DEFINE e == Current(W).event
<1>1. LogTypeOK /\ ChainInv
  BY DEF Base
<1>2. /\ tail[W] # <<>> /\ e \in Events /\ told[e] = "none"
      /\ \A i \in DOMAIN tail[W] : tail[W][i].op = "append" /\ tail[W][i].event = e => i = 1
  BY <1>1, AppendingFacts
<1>3. Tell(e, "failed")
  OBVIOUS
<1>4. instance[W] = "open"
  <2>1. \E i \in DOMAIN tail[W] : tail[W][i].op = "append"
    BY <1>1, HeadFacts DEF Running
  <2> QED
    BY <2>1 DEF CleanFile
<1> HIDE DEF e
<1>5. \A x \in Events : x # e => told'[x] = told[x]
  BY <1>1, <1>2, <1>3, TellFacts
<1>6. \A i \in DOMAIN tail[W] :
        tail[W][i].op = "append" /\ told'[tail[W][i].event] # told[tail[W][i].event] => i = 1
  BY <1>1, <1>2, <1>5, HeadFacts
<1>7. /\ (\E i \in DOMAIN tail'[W] : tail'[W][i].op = "append") => instance[W] = "open"
      /\ ~Writing'
  BY <1>2, <1>6, SettleAppends
<1> QED
  BY <1>2, <1>3, <1>4, <1>7 DEF Tell

\* AppendRefused keeps CleanFile, and the contract rejects the event.
LEMMA AppendRefusedClean ==
    ASSUME OneWriter, Base, CleanFile, AppendRefused(W)
    PROVE  CleanFile' /\ Refuses
<1>1. /\ \E e \in Events : told[e] = "none" /\ told' = [told EXCEPT ![e] = "failed"]
      /\ (\E i \in DOMAIN tail'[W] : tail'[W][i].op = "append") => instance[W] = "open"
      /\ ~Writing'
  BY FailsFacts DEF AppendRefused, Rejected
<1>2. bytes' = bytes /\ disk' = disk /\ at' = at /\ instance' = instance /\ ~Writing
  BY DEF AppendRefused, file, Writing
<1>3. CleanFile'
  BY <1>1, <1>2, QuietClean
<1> QED
  BY <1>1, <1>2, <1>3 DEF Refuses, SameLog

\* Rollback keeps CleanFile, and the contract rejects the event.
LEMMA RollbackClean == ASSUME OneWriter, Base, CleanFile, Rollback(W) PROVE CleanFile' /\ Refuses
<1>1. /\ \E e \in Events : told[e] = "none" /\ told' = [told EXCEPT ![e] = "failed"]
      /\ (\E i \in DOMAIN tail'[W] : tail'[W][i].op = "append") => instance[W] = "open"
      /\ ~Writing'
  BY FailsFacts DEF Rollback, Rejected
<1>2. Writing /\ LogTypeOK /\ FileInv /\ bytes \in Seq(Cells) /\ disk \in Seq(Cells)
  BY DEF Rollback, Writing, Base, LogTypeOK
<1> DEFINE n == at[W]
<1>3. n \in 0..Len(bytes) /\ n \in Nat /\ Truncated(bytes, n) = SubSeq(bytes, 1, n)
  BY <1>2, RollbackFacts
<1>4. Len(disk) = n /\ n % 2 = 0 /\ \A i \in DOMAIN disk : disk[i] = bytes[i]
  BY <1>2 DEF CleanFile, FileInv
<1> DEFINE g == SubSeq(bytes, 1, n)
<1>5. bytes' = g /\ disk' = bytes' /\ instance' = instance
  BY <1>3 DEF Rollback, RolledBack
<1>6. CleanFile'
  BY <1>1, <1>3, <1>4, <1>5, CutClean
<1>7. g \in Seq(Cells) /\ Len(g) = n /\ \A i \in 1..n : g[i] = bytes[i]
  BY <1>2, <1>3, CutFacts
<1> HIDE DEF g, n
<1>8. disk = g
  <2>1. DOMAIN disk = 1..n
    BY <1>2, <1>4, LineFacts
  <2> QED
    BY <1>2, <1>4, <1>7, <2>1, SeqEqual
<1> QED
  BY <1>1, <1>5, <1>6, <1>8 DEF Refuses, SameLog

\* A file with the line being written, whole, after the synced ones.
LEMMA LineDecoded ==
    ASSUME OneWriter, Base, CleanFile, Writing, NEW n \in 0..Len(bytes), Len(disk) <= n,
           NEW g, g = SubSeq(bytes, 1, n)
    PROVE  \/ Decoded(g) = Decoded(disk)
           \/ n = at[W] + 2 /\ Decoded(g) = Append(Decoded(disk), Current(W).event)
<1> DEFINE a == at[W]
<1>1. LogTypeOK /\ FileInv /\ bytes \in Seq(Cells) /\ disk \in Seq(Cells)
  BY DEF Base, LogTypeOK
<1>2. a \in Nat /\ put[W] \in {0, 1, 2} /\ Len(bytes) = a + put[W]
  BY <1>1, RollbackFacts
<1>3. /\ Len(disk) = a /\ a % 2 = 0 /\ Alternating(bytes)
      /\ \A i \in DOMAIN disk : disk[i] = bytes[i]
      /\ \A i \in DOMAIN bytes : i > a => bytes[i] = Cell(Current(W).event, i - a)
  BY <1>1 DEF CleanFile, FileInv
<1>4. /\ g \in Seq(Cells) /\ Len(g) = n /\ DOMAIN g = 1..n /\ DOMAIN bytes = 1..Len(bytes)
      /\ \A i \in 1..n : g[i] = bytes[i] /\ i \in DOMAIN bytes
  BY <1>1, CutFacts
<1>5. Alternating(disk) /\ Alternating(g) /\ Paired(disk) /\ Paired(g)
  BY <1>1, <1>3, CutAlternating
<1> HIDE DEF a
<1>6. \A i \in DOMAIN disk : i \in DOMAIN g => disk[i] = g[i]
  BY <1>3, <1>4
<1>7. n \in Nat /\ (n = a \/ n = a + 1 \/ n = a + 2)
  BY <1>2, <1>3
<1>8. CASE n = a \/ n = a + 1
  <2>1. n \div 2 = a \div 2
    BY <1>2, <1>3, <1>8
  <2>2. Len(disk) \div 2 = Len(g) \div 2
    BY <1>3, <1>4, <2>1, Zenon
  <2> QED
    BY <1>1, <1>4, <1>5, <1>6, <2>2, SameDecoded
<1>9. CASE n = a + 2
  <2> DEFINE k == a \div 2
  <2>1. n \div 2 = k + 1 /\ 2 * (k + 1) = n /\ n > a /\ n \in 1..n /\ n - a = 2
    BY <1>2, <1>3, <1>9
  <2> HIDE DEF k
  <2>2. Len(disk) \div 2 = k /\ Len(g) \div 2 = k + 1
    BY <1>3, <1>4, <2>1, Zenon DEF k
  <2>3. Decoded(g) = Append(Decoded(disk), g[2 * (k + 1)].event)
    BY <1>1, <1>4, <1>5, <1>6, <2>2, MoreDecoded
  <2>4. \A i \in DOMAIN bytes : i > a => bytes[i].event = Current(W).event
    BY <1>3, CellFacts
  <2>5. g[n].event = Current(W).event
    BY <1>4, <2>1, <2>4
  <2>6. g[2 * (k + 1)].event = Current(W).event
    BY <2>1, <2>5
  <2> QED
    BY <1>9, <2>3, <2>6 DEF a
<1> QED
  BY <1>7, <1>8, <1>9

\* Sync keeps CleanFile, and the contract commits the event.
LEMMA SyncClean == ASSUME OneWriter, Base, CleanFile, Sync(W) PROVE CleanFile' /\ Commits
<1> DEFINE e == Current(W).event
<1>1. LogTypeOK /\ ChainInv /\ FileInv /\ bytes \in Seq(Cells) /\ disk \in Seq(Cells)
  BY DEF Base, LogTypeOK
<1>2. Writing /\ Running(W, "append") /\ Settled(W) /\ Tell(e, "stored")
  BY DEF Sync, Writing
<1>3. bytes' = bytes /\ disk' = bytes /\ instance' = instance
  BY DEF Sync, Flushed
<1>4. /\ tail[W] # <<>> /\ e \in Events /\ told[e] = "none"
      /\ \A i \in DOMAIN tail[W] : tail[W][i].op = "append" /\ tail[W][i].event = e => i = 1
  BY <1>1, <1>2, AppendingFacts
<1>5. at[W] \in Nat /\ put[W] \in {0, 1, 2} /\ Len(bytes) = at[W] + put[W]
  BY <1>1, <1>2, RollbackFacts
<1>6. Len(bytes) = at[W] + 2
  BY <1>5 DEF Sync, Remains
<1>7. Len(disk) = at[W] /\ at[W] % 2 = 0 /\ Alternating(bytes)
  BY <1>2 DEF CleanFile
<1>8. Len(bytes) % 2 = 0
  BY <1>5, <1>6, <1>7
<1>9. Decoded(bytes) = Append(Decoded(disk), e)
  <2>1. Len(bytes) \in 0..Len(bytes) /\ Len(disk) <= Len(bytes)
    BY <1>5, <1>6, <1>7
  <2>2. bytes = SubSeq(bytes, 1, Len(bytes))
    BY <1>1, SubSeqFull
  <2>3. Decoded(bytes) # Decoded(disk)
    <3>1. Len(Decoded(bytes)) = Len(bytes) \div 2
      BY <1>1, <1>7, CutAlternating, AlternatingFacts
    <3>2. Alternating(disk) /\ Paired(disk)
      BY <1>1, <1>7, CutAlternating
    <3>3. Len(Decoded(disk)) = Len(disk) \div 2
      BY <1>1, <3>2, AlternatingFacts
    <3>4. at[W] \div 2 # (at[W] + 2) \div 2
      BY <1>5
    <3> QED
      BY <1>6, <1>7, <3>1, <3>3, <3>4, Zenon
  <2> QED
    BY <1>2, <2>1, <2>2, <2>3, LineDecoded
<1> HIDE DEF e
<1>10. \A x \in Events : x # e => told'[x] = told[x]
  BY <1>1, <1>2, <1>4, TellFacts
<1>11. \A i \in DOMAIN tail[W] :
         tail[W][i].op = "append" /\ told'[tail[W][i].event] # told[tail[W][i].event] => i = 1
  BY <1>1, <1>4, <1>10, HeadFacts
<1>12. /\ (\E i \in DOMAIN tail'[W] : tail'[W][i].op = "append") => instance[W] = "open"
       /\ ~Writing'
  BY <1>2, <1>4, <1>11, SettleAppends
<1>13. CleanFile'
  BY <1>3, <1>7, <1>8, <1>12 DEF CleanFile, Alternating
<1>14. Commits
  BY <1>2, <1>3, <1>4, <1>9 DEF Commits, Tell
<1> QED
  BY <1>13, <1>14

\* Crash keeps CleanFile, and the contract loses what was pending.
LEMMA CrashClean == ASSUME OneWriter, Base, CleanFile, Crash PROVE CleanFile' /\ Loses
<1>1. LogTypeOK /\ ChainInv /\ FileInv /\ W \in Writers /\ bytes \in Seq(Cells) /\ disk \in Seq(Cells)
  BY HeadFacts DEF Base, LogTypeOK
<1>2. PICK n \in 0..Len(bytes) : Len(disk) <= n /\ bytes' = SubSeq(bytes, 1, n)
  BY <1>1, CrashFacts DEF Crash
<1>3. /\ disk' = bytes' /\ ~Writing' /\ DOMAIN tail'[W] = {} /\ instance'[W] = "closed"
  BY <1>1 DEF Crash, Writing
<1>4. CleanFile'
  BY <1>2, <1>3, CutClean
<1> DEFINE lost == {e \in Events : Pending(e)}
<1>5. \A e \in lost : told[e] = "none"
  <2> SUFFICES ASSUME NEW e \in Events, Pending(e) PROVE told[e] = "none"
    OBVIOUS
  <2>1. PICK i \in DOMAIN tail[W] : tail[W][i].event = e
    BY DEF Pending, OneWriter
  <2>2. tail[W][i].op = "append"
    BY <1>1, <2>1, HeadFacts
  <2> QED
    BY <1>1, <2>1, <2>2 DEF ChainInv
<1>6. told' = [e \in Events |-> IF e \in lost THEN "lost" ELSE told[e]]
  BY DEF Crash
<1>7. CASE ~Writing
  <2>1. bytes = disk /\ Len(bytes) \in Nat
    BY <1>1, <1>7, LineFacts DEF CleanFile
  <2>2. n = Len(bytes)
    BY <1>2, <2>1
  <2>3. bytes' = bytes
    BY <1>1, <1>2, <2>2, SubSeqFull
  <2>4. SameLog
    BY <1>3, <2>1, <2>3 DEF SameLog
  <2> QED
    BY <1>4, <1>5, <1>6, <2>4 DEF Loses
<1>8. CASE Writing
  <2>1. Running(W, "append")
    BY <1>1, <1>8 DEF ChainInv
  <2>2. tail[W] # <<>> /\ Current(W).event \in Events
    BY <1>1, <2>1, AppendingFacts
  <2>3. 1 \in DOMAIN tail[W] /\ Current(W) = tail[W][1]
    BY <1>1, <2>2, HeadFacts
  <2>4. Current(W).event \in lost
    BY <1>1, <2>2, <2>3 DEF Pending
  <2>5. \/ Decoded(bytes') = Decoded(disk)
        \/ Decoded(bytes') = Append(Decoded(disk), Current(W).event)
    BY <1>2, <1>8, LineDecoded
  <2> QED
    BY <1>3, <1>4, <1>5, <1>6, <2>4, <2>5 DEF Loses, SameLog
<1> QED
  BY <1>7, <1>8

-----------------------------------------------------------------------------
\* The initial state satisfies Base ...
LEMMA BaseInit == ASSUME OneWriter, Init PROVE Base
<1>1. W \in Writers
  BY DEF OneWriter
<1>2. pc[W] = "ready" /\ tail[W] = <<>> /\ DOMAIN tail[W] = {} /\ ~Writing
  BY <1>1 DEF Init, Writing
<1>3. DOMAIN bytes = {} /\ DOMAIN disk = {} /\ DOMAIN stored = {} /\ Len(disk) <= Len(bytes)
  BY DEF Init
<1>4. LogTypeOK
  BY DEF Init, LogTypeOK
<1>5. ChainInv
  BY <1>2 DEF ChainInv
<1>6. FileInv /\ StoredInv
  BY <1>2, <1>3 DEF FileInv, StoredInv
<1> QED
  BY <1>4, <1>5, <1>6 DEF Base

\* ... and every step keeps it.
LEMMA BaseNext == ASSUME OneWriter, Base, [Next]_vars PROVE Base'
<1>1. CASE Crash
  BY <1>1, CrashStep
<1>2. CASE UNCHANGED vars
  BY <1>2, StutterStep
<1>3. CASE Step(W)
  BY <1>3, ReadFileStep, TruncateTailStep, StatStep, WriteStep, SyncStep, RollbackStep DEF
     Step
<1>4. CASE Failure(W)
  BY <1>4, ReadFailsStep, AppendRefusedStep, WriteFailsStep, RollbackFailsStep DEF Failure
<1>5. CASE OpenLog(W) \/ Read(W) \/ \E e \in Events : AppendEvent(W, e)
  BY <1>5, OpenLogStep, ReadStep, AppendEventStep
<1> QED
  BY <1>1, <1>2, <1>3, <1>4, <1>5 DEF Next, OneWriter

\* CleanFile, and what the step is to the callers, as long as every rollback succeeds.
LEMMA CleanNext ==
    ASSUME OneWriter, LogInv, [Next]_vars, badRollbacks' = 0
    PROVE  CleanFile' /\ (Silent \/ Refuses \/ Commits \/ Loses)
<1>1. CASE RollbackFails(W)
  <2>1. badRollbacks' = badRollbacks + 1 /\ badRollbacks \in Nat
    BY <1>1 DEF RollbackFails, LogInv, Base, LogTypeOK
  <2> QED
    BY <2>1
<1>2. CASE ~RollbackFails(W)
  <2>1. badRollbacks' = badRollbacks
    BY <1>2 DEF Next, OneWriter, Step, Failure, Crash, ReadFile, TruncateTail, Stat, Write,
       Sync,
                Rollback, ReadFails, AppendRefused, WriteFails, OpenLog, Read, AppendEvent,
                bounds, vars
  <2>2. Base /\ CleanFile
    BY <2>1 DEF LogInv
  <2>3. CASE Crash
    BY <2>2, <2>3, CrashClean
  <2>4. CASE UNCHANGED vars
    <3>1. /\ bytes' = bytes /\ disk' = disk /\ told' = told /\ tail' = tail /\ pc' = pc
          /\ at' = at /\ instance' = instance
      BY <2>4 DEF vars, file, work, callers
    <3>2. CleanFile'
      BY <2>2, <3>1 DEF CleanFile, Writing, Alternating
    <3> QED
      BY <3>1, <3>2 DEF Silent, SameLog
  <2>5. CASE Step(W)
    BY <2>2, <2>5, ReadFileClean, TruncateTailClean, StatClean, WriteClean, SyncClean,
       RollbackClean
    DEF Step
  <2>6. CASE Failure(W)
    BY <1>2, <2>2, <2>6, ReadFailsClean, AppendRefusedClean, WriteFailsClean DEF Failure
  <2>7. CASE OpenLog(W) \/ Read(W) \/ \E e \in Events : AppendEvent(W, e)
    BY <2>2, <2>7, OpenLogClean, ReadClean, AppendEventClean
  <2> QED
    BY <2>3, <2>4, <2>5, <2>6, <2>7 DEF Next, OneWriter
<1> QED
  BY <1>1, <1>2

\* The initial state satisfies the invariant.
LEMMA LogInvInit == ASSUME OneWriter, Init PROVE LogInv
<1>1. W \in Writers
  BY DEF OneWriter
<1>2. CleanFile
  BY <1>1 DEF Init, CleanFile, Writing, Alternating
<1> QED
  BY <1>2, BaseInit DEF LogInv

\* The inductive invariant.
THEOREM LogInvariance == ASSUME OneWriter PROVE Spec => []LogInv
<1>1. Init => LogInv
  BY LogInvInit
<1>2. LogInv /\ [Next]_vars => LogInv'
  BY BaseNext, CleanNext DEF LogInv
<1> QED
  BY <1>1, <1>2, PTL DEF Spec

\* While no rollback has failed the file can be read after any crash.
LEMMA LogReadable == ASSUME LogInv, badRollbacks = 0 PROVE Readable
<1> SUFFICES ASSUME NEW f \in CrashOutcomes PROVE Decodable(f)
  BY DEF Readable
<1>1. LogTypeOK /\ FileInv /\ Alternating(bytes) /\ bytes \in Seq(Cells)
  BY DEF LogInv, Base, LogTypeOK, CleanFile
<1>2. PICK n \in 0..Len(bytes) : f = SubSeq(bytes, 1, n)
  BY <1>1, CrashFacts
<1>3. f \in Seq(Cells) /\ Alternating(f) /\ Paired(f)
  BY <1>1, <1>2, CutFacts, CutAlternating
<1> QED
  BY <1>3, AlternatingFacts

\* After any crash a reader finds every append that resolved, once and in order: the bytes
\* of its line are never rewritten and every truncation, by recovery or by rollback, cuts
\* behind them.  Only a rollback that failed can make the file unreadable.
THEOREM StoredEventsSurvive == ASSUME OneWriter PROVE Spec => []StoredSurvives
<1>1. LogInv => StoredSurvives
  BY Survival, LogReadable DEF LogInv, Base
<1> QED
  BY <1>1, LogInvariance, PTL

\* What a step is to the callers is a step of the contract.
LEMMA ContractStep ==
    ASSUME OneWriter, LogInv, [Next]_vars
    PROVE  [(badRollbacks = 0)' => Contract!Next]_<<Decoded(disk), told>>
<1> SUFFICES ASSUME badRollbacks' = 0
             PROVE  Contract!Next \/ UNCHANGED <<Decoded(disk), told>>
  OBVIOUS
<1>1. Silent \/ Refuses \/ Commits \/ Loses
  BY CleanNext
<1>2. Decoded(disk)' = Decoded(disk')
  OBVIOUS
<1>3. CASE Silent
  BY <1>2, <1>3 DEF Silent, SameLog
<1>4. CASE Refuses
  <2>1. PICK e \in Events : told[e] = "none" /\ told' = [told EXCEPT ![e] = "failed"]
    BY <1>4 DEF Refuses
  <2>2. Contract!Reject(e)
    BY <1>2, <1>4, <2>1 DEF Contract!Reject, Refuses, SameLog
  <2> QED
    BY <2>2 DEF Contract!Next
<1>5. CASE Commits
  <2>1. PICK e \in Events : /\ told[e] = "none" /\ told' = [told EXCEPT ![e] = "stored"]
                            /\ Decoded(disk') = Append(Decoded(disk), e)
    BY <1>5 DEF Commits
  <2>2. Contract!Commit(e)
    BY <1>2, <2>1 DEF Contract!Commit
  <2> QED
    BY <2>2 DEF Contract!Next
<1>6. CASE Loses
  <2> DEFINE lost == {e \in Events : Pending(e)}
  <2>1. /\ \A e \in lost : told[e] = "none"
        /\ told' = [e \in Events |-> IF e \in lost THEN "lost" ELSE told[e]]
        /\ Decoded(disk)' = Decoded(disk) \/ \E e \in lost : Decoded(disk)' = Append(Decoded(disk), e)
    BY <1>2, <1>6 DEF Loses, SameLog
  <2>2. lost \in SUBSET Events
    OBVIOUS
  <2> HIDE DEF lost
  <2>3. Contract!Lose(lost)
    BY <2>1 DEF Contract!Lose
  <2> QED
    BY <2>2, <2>3 DEF Contract!Next
<1> QED
  BY <1>1, <1>3, <1>4, <1>5, <1>6

\* As long as every rollback succeeds, what a reader finds in the synced file and what the
\* callers are told change only as DurableLog allows: a line is added when its append
\* resolves, and a crash keeps at most the one that was being written.
THEOREM LogImplements == ASSUME OneWriter PROVE Spec => ImplementsDurableLog
<1>1. Init => Contract!Init
  <2> SUFFICES ASSUME Init PROVE Contract!Init
    OBVIOUS
  <2>1. disk = <<>> /\ disk \in Seq(Cells) /\ Len(disk) = 0 /\ DOMAIN disk = {}
    BY EmptySeq DEF Init
  <2>2. Decoded(disk) = <<>>
    <3>1. Alternating(disk) /\ Paired(disk)
      BY <2>1 DEF Alternating, Paired
    <3>2. Decoded(disk) \in Seq(Events) /\ Len(Decoded(disk)) = 0 \div 2
      BY <2>1, <3>1, AlternatingFacts
    <3>3. 0 \div 2 = 0
      OBVIOUS
    <3> QED
      BY <3>2, <3>3, EmptySeq
  <2> QED
    BY <2>2 DEF Init, Contract!Init
<1>2. LogInv /\ [Next]_vars => [(badRollbacks = 0)' => Contract!Next]_<<Decoded(disk), told>>
  BY ContractStep
<1> QED
  BY <1>1, <1>2, LogInvariance, PTL DEF Spec, ImplementsDurableLog, Contract!Spec,
     Contract!vars

=============================================================================
