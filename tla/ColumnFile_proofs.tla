------------------------- MODULE ColumnFile_proofs --------------------------
(***************************************************************************)
(* ColumnFile, proved for columns of any number of blocks, codes of any    *)
(* number of bytes and slices of any number of cells: the inductive        *)
(* invariant FileInv, which follows the cells from the saved column        *)
(* through the buffer and the file to the restored one, and from it the    *)
(* run's invariants.                                                       *)
(***************************************************************************)
EXTENDS ColumnFile, SequenceTheorems, TLAPS

(* What has been appended and not lost: the file, then the buffer.         *)
Streamed == Len(disk) + Len(buffer)
At(i) == IF i <= Len(disk) THEN disk[i] ELSE buffer[i - Len(disk)]

(* The writer's side: whatever came short or was dropped, the cells that   *)
(* are left ascend and are cells of the parts appended; none is missing    *)
(* unless an Append, a Flush or the Close failed.                          *)
StreamOK ==
  /\ file_["writer"] = "NULL" => saved.appends = 0 /\ disk = <<>>
  /\ file_["writer"] # "open" => buffer = <<>>
  /\ \A i \in 1 .. Streamed : At(i) \in 0 .. Start(saved.appends) - 1
  /\ \A i, j \in 1 .. Streamed : i < j => At(i) < At(j)
  /\ lost \cap {"append", "flush", "close"} = {} =>
       /\ \A i \in 1 .. Streamed : At(i) = i - 1
       /\ file_["writer"] # "undefined" => Streamed = Start(saved.appends)

(* The reader's side: a restored cell lies in a part that has been read    *)
(* and comes from the cells that the cursor has passed; while nothing is   *)
(* lost the cursor and the parts read go together.                         *)
RestoredOK ==
  /\ \A g \in Cells(restored.blocks) : dst[g] # Own =>
       g < Start(restored.appends) /\ \E i \in 1 .. cursor : dst[g] = disk[i]
  /\ lost = {} /\ file_["reader"] # "undefined" =>
       /\ restored.appends > 0 => Over(saved) /\ buffer = <<>>
       /\ cursor = IF Start(restored.appends) < Len(disk) THEN Start(restored.appends)
                   ELSE Len(disk)

JobsOK ==
  /\ saved \in [blocks : 0 .. MaxBlocks, appends : Nat]
  /\ restored \in [blocks : 0 .. MaxBlocks, appends : Nat]

FileInv == JobsOK /\ TypeOK /\ StreamOK /\ RestoredOK /\ RestoreExact /\ OrderKept

-----------------------------------------------------------------------------
(* The parts of a column.                                                  *)

LEMMA Division ==
  ASSUME NEW a \in Nat, NEW b \in Nat \ {0}
  PROVE  /\ a \div b \in Nat /\ a % b \in 0 .. b - 1
         /\ a = b * (a \div b) + (a % b)
  OBVIOUS

LEMMA DivisionUnique ==
  ASSUME NEW b \in Nat \ {0}, NEW q \in Nat, NEW r \in 0 .. b - 1
  PROVE  (b * q + r) \div b = q /\ (b * q + r) % b = r
  OBVIOUS

LEMMA PartSizes ==
  /\ PartsOfBlock \in Nat \ {0, 1} /\ BlockCells \in Nat \ {0}
  /\ NumCells \in Nat \ {0} /\ SliceCells \in Nat \ {0}
  /\ kNumBytesPerCode \in Nat \ {0} /\ PartsOfBlock = 1 + kNumBytesPerCode
  /\ BlockCells = NumCells + kNumBytesPerCode * SliceCells
<1>1. /\ NumCells \in Nat \ {0} /\ SliceCells \in Nat \ {0} /\ kNumBytesPerCode \in Nat \ {0}
  BY ColumnFileAssumption
<1>2. kNumBytesPerCode * SliceCells \in Nat
  BY <1>1
<1> QED BY <1>1, <1>2 DEF PartsOfBlock, BlockCells

(* The place of a part, from its block and its number in the block.        *)
LEMMA StartAt ==
  ASSUME NEW q \in Nat, NEW r \in 0 .. PartsOfBlock - 1
  PROVE  LET k == PartsOfBlock * q + r IN
         /\ Start(k) = q * BlockCells + (IF r = 0 THEN 0 ELSE NumCells + (r - 1) * SliceCells)
         /\ Size(k) = IF r = 0 THEN NumCells ELSE SliceCells
<1>1. PartsOfBlock \in Nat \ {0}
  BY PartSizes
<1>2. /\ (PartsOfBlock * q + r) \div PartsOfBlock = q
      /\ (PartsOfBlock * q + r) % PartsOfBlock = r
  <2> HIDE DEF PartsOfBlock
  <2> QED BY <1>1, DivisionUnique
<1> QED BY <1>2 DEF Start, Size

(* The parts follow one another without a gap, block after block.          *)
LEMMA Parts ==
  ASSUME NEW k \in Nat
  PROVE  /\ Start(k) \in Nat /\ Size(k) \in Nat \ {0}
         /\ Start(k + 1) = Start(k) + Size(k)
<1> DEFINE P == PartsOfBlock
           B == BlockCells
           q == k \div P
           r == k % P
<1>1. q \in Nat /\ r \in 0 .. P - 1 /\ k = P * q + r /\ P \in Nat \ {0, 1}
  <2>1. P \in Nat \ {0, 1}
    BY PartSizes
  <2> HIDE DEF P
  <2> QED BY <2>1, Division
<1> HIDE DEF q, r
<1>2. /\ Start(k) = q * B + (IF r = 0 THEN 0 ELSE NumCells + (r - 1) * SliceCells)
      /\ Size(k) = IF r = 0 THEN NumCells ELSE SliceCells
  BY <1>1, StartAt
<1> DEFINE n == r - 1
<1>3. /\ B \in Nat /\ NumCells \in Nat \ {0} /\ SliceCells \in Nat \ {0}
      /\ kNumBytesPerCode \in Nat \ {0} /\ P = 1 + kNumBytesPerCode
      /\ B = NumCells + kNumBytesPerCode * SliceCells
  BY PartSizes
<1> HIDE DEF P, B
<1>4. q * B \in Nat
  BY <1>1, <1>3
<1>5. r # 0 => (r - 1) * SliceCells \in Nat
  BY <1>1, <1>3
<1>6. Start(k) \in Nat /\ Size(k) \in Nat \ {0}
  BY <1>2, <1>3, <1>4, <1>5
<1>7. CASE r = P - 1
  <2>1. k + 1 = P * (q + 1) + 0 /\ q + 1 \in Nat /\ 0 \in 0 .. P - 1
    BY <1>1, <1>7
  <2>2. Start(k + 1) = (q + 1) * B + 0
    BY <2>1, StartAt DEF P, B
  <2>3. (q + 1) * B = q * B + B
    BY <1>1, <1>3
  <2>4. r # 0 /\ r = kNumBytesPerCode /\ (r - 1) * SliceCells + SliceCells = r * SliceCells
    BY <1>1, <1>3, <1>7
  <2> QED BY <1>2, <1>3, <1>4, <1>5, <2>2, <2>3, <2>4
<1>8. CASE r # P - 1
  <2>1. k + 1 = P * q + (r + 1) /\ r + 1 \in 0 .. P - 1
    BY <1>1, <1>8
  <2> DEFINE s == r + 1
  <2>2. Start(k + 1) = q * B + (NumCells + (s - 1) * SliceCells)
    <3>1. s \in 0 .. P - 1 /\ k + 1 = P * q + s /\ s # 0
      BY <1>1, <2>1
    <3> HIDE DEF s
    <3> QED BY <1>1, <3>1, StartAt DEF P, B
  <2>3. s - 1 = r
    BY <1>1
  <2>4. r # 0 => (r - 1) * SliceCells + SliceCells = r * SliceCells
    BY <1>1, <1>3
  <2>5. r = 0 => r * SliceCells = 0
    BY <1>3
  <2>6. r * SliceCells \in Nat
    BY <1>1, <1>3
  <2> QED BY <1>2, <1>3, <1>4, <1>5, <2>2, <2>3, <2>4, <2>5, <2>6
<1> QED BY <1>6, <1>7, <1>8

(* A column's parts end where its cells end.                               *)
LEMMA PartsInColumn ==
  ASSUME NEW blocks \in Nat, NEW k \in 0 .. blocks * PartsOfBlock
  PROVE  /\ blocks * PartsOfBlock \in Nat /\ blocks * BlockCells \in Nat
         /\ Start(0) = 0 /\ Start(blocks * PartsOfBlock) = blocks * BlockCells
         /\ Start(k) <= blocks * BlockCells
         /\ k < blocks * PartsOfBlock => Start(k + 1) <= blocks * BlockCells
<1> DEFINE P == PartsOfBlock
           B == BlockCells
<1>1. P \in Nat \ {0, 1} /\ B \in Nat \ {0} /\ blocks * P \in Nat /\ blocks * B \in Nat
  BY PartSizes
<1>2. Start(blocks * P) = blocks * B
  <2>1. P * blocks + 0 = blocks * P /\ 0 \in 0 .. P - 1
    BY <1>1
  <2>2. Start(P * blocks + 0) = blocks * B + 0
    BY <2>1, StartAt
  <2> QED BY <1>1, <2>1, <2>2
<1>3. Start(0) = 0
  <2>1. P * 0 + 0 = 0 /\ 0 \in 0 .. P - 1 /\ 0 * B = 0
    BY <1>1
  <2>2. Start(P * 0 + 0) = 0 * B + 0
    BY <2>1, StartAt
  <2> QED BY <2>1, <2>2
<1>4. ASSUME k < blocks * P
      PROVE  Start(k + 1) <= blocks * B
  <2> DEFINE q == k \div P
             r == k % P
  <2>1. k \in Nat
    BY <1>1
  <2>2. q \in Nat /\ r \in 0 .. P - 1 /\ k = P * q + r
    <3> HIDE DEF P
    <3> QED BY <1>1, <2>1, Division
  <2> HIDE DEF q, r
  <2>3. /\ Start(k) = q * B + (IF r = 0 THEN 0 ELSE NumCells + (r - 1) * SliceCells)
        /\ Size(k) = IF r = 0 THEN NumCells ELSE SliceCells
    BY <2>2, StartAt
  <2>4. Start(k + 1) = Start(k) + Size(k)
    BY <2>1, Parts
  <2>5. /\ NumCells \in Nat \ {0} /\ SliceCells \in Nat \ {0}
        /\ kNumBytesPerCode \in Nat \ {0} /\ P = 1 + kNumBytesPerCode
        /\ B = NumCells + kNumBytesPerCode * SliceCells
    BY PartSizes
  <2> HIDE DEF P, B
  <2>6. q * B + B <= blocks * B
    <3>1. P * q < P * blocks
      BY <1>1, <1>4, <2>2
    <3>2. q + 1 <= blocks
      BY <1>1, <2>2, <3>1
    <3>3. (q + 1) * B <= blocks * B /\ (q + 1) * B = q * B + B
      BY <1>1, <2>2, <3>2
    <3> QED BY <3>3
  <2>7. r # 0 => (r - 1) * SliceCells + SliceCells = r * SliceCells
                 /\ r * SliceCells <= kNumBytesPerCode * SliceCells
    BY <2>2, <2>5
  <2>8. /\ q * B \in Nat /\ kNumBytesPerCode * SliceCells \in Nat
        /\ r # 0 => (r - 1) * SliceCells \in Nat
    BY <1>1, <2>2, <2>5
  <2>9. Start(k + 1) <= q * B + B
    BY <2>3, <2>4, <2>5, <2>7, <2>8
  <2>10. Start(k + 1) \in Nat
    BY <2>1, Parts
  <2> QED BY <1>1, <2>6, <2>8, <2>9, <2>10
<1>5. Start(k) <= blocks * B
  <2>1. CASE k = blocks * P
    BY <1>1, <1>2, <2>1
  <2>2. CASE k # blocks * P
    <3>1. k < blocks * P /\ k \in Nat
      BY <1>1, <2>2
    <3>2. Start(k) \in Nat /\ Size(k) \in Nat /\ Start(k + 1) = Start(k) + Size(k)
      BY <3>1, Parts
    <3> QED BY <1>1, <1>4, <3>1, <3>2
  <2> QED BY <2>1, <2>2
<1> QED BY <1>1, <1>2, <1>3, <1>4, <1>5

-----------------------------------------------------------------------------
(* The stream of cells.                                                    *)

LEMMA Lengths ==
  ASSUME FileInv
  PROVE  /\ Len(disk) \in Nat /\ Len(buffer) \in Nat /\ Streamed \in Nat
         /\ cursor \in 0 .. Len(disk)
         /\ disk \in Seq(Cells(saved.blocks)) /\ buffer \in Seq(Cells(saved.blocks))
         /\ saved.blocks \in Nat /\ saved.appends \in 0 .. saved.blocks * PartsOfBlock
         /\ restored.blocks \in Nat
         /\ restored.appends \in 0 .. restored.blocks * PartsOfBlock
         /\ DOMAIN dst = Cells(restored.blocks)
<1>1. /\ saved \in [blocks : 0 .. MaxBlocks, appends : Nat]
      /\ restored \in [blocks : 0 .. MaxBlocks, appends : Nat] /\ MaxBlocks \in Nat
  BY ColumnFileAssumption DEF FileInv, JobsOK
<1>2. saved.blocks \in Nat /\ restored.blocks \in Nat
  BY <1>1
<1>3. /\ buffer \in Seq(Cells(saved.blocks)) /\ disk \in Seq(Cells(saved.blocks))
      /\ cursor \in 0 .. Len(disk)
      /\ saved.appends \in 0 .. saved.blocks * PartsOfBlock
      /\ restored.appends \in 0 .. restored.blocks * PartsOfBlock
      /\ DOMAIN dst = Cells(restored.blocks)
  BY DEF FileInv, TypeOK
<1>4. Len(disk) \in Nat /\ Len(buffer) \in Nat
  BY <1>3, LenProperties
<1>5. Streamed \in Nat
  BY <1>4 DEF Streamed
<1> QED BY <1>2, <1>3, <1>4, <1>5

(* Giving cells to the file moves the border between file and buffer, and  *)
(* nothing else.                                                           *)
LEMMA GivenCells ==
  ASSUME NEW S, disk \in Seq(S), buffer \in Seq(S), NEW cells \in Seq(S), Given(cells)
  PROVE  /\ disk' \in Seq(S) /\ buffer' \in Seq(S)
         /\ Len(disk) <= Len(disk') /\ Len(disk') <= Len(disk) + Len(cells)
         /\ Streamed' = Len(disk) + Len(cells)
         /\ \A i \in 1 .. Len(disk) : disk'[i] = disk[i]
         /\ \A i \in 1 .. Len(disk) + Len(cells) :
              At(i)' = IF i <= Len(disk) THEN disk[i] ELSE cells[i - Len(disk)]
<1>1. PICK n \in 0 .. Len(cells) :
        /\ disk' = disk \o SubSeq(cells, 1, n)
        /\ buffer' = SubSeq(cells, n + 1, Len(cells))
  BY DEF Given
<1>2. Len(disk) \in Nat /\ Len(cells) \in Nat /\ \A i \in 1 .. Len(cells) : cells[i] \in S
  BY LenProperties, ElementOfSeq
<1> DEFINE first == SubSeq(cells, 1, n)
           rest == SubSeq(cells, n + 1, Len(cells))
<1>3. /\ first \in Seq(S) /\ Len(first) = n
      /\ \A i \in 1 .. n : first[i] = cells[i]
  <2>1. 1 \in Int /\ n \in Int /\ \A i \in 1 .. n : cells[i] \in S
    BY <1>2
  <2>2. /\ first \in Seq(S) /\ Len(first) = IF 1 <= n THEN n - 1 + 1 ELSE 0
        /\ \A i \in 1 .. n - 1 + 1 : first[i] = cells[1 + i - 1]
    BY <2>1, SubSeqProperties
  <2> HIDE DEF first
  <2> QED BY <1>2, <2>2
<1>4. /\ rest \in Seq(S) /\ Len(rest) = Len(cells) - n
      /\ \A i \in 1 .. Len(cells) - n : rest[i] = cells[n + i]
  <2> DEFINE m == n + 1
  <2>1. m \in Int /\ Len(cells) \in Int /\ \A i \in m .. Len(cells) : cells[i] \in S
    BY <1>2
  <2> HIDE DEF m
  <2>2. /\ SubSeq(cells, m, Len(cells)) \in Seq(S)
        /\ Len(SubSeq(cells, m, Len(cells))) = IF m <= Len(cells) THEN Len(cells) - m + 1 ELSE 0
        /\ \A i \in 1 .. Len(cells) - m + 1 : SubSeq(cells, m, Len(cells))[i] = cells[m + i - 1]
    BY <2>1, SubSeqProperties
  <2>3. /\ rest \in Seq(S)
        /\ Len(rest) = IF n + 1 <= Len(cells) THEN Len(cells) - (n + 1) + 1 ELSE 0
        /\ \A i \in 1 .. Len(cells) - (n + 1) + 1 : rest[i] = cells[(n + 1) + i - 1]
    BY <2>2 DEF m
  <2> HIDE DEF rest
  <2>4. Len(rest) = Len(cells) - n
    BY <1>2, <2>3
  <2>5. ASSUME NEW i \in 1 .. Len(cells) - n
        PROVE  rest[i] = cells[n + i]
    <3>1. i \in 1 .. Len(cells) - (n + 1) + 1 /\ (n + 1) + i - 1 = n + i
      BY <1>2
    <3> QED BY <2>3, <3>1
  <2> QED BY <2>3, <2>4, <2>5
<1> HIDE DEF first, rest
<1>5. /\ disk' \in Seq(S) /\ Len(disk') = Len(disk) + n
      /\ \A i \in 1 .. Len(disk) + n :
           disk'[i] = IF i <= Len(disk) THEN disk[i] ELSE first[i - Len(disk)]
  <2>1. disk' = disk \o first
    BY <1>1 DEF first
  <2>2. /\ disk \o first \in Seq(S) /\ Len(disk \o first) = Len(disk) + Len(first)
        /\ \A i \in 1 .. Len(disk) + Len(first) :
             (disk \o first)[i] = IF i <= Len(disk) THEN disk[i] ELSE first[i - Len(disk)]
    BY <1>3, ConcatProperties
  <2>3. Len(first) = n
    BY <1>3
  <2> QED BY <2>1, <2>2, <2>3
<1>6. buffer' = rest
  BY <1>1 DEF rest
<1>7. Streamed' = Len(disk) + Len(cells)
  <2>1. Streamed' = (Len(disk) + n) + (Len(cells) - n)
    BY <1>4, <1>5, <1>6 DEF Streamed
  <2> QED BY <1>2, <2>1
<1>8. ASSUME NEW i \in 1 .. Len(disk) + Len(cells)
      PROVE  At(i)' = IF i <= Len(disk) THEN disk[i] ELSE cells[i - Len(disk)]
  <2>1. At(i)' = IF i <= Len(disk) + n THEN disk'[i] ELSE buffer'[i - (Len(disk) + n)]
    BY <1>5 DEF At
  <2>2. CASE i <= Len(disk)
    <3>1. i \in 1 .. Len(disk) + n
      BY <1>2, <2>2
    <3> QED BY <1>5, <2>1, <2>2, <3>1
  <2>3. CASE i > Len(disk) /\ i <= Len(disk) + n
    <3>1. i \in 1 .. Len(disk) + n /\ i - Len(disk) \in 1 .. n /\ ~(i <= Len(disk))
      BY <1>2, <2>3
    <3> QED BY <1>3, <1>5, <2>1, <3>1
  <2>4. CASE i > Len(disk) + n
    <3>1. /\ i - (Len(disk) + n) \in 1 .. Len(cells) - n
          /\ n + (i - (Len(disk) + n)) = i - Len(disk)
          /\ ~(i <= Len(disk)) /\ ~(i <= Len(disk) + n)
      BY <1>2, <2>4
    <3> QED BY <1>4, <1>6, <2>1, <3>1
  <2> QED BY <1>2, <2>2, <2>3, <2>4
<1>9. Len(disk) <= Len(disk') /\ Len(disk') <= Len(disk) + Len(cells)
      /\ \A i \in 1 .. Len(disk) : disk'[i] = disk[i]
  BY <1>2, <1>5
<1> QED BY <1>4, <1>5, <1>6, <1>7, <1>8, <1>9

(* A write that drops what it does not put into the file cuts the stream   *)
(* behind its first n cells, as a close does.                              *)
LEMMA CutCells ==
  ASSUME NEW S, disk \in Seq(S), NEW cells \in Seq(S), NEW n \in 0 .. Len(cells),
         disk' = disk \o SubSeq(cells, 1, n), buffer' = <<>>
  PROVE  /\ disk' \in Seq(S) /\ buffer' \in Seq(S)
         /\ Len(disk') = Len(disk) + n /\ Streamed' = Len(disk) + n
         /\ \A i \in 1 .. Len(disk) : disk'[i] = disk[i]
         /\ \A i \in 1 .. Len(disk) + n :
              At(i)' = IF i <= Len(disk) THEN disk[i] ELSE cells[i - Len(disk)]
<1> DEFINE first == SubSeq(cells, 1, n)
<1>1. Len(disk) \in Nat /\ Len(cells) \in Nat /\ \A i \in 1 .. Len(cells) : cells[i] \in S
  BY LenProperties, ElementOfSeq
<1>2. /\ first \in Seq(S) /\ Len(first) = n
      /\ \A i \in 1 .. n : first[i] = cells[i]
  <2>1. 1 \in Int /\ n \in Int /\ \A i \in 1 .. n : cells[i] \in S
    BY <1>1
  <2>2. /\ first \in Seq(S) /\ Len(first) = IF 1 <= n THEN n - 1 + 1 ELSE 0
        /\ \A i \in 1 .. n - 1 + 1 : first[i] = cells[1 + i - 1]
    BY <2>1, SubSeqProperties
  <2> HIDE DEF first
  <2> QED BY <1>1, <2>2
<1> HIDE DEF first
<1>3. disk' = disk \o first
  BY DEF first
<1>4. /\ disk' \in Seq(S) /\ Len(disk') = Len(disk) + n
      /\ \A i \in 1 .. Len(disk) + n :
           disk'[i] = IF i <= Len(disk) THEN disk[i] ELSE first[i - Len(disk)]
  <2>1. /\ disk \o first \in Seq(S) /\ Len(disk \o first) = Len(disk) + Len(first)
        /\ \A i \in 1 .. Len(disk) + Len(first) :
             (disk \o first)[i] = IF i <= Len(disk) THEN disk[i] ELSE first[i - Len(disk)]
    BY <1>2, ConcatProperties
  <2>2. Len(first) = n
    BY <1>2
  <2> QED BY <1>3, <2>1, <2>2
<1>5. buffer' \in Seq(S) /\ Streamed' = Len(disk) + n
  <2>1. Len(buffer') = 0 /\ buffer' \in Seq(S)
    BY EmptySeq
  <2> QED BY <1>1, <1>4, <2>1 DEF Streamed
<1>6. ASSUME NEW i \in 1 .. Len(disk) + n
      PROVE  At(i)' = IF i <= Len(disk) THEN disk[i] ELSE cells[i - Len(disk)]
  <2>1. At(i)' = disk'[i]
    BY <1>1, <1>4 DEF At
  <2>2. ~(i <= Len(disk)) => i - Len(disk) \in 1 .. n
    BY <1>1
  <2> QED BY <1>2, <1>4, <2>1, <2>2
<1>7. \A i \in 1 .. Len(disk) : disk'[i] = disk[i]
  BY <1>1, <1>4
<1> QED BY <1>4, <1>5, <1>6, <1>7

(* The same for the cells that wait: fclose and fflush.                    *)
LEMMA CutBuffer ==
  ASSUME FileInv, NEW n \in 0 .. Len(buffer),
         disk' = disk \o SubSeq(buffer, 1, n), buffer' = <<>>
  PROVE  /\ disk' \in Seq(Cells(saved.blocks)) /\ buffer' \in Seq(Cells(saved.blocks))
         /\ Len(disk') = Len(disk) + n /\ Streamed' = Len(disk) + n
         /\ \A i \in 1 .. Len(disk) : disk'[i] = disk[i]
         /\ \A i \in 1 .. Len(disk) + n : At(i)' = At(i)
<1>1. disk \in Seq(Cells(saved.blocks)) /\ buffer \in Seq(Cells(saved.blocks))
  BY Lengths
<1>2. /\ disk' \in Seq(Cells(saved.blocks)) /\ buffer' \in Seq(Cells(saved.blocks))
      /\ Len(disk') = Len(disk) + n /\ Streamed' = Len(disk) + n
      /\ \A i \in 1 .. Len(disk) : disk'[i] = disk[i]
      /\ \A i \in 1 .. Len(disk) + n :
           At(i)' = IF i <= Len(disk) THEN disk[i] ELSE buffer[i - Len(disk)]
  BY <1>1, CutCells
<1>3. \A i \in 1 .. Len(disk) + n : At(i)' = At(i)
  BY <1>2 DEF At
<1> QED BY <1>2, <1>3

(* What the writer's programs may do to the stream and the file leaves the *)
(* restored column as good as it was.                                      *)
LEMMA ReaderStays ==
  ASSUME FileInv, UNCHANGED <<restored, dst, cursor>>, lost \subseteq lost',
         saved'.blocks = saved.blocks,
         Len(disk') \in Nat, Len(disk) <= Len(disk'),
         \A i \in 1 .. Len(disk) : disk'[i] = disk[i],
         file_'["reader"] # "undefined" => file_["reader"] # "undefined",
         Over(saved) /\ buffer = <<>> => /\ Over(saved)' /\ buffer' = <<>>
                                         /\ Len(disk') = Len(disk)
  PROVE  RestoredOK' /\ RestoreExact' /\ OrderKept'
<1>1. /\ Len(disk) \in Nat /\ cursor \in 0 .. Len(disk)
      /\ restored.appends \in Nat /\ DOMAIN dst = Cells(restored.blocks)
  BY Lengths DEF FileInv, JobsOK
<1>2. RestoreExact'
  BY DEF FileInv, RestoreExact
<1>3. OrderKept'
  BY DEF FileInv, OrderKept
<1>4. ASSUME NEW g \in Cells(restored.blocks), dst[g] # Own
      PROVE  g < Start(restored.appends) /\ \E i \in 1 .. cursor : dst[g] = disk'[i]
  <2>1. PICK i \in 1 .. cursor : dst[g] = disk[i]
    BY <1>4 DEF FileInv, RestoredOK
  <2>2. i \in 1 .. Len(disk)
    BY <1>1
  <2> QED BY <1>4, <2>1, <2>2 DEF FileInv, RestoredOK
<1>5. ASSUME lost' = {}, file_'["reader"] # "undefined"
      PROVE  /\ restored.appends > 0 => Over(saved)' /\ buffer' = <<>>
             /\ cursor = IF Start(restored.appends) < Len(disk') THEN Start(restored.appends)
                         ELSE Len(disk')
  <2>1. /\ restored.appends > 0 => Over(saved) /\ buffer = <<>>
        /\ cursor = IF Start(restored.appends) < Len(disk) THEN Start(restored.appends)
                    ELSE Len(disk)
    BY <1>5 DEF FileInv, RestoredOK
  <2>2. CASE restored.appends > 0
    BY <2>1, <2>2
  <2>3. CASE restored.appends = 0
    <3>1. Start(0) = 0
      <4>1. 0 \in Nat /\ 0 \in 0 .. 0 * PartsOfBlock
        BY PartSizes
      <4> QED BY <4>1, PartsInColumn
    <3> QED BY <1>1, <2>1, <2>3, <3>1
  <2> QED BY <1>1, <2>2, <2>3
<1>6. RestoredOK'
  BY <1>4, <1>5 DEF RestoredOK, Cells
<1> QED BY <1>2, <1>3, <1>6

(* The stream is cut short, and told so, or stays as it was.               *)
LEMMA StreamCut ==
  ASSUME FileInv, UNCHANGED saved, lost \subseteq lost',
         Streamed' \in 0 .. Streamed, \A i \in 1 .. Streamed' : At(i)' = At(i),
         Streamed' = Streamed \/ lost' \cap {"append", "flush", "close"} # {},
         file_'["writer"] = "NULL" => file_["writer"] = "NULL" /\ disk' = disk,
         file_'["writer"] # "open" => buffer' = <<>>,
         file_["writer"] = "undefined" => file_'["writer"] = "undefined"
  PROVE  StreamOK'
<1>1. Streamed \in Nat
  BY Lengths
<1>2. \A i \in 1 .. Streamed' : i \in 1 .. Streamed
  BY <1>1
<1>3. lost' \cap {"append", "flush", "close"} = {} => lost \cap {"append", "flush", "close"} = {}
  OBVIOUS
<1>4. Start(saved.appends)' = Start(saved.appends)
  BY DEF Start
<1> DEFINE s == Streamed
<1>5. \A i \in 1 .. s' : At(i)' \in 0 .. Start(saved.appends) - 1
  BY <1>2 DEF FileInv, StreamOK
<1>6. \A i, j \in 1 .. s' : i < j => At(i)' < At(j)'
  BY <1>2 DEF FileInv, StreamOK
<1>7. lost' \cap {"append", "flush", "close"} = {} =>
        /\ \A i \in 1 .. s' : At(i)' = i - 1
        /\ file_'["writer"] # "undefined" => s' = Start(saved.appends)
  BY <1>2, <1>3 DEF FileInv, StreamOK
<1>8. file_'["writer"] = "NULL" => saved'.appends = 0 /\ disk' = <<>>
  BY DEF FileInv, StreamOK
<1> QED BY <1>4, <1>5, <1>6, <1>7, <1>8 DEF StreamOK

LEMMA OpenFileInv ==
  ASSUME FileInv, NEW f \in Object, OpenFile(f)
  PROVE  FileInv'
<1>1. /\ UNCHANGED <<saved, restored, dst, lost, buffer, cursor>>
      /\ file_ \in [Object -> {"NULL", "open", "dangling", "undefined"}]
      /\ said \in [Object -> {"", "Already opened file", "Can't open file",
                              "No file opened.", "Error happens when closing file"}]
  BY DEF OpenFile, Open, FileInv, TypeOK
<1>2. /\ file_' \in [Object -> {"NULL", "open", "dangling", "undefined"}]
      /\ said' \in [Object -> {"", "Already opened file", "Can't open file",
                               "No file opened.", "Error happens when closing file"}]
      /\ \A x \in Object : file_'[x] = file_[x] \/ (file_[x] = "NULL" /\ file_'[x] = "open")
  BY <1>1 DEF OpenFile, Open, Becomes, Says
<1>3. disk' = disk
  BY DEF OpenFile, Open, FileInv, StreamOK
<1>4. Streamed \in Nat /\ Len(disk) \in Nat
  BY Lengths
<1>5. "writer" \in Object /\ "reader" \in Object
  BY DEF Object
<1>6. TypeOK'
  BY <1>1, <1>2, <1>3 DEF FileInv, TypeOK, Cells
<1>7. StreamOK'
  <2>1. Streamed' = Streamed /\ \A i \in 1 .. Streamed : At(i)' = At(i)
    BY <1>1, <1>3 DEF Streamed, At
  <2>2. file_'["writer"] # "open" => buffer' = <<>>
    BY <1>1, <1>2, <1>5 DEF FileInv, StreamOK
  <2>3. Streamed' \in 0 .. Streamed /\ \A i \in 1 .. Streamed' : At(i)' = At(i)
    BY <1>4, <2>1
  <2>4. /\ file_'["writer"] = "NULL" => file_["writer"] = "NULL" /\ disk' = disk
        /\ file_["writer"] = "undefined" => file_'["writer"] = "undefined"
    BY <1>2, <1>3, <1>5
  <2>5. UNCHANGED saved /\ lost \subseteq lost'
    BY <1>1
  <2> QED BY <2>1, <2>2, <2>3, <2>4, <2>5, StreamCut
<1>8. RestoredOK' /\ RestoreExact' /\ OrderKept'
  <2>1. /\ UNCHANGED <<restored, dst, cursor>> /\ lost \subseteq lost'
        /\ saved'.blocks = saved.blocks
    BY <1>1
  <2>2. /\ Len(disk') \in Nat /\ Len(disk) <= Len(disk')
        /\ \A i \in 1 .. Len(disk) : disk'[i] = disk[i]
    BY <1>3, <1>4
  <2>3. file_'["reader"] # "undefined" => file_["reader"] # "undefined"
    BY <1>2, <1>5
  <2>4. Over(saved) /\ buffer = <<>> => /\ Over(saved)' /\ buffer' = <<>>
                                       /\ Len(disk') = Len(disk)
    BY <1>1, <1>3 DEF Over
  <2> QED BY <2>1, <2>2, <2>3, <2>4, ReaderStays
<1> QED BY <1>1, <1>6, <1>7, <1>8 DEF FileInv, JobsOK

LEMMA CloseFileInv ==
  ASSUME FileInv, NEW f \in Object, CloseFile(f)
  PROVE  FileInv'
<1>1. /\ UNCHANGED <<saved, restored, dst, cursor>>
      /\ file_ \in [Object -> {"NULL", "open", "dangling", "undefined"}]
      /\ said \in [Object -> {"", "Already opened file", "Can't open file",
                              "No file opened.", "Error happens when closing file"}]
      /\ disk \in Seq(Cells(saved.blocks)) /\ buffer \in Seq(Cells(saved.blocks))
      /\ lost' = IF said'[f] = "Error happens when closing file" THEN lost \cup {"close"} ELSE lost
      /\ lost \subseteq lost' /\ lost \subseteq Mishap
  BY DEF CloseFile, Close, Misused, FileInv, TypeOK
<1>2. lost' \subseteq Mishap
  BY <1>1 DEF Mishap
<1>3. Streamed \in Nat /\ Len(disk) \in Nat /\ Len(buffer) \in Nat /\ Streamed = Len(disk) + Len(buffer)
  BY Lengths DEF Streamed
<1>4. "writer" \in Object /\ "reader" \in Object
  BY DEF Object
<1>5. /\ file_' \in [Object -> {"NULL", "open", "dangling", "undefined"}]
      /\ said' \in [Object -> {"", "Already opened file", "Can't open file",
                               "No file opened.", "Error happens when closing file"}]
      /\ \A x \in Object : \/ file_'[x] = file_[x]
                           \/ file_[x] = "dangling" /\ file_'[x] = "undefined"
                           \/ file_[x] = "open" /\ file_'[x] = "dangling"
  BY <1>1 DEF CloseFile, Close, Misused, Becomes, Says
<1>6. CASE UNCHANGED <<buffer, disk>> /\ (file_'["writer"] = file_["writer"]
                                          \/ file_["writer"] = "dangling")
  <2>1. TypeOK'
    BY <1>1, <1>2, <1>5, <1>6 DEF FileInv, TypeOK, Cells
  <2>2. StreamOK'
    <3>1. Streamed' = Streamed /\ \A i \in 1 .. Streamed : At(i)' = At(i)
      BY <1>6 DEF Streamed, At
    <3>2. file_'["writer"] # "open" => buffer' = <<>>
      BY <1>4, <1>5, <1>6 DEF FileInv, StreamOK
    <3>3. Streamed' \in 0 .. Streamed /\ \A i \in 1 .. Streamed' : At(i)' = At(i)
      BY <1>3, <3>1
    <3>4. /\ file_'["writer"] = "NULL" => file_["writer"] = "NULL" /\ disk' = disk
          /\ file_["writer"] = "undefined" => file_'["writer"] = "undefined"
      BY <1>4, <1>5, <1>6
    <3>5. UNCHANGED saved /\ lost \subseteq lost'
      BY <1>1
    <3> QED BY <3>1, <3>2, <3>3, <3>4, <3>5, StreamCut
  <2>3. RestoredOK' /\ RestoreExact' /\ OrderKept'
    <3>1. /\ UNCHANGED <<restored, dst, cursor>> /\ lost \subseteq lost'
          /\ saved'.blocks = saved.blocks
      BY <1>1
    <3>2. /\ Len(disk') \in Nat /\ Len(disk) <= Len(disk')
          /\ \A i \in 1 .. Len(disk) : disk'[i] = disk[i]
      BY <1>3, <1>6
    <3>3. file_'["reader"] # "undefined" => file_["reader"] # "undefined"
      BY <1>4, <1>5
    <3>4. Over(saved) /\ buffer = <<>> => /\ Over(saved)' /\ buffer' = <<>>
                                         /\ Len(disk') = Len(disk)
      BY <1>1, <1>6 DEF Over
    <3> QED BY <3>1, <3>2, <3>3, <3>4, ReaderStays
  <2> QED BY <1>1, <2>1, <2>2, <2>3 DEF FileInv, JobsOK
<1>7. CASE f = "writer" /\ file_["writer"] = "open" /\ file_'["writer"] = "dangling"
  <2>1. PICK n \in 0 .. Len(buffer) :
          /\ disk' = disk \o SubSeq(buffer, 1, n) /\ buffer' = <<>>
          /\ Says(f, IF n = Len(buffer) THEN "" ELSE "Error happens when closing file")
    BY <1>7 DEF CloseFile, Close, Misused
  <2>2. n # Len(buffer) => "close" \in lost'
    BY <1>1, <1>7, <2>1 DEF Says
  <2>3. /\ disk' \in Seq(Cells(saved.blocks))
        /\ Len(disk') = Len(disk) + n /\ Streamed' = Len(disk) + n
        /\ \A i \in 1 .. Len(disk) : disk'[i] = disk[i]
        /\ \A i \in 1 .. Len(disk) + n : At(i)' = At(i)
    BY <2>1, CutBuffer
  <2>4. TypeOK'
    <3>1. buffer' \in Seq(Cells(saved.blocks))
      BY <2>1, EmptySeq
    <3>2. cursor \in 0 .. Len(disk')
      BY <1>3, <2>3, Lengths
    <3> QED BY <1>1, <1>2, <1>5, <2>3, <3>1, <3>2 DEF FileInv, TypeOK, Cells
  <2>5. StreamOK'
    <3>1. Streamed' \in 0 .. Streamed
      BY <1>3, <2>3
    <3>2. Streamed' = Streamed \/ lost' \cap {"append", "flush", "close"} # {}
      BY <1>3, <2>2, <2>3
    <3> QED BY <1>1, <1>7, <2>1, <2>3, <3>1, <3>2, StreamCut
  <2>6. RestoredOK' /\ RestoreExact' /\ OrderKept'
    <3>1. Len(disk') \in Nat /\ Len(disk) <= Len(disk')
      BY <1>3, <2>3
    <3>2. buffer = <<>> => Len(disk') = Len(disk)
      <4>1. Len(<<>>) = 0
        BY EmptySeq
      <4> QED BY <1>3, <2>3, <4>1
    <3>3. Over(saved)' = Over(saved)
      BY <1>1 DEF Over
    <3> QED BY <1>1, <1>4, <1>5, <2>1, <2>3, <3>1, <3>2, <3>3, ReaderStays
  <2> QED BY <1>1, <2>4, <2>5, <2>6 DEF FileInv, JobsOK
<1>8. \/ UNCHANGED <<buffer, disk>> /\ (file_'["writer"] = file_["writer"]
                                        \/ file_["writer"] = "dangling")
      \/ f = "writer" /\ file_["writer"] = "open" /\ file_'["writer"] = "dangling"
  BY <1>1, <1>4, Zenon DEF CloseFile, Close, Misused, Becomes, Object
<1> QED BY <1>6, <1>7, <1>8

(* Fields of a file object after a misuse.                                 *)
LEMMA MisusedFile ==
  ASSUME FileInv, NEW f \in Object, Misused(f)
  PROVE  /\ file_' \in [Object -> {"NULL", "open", "dangling", "undefined"}]
         /\ UNCHANGED <<said, buffer, disk, cursor>>
         /\ file_'[f] = "undefined" /\ \A x \in Object \ {f} : file_'[x] = file_[x]
         /\ Streamed' = Streamed /\ \A i \in 1 .. Streamed : At(i)' = At(i)
<1>1. file_ \in [Object -> {"NULL", "open", "dangling", "undefined"}]
  BY DEF FileInv, TypeOK
<1>2. file_' = [file_ EXCEPT ![f] = "undefined"] /\ UNCHANGED <<said, buffer, disk, cursor>>
  BY DEF Misused, Becomes
<1>3. Streamed' = Streamed /\ \A i \in 1 .. Streamed : At(i)' = At(i)
  BY <1>2 DEF Streamed, At
<1> QED BY <1>1, <1>2, <1>3

LEMMA FlushFileInv ==
  ASSUME FileInv, FlushFile
  PROVE  FileInv'
<1>1. /\ UNCHANGED <<saved, restored, dst, said, cursor>>
      /\ lost \subseteq lost' /\ lost' \subseteq lost \cup {"flush"} /\ lost \subseteq Mishap
  BY DEF FlushFile, Flush, Misused, FileInv, TypeOK
<1>2. /\ Streamed \in Nat /\ Len(disk) \in Nat /\ Len(buffer) \in Nat
      /\ Streamed = Len(disk) + Len(buffer) /\ cursor \in 0 .. Len(disk)
      /\ disk \in Seq(Cells(saved.blocks)) /\ buffer \in Seq(Cells(saved.blocks))
  BY Lengths DEF Streamed
<1>3. "writer" \in Object /\ "reader" \in Object
  BY DEF Object
<1>4. /\ lost' \subseteq Mishap /\ saved'.blocks = saved.blocks /\ Over(saved)' = Over(saved)
  BY <1>1 DEF Over, Mishap
<1>5. CASE file_["writer"] = "dangling" /\ Misused("writer")
  <2>1. /\ file_' \in [Object -> {"NULL", "open", "dangling", "undefined"}]
        /\ UNCHANGED <<said, buffer, disk, cursor>>
        /\ file_'["writer"] = "undefined" /\ file_'["reader"] = file_["reader"]
        /\ Streamed' = Streamed /\ \A i \in 1 .. Streamed : At(i)' = At(i)
    BY <1>3, <1>5, MisusedFile
  <2>2. TypeOK'
    BY <1>1, <1>4, <2>1 DEF FileInv, TypeOK, Cells
  <2>3. StreamOK'
    <3>1. file_'["writer"] # "open" => buffer' = <<>>
      BY <1>5, <2>1 DEF FileInv, StreamOK
    <3>2. Streamed' \in 0 .. Streamed /\ \A i \in 1 .. Streamed' : At(i)' = At(i)
      BY <1>2, <2>1
    <3>3. /\ file_'["writer"] = "NULL" => file_["writer"] = "NULL" /\ disk' = disk
          /\ file_["writer"] = "undefined" => file_'["writer"] = "undefined"
      BY <2>1
    <3> QED BY <1>1, <1>4, <2>1, <3>1, <3>2, <3>3, StreamCut
  <2>4. RestoredOK' /\ RestoreExact' /\ OrderKept'
    <3>1. /\ Len(disk') \in Nat /\ Len(disk) <= Len(disk')
          /\ \A i \in 1 .. Len(disk) : disk'[i] = disk[i]
      BY <1>2, <2>1
    <3>2. Over(saved) /\ buffer = <<>> => /\ Over(saved)' /\ buffer' = <<>>
                                         /\ Len(disk') = Len(disk)
      BY <1>4, <2>1
    <3> QED BY <1>1, <1>4, <2>1, <3>1, <3>2, ReaderStays
  <2> QED BY <1>1, <2>2, <2>3, <2>4 DEF FileInv, JobsOK
<1>6. CASE file_["writer"] = "open" /\ Given(buffer) /\ UNCHANGED file_
  <2>1. /\ disk' \in Seq(Cells(saved.blocks)) /\ buffer' \in Seq(Cells(saved.blocks))
        /\ Len(disk) <= Len(disk') /\ Len(disk') <= Len(disk) + Len(buffer)
        /\ Streamed' = Len(disk) + Len(buffer)
        /\ \A i \in 1 .. Len(disk) : disk'[i] = disk[i]
        /\ \A i \in 1 .. Len(disk) + Len(buffer) :
             At(i)' = IF i <= Len(disk) THEN disk[i] ELSE buffer[i - Len(disk)]
    BY <1>2, <1>6, GivenCells
  <2>2. Len(disk') \in Nat /\ Len(buffer') \in Nat
    BY <2>1, LenProperties
  <2>3. TypeOK'
    <3>1. cursor \in 0 .. Len(disk')
      BY <1>2, <2>1, <2>2
    <3> QED BY <1>1, <1>4, <1>6, <2>1, <3>1 DEF FileInv, TypeOK, Cells
  <2>4. StreamOK'
    <3>1. Streamed' \in 0 .. Streamed /\ Streamed' = Streamed
      BY <1>2, <2>1
    <3>2. \A i \in 1 .. Streamed' : At(i)' = At(i)
      BY <2>1 DEF At
    <3> QED BY <1>1, <1>4, <1>6, <3>1, <3>2, StreamCut
  <2>5. RestoredOK' /\ RestoreExact' /\ OrderKept'
    <3>1. Over(saved) /\ buffer = <<>> => /\ Over(saved)' /\ buffer' = <<>>
                                         /\ Len(disk') = Len(disk)
      <4>1. ASSUME buffer = <<>>
            PROVE  buffer' = <<>> /\ Len(disk') = Len(disk)
        <5>1. Len(buffer) = 0
          BY <4>1, EmptySeq
        <5>2. Len(disk') = Len(disk) /\ Len(buffer') = 0
          BY <1>2, <2>1, <2>2, <5>1 DEF Streamed
        <5> QED BY <2>1, <5>2, EmptySeq
      <4> QED BY <1>4, <4>1
    <3> QED BY <1>1, <1>4, <1>6, <2>1, <2>2, <3>1, ReaderStays
  <2> QED BY <1>1, <2>3, <2>4, <2>5 DEF FileInv, JobsOK
<1>7. ASSUME file_["writer"] = "open", Dropped(buffer), UNCHANGED file_, "flush" \in lost'
      PROVE  FileInv'
  <2>1. PICK n \in 0 .. Len(buffer) - 1 : disk' = disk \o SubSeq(buffer, 1, n) /\ buffer' = <<>>
    BY <1>7 DEF Dropped
  <2>2. n \in 0 .. Len(buffer) /\ Len(buffer) # 0
    BY <1>2
  <2>3. /\ disk' \in Seq(Cells(saved.blocks)) /\ buffer' \in Seq(Cells(saved.blocks))
        /\ Len(disk') = Len(disk) + n /\ Streamed' = Len(disk) + n
        /\ \A i \in 1 .. Len(disk) : disk'[i] = disk[i]
        /\ \A i \in 1 .. Len(disk) + n : At(i)' = At(i)
    BY <2>1, <2>2, CutBuffer
  <2>4. TypeOK'
    <3>1. cursor \in 0 .. Len(disk')
      BY <1>2, <2>2, <2>3
    <3> QED BY <1>1, <1>4, <1>7, <2>3, <3>1 DEF FileInv, TypeOK, Cells
  <2>5. StreamOK'
    <3>1. Streamed' \in 0 .. Streamed
      BY <1>2, <2>2, <2>3
    <3>2. lost' \cap {"append", "flush", "close"} # {}
      BY <1>7
    <3> QED BY <1>1, <1>7, <2>1, <2>3, <3>1, <3>2, StreamCut
  <2>6. RestoredOK' /\ RestoreExact' /\ OrderKept'
    <3>1. Len(disk') \in Nat /\ Len(disk) <= Len(disk')
      BY <1>2, <2>2, <2>3
    <3>2. buffer # <<>>
      BY <2>2, EmptySeq
    <3> QED BY <1>1, <1>4, <1>7, <2>3, <3>1, <3>2, ReaderStays
  <2> QED BY <1>1, <2>4, <2>5, <2>6 DEF FileInv, JobsOK
<1>8. PICK ok \in BOOLEAN : Flush(ok) /\ lost' = IF ok THEN lost ELSE lost \cup {"flush"}
  BY DEF FlushFile
<1>9. CASE file_["writer"] = "open" /\ ~ok /\ Dropped(buffer) /\ UNCHANGED file_
  BY <1>7, <1>8, <1>9
<1> QED BY <1>5, <1>6, <1>8, <1>9 DEF Flush

(* The cells that fwrite has taken of the next part, behind those that     *)
(* wait.                                                                   *)
LEMMA AppendedCells ==
  ASSUME FileInv, ~Over(saved), NEW n \in 0 .. Size(saved.appends)
  PROVE  LET cells == buffer \o SubSeq(Part(saved.appends), 1, n) IN
         /\ cells \in Seq(Cells(saved.blocks)) /\ Len(cells) = Len(buffer) + n
         /\ \A i \in 1 .. Len(buffer) + n :
              cells[i] = IF i <= Len(buffer) THEN buffer[i]
                         ELSE Start(saved.appends) + (i - Len(buffer)) - 1
<1> DEFINE S == Cells(saved.blocks)
           k == saved.appends
           first == SubSeq(Part(k), 1, n)
<1>1. /\ saved.blocks \in Nat /\ k \in 0 .. saved.blocks * PartsOfBlock
      /\ buffer \in Seq(S) /\ Len(buffer) \in Nat
  BY Lengths
<1>2. /\ saved.blocks * PartsOfBlock \in Nat /\ saved.blocks * BlockCells \in Nat
      /\ k < saved.blocks * PartsOfBlock => Start(k + 1) <= saved.blocks * BlockCells
  BY <1>1, PartsInColumn
<1>3. k \in Nat /\ k < saved.blocks * PartsOfBlock
  BY <1>1, <1>2 DEF Over
<1>4. Start(k) \in Nat /\ Size(k) \in Nat /\ Start(k + 1) = Start(k) + Size(k)
  BY <1>3, Parts
<1>5. ASSUME NEW i \in 1 .. n
      PROVE  Part(k)[i] = Start(k) + i - 1 /\ Part(k)[i] \in S
  <2>1. i \in 1 .. Size(k)
    BY <1>4
  <2>2. Part(k)[i] = Start(k) + i - 1
    BY <2>1 DEF Part
  <2>3. Start(k) + i - 1 \in 0 .. saved.blocks * BlockCells - 1
    BY <1>2, <1>3, <1>4
  <2> QED BY <2>2, <2>3 DEF Cells
<1> HIDE DEF S, k
<1>6. /\ first \in Seq(S) /\ Len(first) = n
      /\ \A i \in 1 .. n : first[i] = Start(k) + i - 1
  <2>1. 1 \in Int /\ n \in Int /\ \A i \in 1 .. n : Part(k)[i] \in S
    BY <1>4, <1>5 DEF k
  <2>2. /\ first \in Seq(S) /\ Len(first) = IF 1 <= n THEN n - 1 + 1 ELSE 0
        /\ \A i \in 1 .. n - 1 + 1 : first[i] = Part(k)[1 + i - 1]
    BY <2>1, SubSeqProperties
  <2> HIDE DEF first
  <2>3. n \in Nat
    BY <1>4 DEF k
  <2>4. Len(first) = n
    BY <2>2, <2>3
  <2>5. ASSUME NEW i \in 1 .. n
        PROVE  first[i] = Start(k) + i - 1
    <3>1. i \in 1 .. n - 1 + 1 /\ 1 + i - 1 = i
      BY <2>3
    <3> QED BY <1>5, <2>2, <3>1
  <2> QED BY <2>2, <2>4, <2>5
<1> HIDE DEF first
<1> DEFINE cells == buffer \o first
<1>7. /\ cells \in Seq(S) /\ Len(cells) = Len(buffer) + Len(first)
      /\ \A i \in 1 .. Len(buffer) + Len(first) :
           cells[i] = IF i <= Len(buffer) THEN buffer[i] ELSE first[i - Len(buffer)]
  BY <1>1, <1>6, ConcatProperties
<1> HIDE DEF cells
<1>8. ASSUME NEW i \in 1 .. Len(buffer) + n
      PROVE  cells[i] = IF i <= Len(buffer) THEN buffer[i] ELSE Start(k) + (i - Len(buffer)) - 1
  <2>1. i \in 1 .. Len(buffer) + Len(first)
    BY <1>6
  <2>2. ~(i <= Len(buffer)) => i - Len(buffer) \in 1 .. n
    BY <1>1, <1>4 DEF k
  <2> QED BY <1>6, <1>7, <2>1, <2>2
<1>9. cells \in Seq(S) /\ Len(cells) = Len(buffer) + n
  BY <1>6, <1>7
<1> QED BY <1>8, <1>9 DEF cells, first, S, k

LEMMA SerToFileInv ==
  ASSUME FileInv, SerToFile
  PROVE  FileInv'
<1> DEFINE k == saved.appends
<1>1. /\ UNCHANGED <<restored, dst, said, cursor>> /\ ~Over(saved)
      /\ saved' = [saved EXCEPT !.appends = @ + 1]
      /\ saved \in [blocks : 0 .. MaxBlocks, appends : Nat]
      /\ lost \subseteq Mishap /\ lost \subseteq lost' /\ lost' \subseteq lost \cup {"append"}
  BY DEF SerToFile, AppendCells, Misused, FileInv, JobsOK, TypeOK
<1>2. /\ Streamed \in Nat /\ Len(disk) \in Nat /\ Len(buffer) \in Nat
      /\ Streamed = Len(disk) + Len(buffer) /\ cursor \in 0 .. Len(disk)
      /\ disk \in Seq(Cells(saved.blocks)) /\ buffer \in Seq(Cells(saved.blocks))
      /\ saved.blocks \in Nat /\ k \in 0 .. saved.blocks * PartsOfBlock
  BY Lengths DEF Streamed
<1>3. "writer" \in Object /\ "reader" \in Object
  BY DEF Object
<1>4. /\ saved' \in [blocks : 0 .. MaxBlocks, appends : Nat]
      /\ saved'.blocks = saved.blocks /\ saved'.appends = k + 1
  BY <1>1
<1>5. saved.blocks * PartsOfBlock \in Nat /\ k + 1 \in 0 .. saved.blocks * PartsOfBlock
  <2>1. saved.blocks * PartsOfBlock \in Nat
    BY <1>2, PartsInColumn
  <2>2. k # saved.blocks * PartsOfBlock
    BY <1>1 DEF Over
  <2> QED BY <1>2, <2>1, <2>2
<1>6. /\ k \in Nat /\ Start(k) \in Nat /\ Size(k) \in Nat \ {0}
      /\ Start(k + 1) = Start(k) + Size(k)
  <2>1. k \in Nat
    BY <1>1
  <2> QED BY <2>1, Parts
<1>7. Start(saved'.appends) = Start(k + 1) /\ Start(saved.appends)' = Start(k + 1)
  BY <1>4 DEF Start
<1>8. lost' \subseteq Mishap
  BY <1>1 DEF Mishap
<1>9. /\ \A i \in 1 .. Streamed : At(i) \in 0 .. Start(k) - 1
      /\ \A i, j \in 1 .. Streamed : i < j => At(i) < At(j)
      /\ lost \cap {"append", "flush", "close"} = {} =>
           /\ \A i \in 1 .. Streamed : At(i) = i - 1
           /\ file_["writer"] # "undefined" => Streamed = Start(k)
  BY DEF FileInv, StreamOK
<1> HIDE DEF k
<1>10. ASSUME disk' \in Seq(Cells(saved.blocks)), Len(disk) <= Len(disk'),
              \A i \in 1 .. Len(disk) : disk'[i] = disk[i],
              file_'["reader"] = file_["reader"]
       PROVE  cursor \in 0 .. Len(disk') /\ RestoredOK' /\ RestoreExact' /\ OrderKept'
  <2>1. Len(disk') \in Nat
    BY <1>10, LenProperties
  <2>2. UNCHANGED <<restored, dst, cursor>>
    BY <1>1
  <2>3. RestoredOK' /\ RestoreExact' /\ OrderKept'
    BY <1>1, <1>4, <1>10, <2>1, <2>2, ReaderStays
  <2> QED BY <1>2, <1>10, <2>1, <2>3
<1>11. CASE file_["writer"] \in {"NULL", "dangling"} /\ Misused("writer") /\ UNCHANGED lost
  <2>1. /\ file_' \in [Object -> {"NULL", "open", "dangling", "undefined"}]
        /\ UNCHANGED <<said, buffer, disk, cursor>>
        /\ file_'["writer"] = "undefined" /\ file_'["reader"] = file_["reader"]
        /\ Streamed' = Streamed /\ \A i \in 1 .. Streamed : At(i)' = At(i)
    BY <1>3, <1>11, MisusedFile
  <2>2. TypeOK'
    BY <1>1, <1>4, <1>5, <1>8, <2>1 DEF FileInv, TypeOK, Cells
  <2>3. buffer' = <<>>
    BY <1>11, <2>1 DEF FileInv, StreamOK
  <2>4. StreamOK'
    <3> DEFINE s == Streamed'
    <3>1. \A i \in 1 .. s : At(i)' \in 0 .. Start(k + 1) - 1
      BY <1>6, <1>9, <2>1
    <3>2. \A i, j \in 1 .. s : i < j => At(i)' < At(j)'
      BY <1>9, <2>1
    <3>3. lost' \cap {"append", "flush", "close"} = {} => \A i \in 1 .. s : At(i)' = i - 1
      BY <1>9, <1>11, <2>1
    <3> QED BY <1>7, <2>1, <2>3, <3>1, <3>2, <3>3 DEF StreamOK
  <2>5. RestoredOK' /\ RestoreExact' /\ OrderKept'
    BY <1>2, <1>10, <2>1
  <2> QED BY <1>1, <1>4, <2>2, <2>4, <2>5 DEF FileInv, JobsOK
<1>12. ASSUME NEW n \in 0 .. Size(k), AppendCells(Part(k), n), UNCHANGED file_,
              lost' = IF n < Size(k) THEN lost \cup {"append"} ELSE lost
       PROVE  FileInv'
  <2> DEFINE cells == buffer \o SubSeq(Part(k), 1, n)
  <2>1. /\ cells \in Seq(Cells(saved.blocks)) /\ Len(cells) = Len(buffer) + n
        /\ \A i \in 1 .. Len(buffer) + n :
             cells[i] = IF i <= Len(buffer) THEN buffer[i] ELSE Start(k) + (i - Len(buffer)) - 1
    BY <1>1, AppendedCells DEF k
  <2>2. file_["writer"] = "open" /\ (Given(cells) \/ (n < Size(k) /\ Dropped(cells)))
    <3>1. Len(Part(k)) = Size(k)
      BY <1>6 DEF Part
    <3> QED BY <1>12, <3>1 DEF AppendCells
  <2> HIDE DEF cells
  (* The new cells reach the stream, or it is cut where a write failed.    *)
  <2>3. /\ disk' \in Seq(Cells(saved.blocks)) /\ buffer' \in Seq(Cells(saved.blocks))
        /\ Len(disk) <= Len(disk') /\ Streamed' \in 0 .. Len(disk) + Len(cells)
        /\ ~(n < Size(k)) => Streamed' = Len(disk) + Len(cells)
        /\ \A i \in 1 .. Len(disk) : disk'[i] = disk[i]
        /\ \A i \in 1 .. Streamed' :
             At(i)' = IF i <= Len(disk) THEN disk[i] ELSE cells[i - Len(disk)]
    <3>1. Len(cells) \in Nat
      BY <2>1, LenProperties
    <3>2. CASE Given(cells)
      <4>1. /\ disk' \in Seq(Cells(saved.blocks)) /\ buffer' \in Seq(Cells(saved.blocks))
            /\ Len(disk) <= Len(disk') /\ Streamed' = Len(disk) + Len(cells)
            /\ \A i \in 1 .. Len(disk) : disk'[i] = disk[i]
            /\ \A i \in 1 .. Len(disk) + Len(cells) :
                 At(i)' = IF i <= Len(disk) THEN disk[i] ELSE cells[i - Len(disk)]
        BY <1>2, <2>1, <3>2, GivenCells
      <4> QED BY <1>2, <3>1, <4>1
    <3>3. CASE n < Size(k) /\ Dropped(cells)
      <4>1. PICK m \in 0 .. Len(cells) - 1 :
              disk' = disk \o SubSeq(cells, 1, m) /\ buffer' = <<>>
        BY <3>3 DEF Dropped
      <4>2. m \in 0 .. Len(cells)
        BY <3>1
      <4>3. /\ disk' \in Seq(Cells(saved.blocks)) /\ buffer' \in Seq(Cells(saved.blocks))
            /\ Len(disk') = Len(disk) + m /\ Streamed' = Len(disk) + m
            /\ \A i \in 1 .. Len(disk) : disk'[i] = disk[i]
            /\ \A i \in 1 .. Len(disk) + m :
                 At(i)' = IF i <= Len(disk) THEN disk[i] ELSE cells[i - Len(disk)]
        BY <1>2, <2>1, <4>1, <4>2, CutCells
      <4>4. Streamed' \in 0 .. Len(disk) + Len(cells) /\ Len(disk) <= Len(disk')
        BY <1>2, <3>1, <4>2, <4>3
      <4> QED BY <3>3, <4>3, <4>4
    <3> QED BY <2>2, <3>2, <3>3
  <2>4. cursor \in 0 .. Len(disk') /\ RestoredOK' /\ RestoreExact' /\ OrderKept'
    BY <1>10, <1>12, <2>3
  <2>5. TypeOK'
    BY <1>1, <1>4, <1>5, <1>8, <1>12, <2>3, <2>4 DEF FileInv, TypeOK, Cells
  <2>6. /\ n \in Nat /\ n <= Size(k) /\ Streamed' \in Nat /\ Streamed' <= Streamed + n
        /\ n = Size(k) => Streamed' = Streamed + n
    BY <1>2, <1>6, <2>1, <2>3
  <2>7. ASSUME NEW i \in 1 .. Streamed'
        PROVE  At(i)' = IF i <= Streamed THEN At(i) ELSE Start(k) + (i - Streamed) - 1
    <3>1. At(i)' = IF i <= Len(disk) THEN disk[i] ELSE cells[i - Len(disk)]
      BY <2>3
    <3>2. CASE i <= Len(disk)
      BY <1>2, <3>1, <3>2 DEF At
    <3>3. CASE ~(i <= Len(disk))
      <4> DEFINE j == i - Len(disk)
      <4>1. j \in 1 .. Len(buffer) + n /\ j - Len(buffer) = i - Streamed
            /\ (j <= Len(buffer) <=> i <= Streamed)
        BY <1>2, <2>6, <3>3
      <4>2. At(i)' = cells[j] /\ At(i) = buffer[j]
        BY <3>1, <3>3 DEF At
      <4> HIDE DEF j
      <4> QED BY <2>1, <4>1, <4>2
    <3> QED BY <3>2, <3>3
  <2>8. StreamOK'
    <3> DEFINE s == Streamed'
    <3>1. /\ s <= Streamed + n /\ s \in Nat
          /\ n = Size(k) => s = Streamed + n
          /\ \A i \in 1 .. s : At(i)' = IF i <= Streamed THEN At(i)
                                        ELSE Start(k) + (i - Streamed) - 1
      BY <1>2, <2>6, <2>7
    <3> HIDE DEF s
    <3>2. ASSUME NEW i \in 1 .. s
          PROVE  /\ i <= Streamed => i \in 1 .. Streamed /\ At(i)' = At(i)
                                     /\ At(i)' \in 0 .. Start(k) - 1
                 /\ ~(i <= Streamed) => At(i)' = Start(k) + (i - Streamed) - 1
                                        /\ i - Streamed \in 1 .. n
      <4>1. i <= Streamed => i \in 1 .. Streamed
        BY <1>2, <3>1
      <4>2. ~(i <= Streamed) => i - Streamed \in 1 .. n
        BY <1>2, <2>6, <3>1
      <4> QED BY <1>9, <3>1, <4>1, <4>2
    <3>3. ASSUME NEW i \in 1 .. s
          PROVE  At(i)' \in 0 .. Start(k + 1) - 1
      <4> DEFINE m == i - Streamed
      <4>1. /\ Start(k) \in Nat /\ Start(k + 1) = Start(k) + Size(k)
            /\ n \in Nat /\ n <= Size(k) /\ Size(k) \in Nat
        BY <1>6, <2>6
      <4>2. CASE i <= Streamed
        BY <3>2, <4>1, <4>2
      <4>3. CASE ~(i <= Streamed)
        <5>1. At(i)' = Start(k) + m - 1 /\ m \in 1 .. n
          BY <3>2, <4>3
        <5> HIDE DEF m
        <5> QED BY <4>1, <5>1
      <4> QED BY <4>2, <4>3
    <3>6. ASSUME NEW i \in 1 .. s, NEW j \in 1 .. s, i < j
          PROVE  At(i)' < At(j)'
      <4>1. CASE j <= Streamed
        <5>1. i <= Streamed
          BY <1>2, <3>1, <3>6, <4>1
        <5> QED BY <1>9, <3>2, <3>6, <4>1, <5>1
      <4>2. CASE ~(j <= Streamed)
        <5>1. At(j)' = Start(k) + (j - Streamed) - 1 /\ j - Streamed \in 1 .. n
          BY <3>2, <4>2
        <5>2. CASE i <= Streamed
          <6> DEFINE m == j - Streamed
          <6>1. At(j)' = Start(k) + m - 1 /\ m \in 1 .. n
            BY <5>1
          <6>2. Start(k) \in Nat /\ n \in Nat /\ At(i)' \in 0 .. Start(k) - 1
            BY <1>6, <2>6, <3>2, <5>2
          <6> HIDE DEF m
          <6> QED BY <6>1, <6>2
        <5>3. CASE ~(i <= Streamed)
          <6> DEFINE m == i - Streamed
                     o == j - Streamed
          <6>1. At(i)' = Start(k) + m - 1 /\ At(j)' = Start(k) + o - 1
            BY <3>2, <5>1, <5>3
          <6>2. m \in Int /\ o \in Int /\ m < o /\ Start(k) \in Nat
            BY <1>2, <1>6, <3>1, <3>6
          <6> HIDE DEF m, o
          <6> QED BY <6>1, <6>2
        <5> QED BY <5>2, <5>3
      <4> QED BY <4>1, <4>2
    <3>4. ASSUME lost' \cap {"append", "flush", "close"} = {}
          PROVE  /\ s = Start(k + 1) /\ \A i \in 1 .. s : At(i)' = i - 1
      <4>1. n = Size(k) /\ lost \cap {"append", "flush", "close"} = {}
        BY <1>1, <1>6, <1>12, <2>6, <3>4
      <4>2. Streamed = Start(k) /\ \A i \in 1 .. Streamed : At(i) = i - 1
        BY <1>9, <2>2, <4>1
      <4>3. s = Start(k + 1)
        BY <1>6, <3>1, <4>1, <4>2
      <4>4. ASSUME NEW i \in 1 .. s
            PROVE  At(i)' = i - 1
        <5>1. CASE i <= Streamed
          BY <3>2, <4>2, <5>1
        <5>2. CASE ~(i <= Streamed)
          BY <1>2, <3>1, <3>2, <4>2, <5>2
        <5> QED BY <5>1, <5>2
      <4> QED BY <4>3, <4>4
    <3>5. file_'["writer"] = "open"
      BY <1>12, <2>2
    <3> QED BY <1>7, <3>3, <3>4, <3>5, <3>6 DEF StreamOK, s
  <2> QED BY <1>1, <1>4, <2>4, <2>5, <2>8 DEF FileInv, JobsOK
<1> QED BY <1>11, <1>12 DEF SerToFile, AppendCells, k

(* What the reader's programs do leaves the stream alone.                  *)
LEMMA StreamStays ==
  ASSUME FileInv, UNCHANGED <<saved, buffer, disk>>, lost \subseteq lost',
         file_'["writer"] = file_["writer"]
  PROVE  StreamOK'
<1>1. Streamed \in Nat
  BY Lengths
<1>2. Streamed' = Streamed /\ \A i \in 1 .. Streamed : At(i)' = At(i)
  BY DEF Streamed, At
<1>3. Streamed' \in 0 .. Streamed /\ \A i \in 1 .. Streamed' : At(i)' = At(i)
  BY <1>1, <1>2
<1>4. file_'["writer"] # "open" => buffer' = <<>>
  BY DEF FileInv, StreamOK
<1> QED BY <1>2, <1>3, <1>4, StreamCut

(* The file's part of the stream.                                          *)
LEMMA DiskStream ==
  ASSUME FileInv
  PROVE  /\ \A i \in 1 .. Len(disk) : disk[i] \in Cells(saved.blocks) /\ disk[i] \in Nat
         /\ \A i, j \in 1 .. Len(disk) : i < j => disk[i] < disk[j]
         /\ lost = {} => \A i \in 1 .. Len(disk) : disk[i] = i - 1
<1>1. /\ Len(disk) \in Nat /\ Len(buffer) \in Nat /\ Streamed = Len(disk) + Len(buffer)
      /\ disk \in Seq(Cells(saved.blocks)) /\ saved.appends \in Nat
  BY Lengths DEF Streamed, FileInv, JobsOK
<1>2. ASSUME NEW i \in 1 .. Len(disk)
      PROVE  i \in 1 .. Streamed /\ At(i) = disk[i]
  BY <1>1 DEF At
<1>3. Start(saved.appends) \in Nat
  BY <1>1, Parts
<1>4. /\ \A i \in 1 .. Streamed : At(i) \in 0 .. Start(saved.appends) - 1
      /\ \A i, j \in 1 .. Streamed : i < j => At(i) < At(j)
      /\ lost = {} => \A i \in 1 .. Streamed : At(i) = i - 1
  BY DEF FileInv, StreamOK
<1>5. \A i \in 1 .. Len(disk) : disk[i] \in Cells(saved.blocks)
  BY <1>1, ElementOfSeq
<1>6. \A i \in 1 .. Len(disk) : disk[i] \in Nat
  BY <1>2, <1>3, <1>4
<1> QED BY <1>2, <1>4, <1>5, <1>6

(* A Read puts the next n cells of the file into part k: what the          *)
(* restored column holds then.                                             *)
LEMMA RestoredCells ==
  ASSUME FileInv, ~Over(restored), NEW n \in 0 .. Readable(Size(restored.appends)),
         dst' = Restored(restored.appends, n)
  PROVE  LET k == restored.appends IN
         /\ k \in Nat /\ n \in Nat /\ k + 1 \in 0 .. restored.blocks * PartsOfBlock
         /\ Start(k) \in Nat /\ Size(k) \in Nat \ {0} /\ Start(k + 1) = Start(k) + Size(k)
         /\ cursor + n \in 0 .. Len(disk) /\ n <= Size(k)
         /\ dst' \in [Cells(restored.blocks) -> Cells(saved.blocks) \cup {Own}]
         /\ \A g \in Cells(restored.blocks) :
              /\ g \in Nat
              /\ Start(k) <= g /\ g < Start(k) + n =>
                   dst'[g] = disk[cursor + 1 + g - Start(k)]
                   /\ cursor + 1 + g - Start(k) \in cursor + 1 .. cursor + n
              /\ ~(Start(k) <= g /\ g < Start(k) + n) => dst'[g] = dst[g]
<1> DEFINE k == restored.appends
           C == Cells(restored.blocks)
<1>1. /\ Len(disk) \in Nat /\ cursor \in 0 .. Len(disk)
      /\ restored.blocks \in Nat /\ k \in 0 .. restored.blocks * PartsOfBlock
      /\ DOMAIN dst = C
  BY Lengths
<1>2. restored.blocks * PartsOfBlock \in Nat /\ restored.blocks * BlockCells \in Nat
  BY <1>1, PartsInColumn
<1>3. k \in Nat /\ k + 1 \in 0 .. restored.blocks * PartsOfBlock
  BY <1>1, <1>2 DEF Over
<1>4. Start(k) \in Nat /\ Size(k) \in Nat \ {0} /\ Start(k + 1) = Start(k) + Size(k)
  BY <1>3, Parts
<1>5. n \in Nat /\ n <= Size(k) /\ cursor + n \in 0 .. Len(disk)
  BY <1>1, <1>4 DEF Readable
<1>6. dst \in [C -> Cells(saved.blocks) \cup {Own}]
  BY DEF FileInv, TypeOK
<1>7. dst' = [g \in C |-> IF Start(k) <= g /\ g < Start(k) + n
                          THEN disk[cursor + 1 + g - Start(k)] ELSE dst[g]]
  BY <1>1 DEF Restored
<1>8. \A g \in C : g \in Nat
  BY <1>2 DEF Cells
<1>9. ASSUME NEW g \in C, Start(k) <= g, g < Start(k) + n
      PROVE  cursor + 1 + g - Start(k) \in cursor + 1 .. cursor + n
  <2> DEFINE first == Start(k)
  <2>1. cursor \in Nat /\ n \in Nat /\ first \in Nat /\ g \in Nat
        /\ first <= g /\ g < first + n
    BY <1>1, <1>4, <1>5, <1>8, <1>9
  <2> HIDE DEF first
  <2>2. cursor + 1 + g - first \in cursor + 1 .. cursor + n
    BY <2>1
  <2> QED BY <2>2 DEF first
<1>10. \A i \in 1 .. Len(disk) : disk[i] \in Cells(saved.blocks)
  BY DiskStream
<1> HIDE DEF k, C
<1>11. ASSUME NEW g \in C
       PROVE  dst'[g] \in Cells(saved.blocks) \cup {Own}
  <2>1. CASE Start(k) <= g /\ g < Start(k) + n
    <3>1. PICK i \in cursor + 1 .. cursor + n : i = cursor + 1 + g - Start(k)
      BY <1>9, <2>1
    <3>2. i \in 1 .. Len(disk)
      BY <1>1, <1>5
    <3> QED BY <1>7, <1>10, <2>1, <3>1, <3>2
  <2>2. CASE ~(Start(k) <= g /\ g < Start(k) + n)
    BY <1>6, <1>7, <2>2
  <2> QED BY <2>1, <2>2
<1>12. dst' \in [C -> Cells(saved.blocks) \cup {Own}]
  BY <1>7, <1>11
<1>13. \A g \in C :
         /\ Start(k) <= g /\ g < Start(k) + n => dst'[g] = disk[cursor + 1 + g - Start(k)]
         /\ ~(Start(k) <= g /\ g < Start(k) + n) => dst'[g] = dst[g]
  BY <1>7
<1> QED BY <1>3, <1>4, <1>5, <1>8, <1>9, <1>12, <1>13 DEF k, C

LEMMA DeserFromFileInv ==
  ASSUME FileInv, DeserFromFile
  PROVE  FileInv'
<1> DEFINE k == restored.appends
           C == Cells(restored.blocks)
<1>1. /\ UNCHANGED <<saved, buffer, disk, said>> /\ ~Over(restored)
      /\ restored' = [restored EXCEPT !.appends = @ + 1]
      /\ restored \in [blocks : 0 .. MaxBlocks, appends : Nat]
      /\ file_ \in [Object -> {"NULL", "open", "dangling", "undefined"}]
      /\ lost \subseteq Mishap /\ lost \subseteq lost' /\ lost' \subseteq lost \cup {"read", "early"}
  BY DEF DeserFromFile, Read, Misused, FileInv, JobsOK, TypeOK
<1>2. /\ Len(disk) \in Nat /\ cursor \in 0 .. Len(disk)
      /\ restored.blocks \in Nat /\ k \in 0 .. restored.blocks * PartsOfBlock
  BY Lengths
<1>3. "writer" \in Object /\ "reader" \in Object
  BY DEF Object
<1>4. /\ restored' \in [blocks : 0 .. MaxBlocks, appends : Nat]
      /\ restored'.blocks = restored.blocks /\ restored'.appends = k + 1
  BY <1>1
<1>5. lost' \subseteq Mishap
  BY <1>1 DEF Mishap
<1>6. Start(restored.appends)' = Start(k + 1) /\ Start(restored'.appends) = Start(k + 1)
      /\ Cells(restored.blocks)' = C /\ Cells(restored'.blocks) = C
  BY <1>4 DEF Start, Cells
<1>7. CASE file_["reader"] \in {"NULL", "dangling"} /\ Misused("reader") /\ UNCHANGED <<dst, lost>>
  <2>1. /\ file_' \in [Object -> {"NULL", "open", "dangling", "undefined"}]
        /\ UNCHANGED cursor
        /\ file_'["reader"] = "undefined" /\ file_'["writer"] = file_["writer"]
    BY <1>3, <1>7, MisusedFile
  <2>2. restored.blocks * PartsOfBlock \in Nat
    BY <1>2, PartsInColumn
  <2>3. k \in Nat /\ k + 1 \in 0 .. restored.blocks * PartsOfBlock
    BY <1>1, <1>2, <2>2 DEF Over
  <2>4. Start(k) \in Nat /\ Start(k + 1) = Start(k) + Size(k) /\ Size(k) \in Nat
    BY <2>3, Parts
  <2>5. TypeOK'
    BY <1>1, <1>4, <1>7, <2>1, <2>3 DEF FileInv, TypeOK, Cells
  <2>6. StreamOK'
    BY <1>1, <2>1, StreamStays
  <2>7. RestoredOK'
    <3>1. \A g \in C : dst[g] # Own => g < Start(k) /\ \E i \in 1 .. cursor : dst[g] = disk[i]
      BY DEF FileInv, RestoredOK
    <3>2. \A g \in C : g \in Int
      BY DEF Cells
    <3>3. \A g \in C : dst[g] # Own => g < Start(k + 1)
      BY <2>4, <3>1, <3>2
    <3> QED BY <1>1, <1>6, <1>7, <2>1, <3>1, <3>3 DEF RestoredOK
  <2>8. RestoreExact' /\ OrderKept'
    BY <1>7, <2>1 DEF FileInv, RestoreExact, OrderKept
  <2> QED BY <1>1, <1>4, <2>5, <2>6, <2>7, <2>8 DEF FileInv, JobsOK
<1>8. ASSUME NEW n \in 0 .. Readable(Size(k)), Read(n), dst' = Restored(k, n),
             lost' = lost \cup (IF n < Readable(Size(k)) THEN {"read"} ELSE {})
                          \cup (IF Over(saved) /\ buffer = <<>> THEN {} ELSE {"early"})
      PROVE  FileInv'
  <2>1. file_["reader"] = "open" /\ cursor' = cursor + n /\ UNCHANGED file_
    BY <1>8 DEF Read
  <2>2. /\ k \in Nat /\ n \in Nat /\ k + 1 \in 0 .. restored.blocks * PartsOfBlock
        /\ Start(k) \in Nat /\ Size(k) \in Nat \ {0} /\ Start(k + 1) = Start(k) + Size(k)
        /\ cursor + n \in 0 .. Len(disk) /\ n <= Size(k)
        /\ dst' \in [C -> Cells(saved.blocks) \cup {Own}]
        /\ \A g \in C :
             /\ g \in Nat
             /\ Start(k) <= g /\ g < Start(k) + n =>
                  dst'[g] = disk[cursor + 1 + g - Start(k)]
                  /\ cursor + 1 + g - Start(k) \in cursor + 1 .. cursor + n
             /\ ~(Start(k) <= g /\ g < Start(k) + n) => dst'[g] = dst[g]
    BY <1>1, <1>8, RestoredCells
  <2>3. /\ \A i, j \in 1 .. Len(disk) : i < j => disk[i] < disk[j]
        /\ lost = {} => \A i \in 1 .. Len(disk) : disk[i] = i - 1
    BY DiskStream
  <2>4. \A g \in C : dst[g] # Own => g < Start(k) /\ \E i \in 1 .. cursor : dst[g] = disk[i]
    BY DEF FileInv, RestoredOK
  <2>5. ASSUME lost' = {}
        PROVE  /\ lost = {} /\ n = Readable(Size(k)) /\ Over(saved) /\ buffer = <<>>
               /\ cursor = IF Start(k) < Len(disk) THEN Start(k) ELSE Len(disk)
               /\ cursor + n = IF Start(k + 1) < Len(disk) THEN Start(k + 1) ELSE Len(disk)
    <3>1. lost = {} /\ ~(n < Readable(Size(k))) /\ Over(saved) /\ buffer = <<>>
      BY <1>8, <2>5
    <3>2. cursor = IF Start(k) < Len(disk) THEN Start(k) ELSE Len(disk)
      BY <2>1, <3>1 DEF FileInv, RestoredOK
    <3>3. n = Readable(Size(k))
      BY <1>2, <2>2, <3>1 DEF Readable
    <3> QED BY <1>2, <2>2, <3>1, <3>2, <3>3 DEF Readable
  <2>6. TypeOK'
    BY <1>1, <1>4, <1>5, <2>1, <2>2 DEF FileInv, TypeOK, Cells
  <2>7. StreamOK'
    BY <1>1, <2>1, StreamStays
  <2> HIDE DEF k, C
  (* Where each cell that is there now comes from.                         *)
  <2>8. ASSUME NEW g \in C, dst'[g] # Own
        PROVE  \/ /\ Start(k) <= g /\ g < Start(k) + n
                  /\ \E i \in cursor + 1 .. cursor + n :
                       i = cursor + 1 + g - Start(k) /\ dst'[g] = disk[i]
               \/ /\ g < Start(k) /\ dst'[g] = dst[g]
                  /\ \E i \in 1 .. cursor : dst'[g] = disk[i]
    BY <2>2, <2>4, <2>8
  <2>9. RestoredOK'
    <3>1. ASSUME NEW g \in C, dst'[g] # Own
          PROVE  g < Start(k + 1) /\ \E i \in 1 .. cursor + n : dst'[g] = disk[i]
      <4>1. CASE Start(k) <= g /\ g < Start(k) + n
        <5>1. PICK i \in cursor + 1 .. cursor + n : dst'[g] = disk[i]
          BY <2>2, <4>1
        <5>2. i \in 1 .. cursor + n
          BY <1>2
        <5>3. g < Start(k + 1)
          BY <2>2, <4>1
        <5> QED BY <5>1, <5>2, <5>3
      <4>2. CASE ~(Start(k) <= g /\ g < Start(k) + n)
        <5>1. PICK i \in 1 .. cursor : dst'[g] = disk[i]
          BY <2>2, <2>4, <3>1, <4>2
        <5>2. i \in 1 .. cursor + n
          BY <1>2, <2>2
        <5>3. g < Start(k + 1)
          BY <2>2, <2>4, <3>1, <4>2
        <5> QED BY <5>1, <5>2, <5>3
      <4> QED BY <4>1, <4>2
    <3> QED BY <1>1, <1>6, <2>1, <2>5, <3>1 DEF RestoredOK, Over
  <2>10. RestoreExact'
    <3>1. DOMAIN dst' = C
      BY <2>2
    <3>2. ASSUME lost' = {}, NEW g \in C
          PROVE  dst'[g] = IF g < cursor + n THEN g ELSE Own
      <4>1. dst[g] = IF g < cursor THEN g ELSE Own
        BY <2>5, <3>2, Lengths DEF FileInv, RestoreExact, C
      <4>2. /\ n > 0 => cursor = Start(k)
            /\ n \in Nat /\ cursor \in Nat /\ g \in Nat /\ Start(k) \in Nat
        BY <1>2, <2>2, <2>5, <3>2
      <4>3. CASE Start(k) <= g /\ g < Start(k) + n
        <5>1. n > 0 /\ g < cursor + n /\ cursor + 1 + g - Start(k) = g + 1
          BY <4>2, <4>3
        <5>2. g + 1 \in 1 .. Len(disk)
          BY <1>2, <2>2, <4>2, <5>1
        <5>3. disk[g + 1] = (g + 1) - 1
          BY <2>3, <2>5, <3>2, <5>2
        <5>4. dst'[g] = disk[g + 1]
          BY <2>2, <4>3, <5>1
        <5> QED BY <4>2, <5>1, <5>3, <5>4
      <4>4. CASE ~(Start(k) <= g /\ g < Start(k) + n)
        <5>1. dst'[g] = dst[g]
          BY <2>2, <4>4
        <5> QED BY <4>1, <4>2, <4>4, <5>1
      <4> QED BY <4>3, <4>4
    <3> QED BY <2>1, <3>1, <3>2 DEF RestoreExact
  <2>11. OrderKept'
    <3>1. DOMAIN dst' = C
      BY <2>2
    <3>2. ASSUME NEW g \in C, NEW h \in C, h < g, dst'[g] # Own, dst'[h] # Own
          PROVE  dst'[h] < dst'[g]
      <4>1. g \in Nat /\ h \in Nat /\ Start(k) \in Nat /\ n \in Nat /\ cursor \in Nat
            /\ cursor + n <= Len(disk) /\ Len(disk) \in Nat /\ h < g
        BY <1>2, <2>2, <3>2
      <4>2. CASE Start(k) <= g /\ g < Start(k) + n
        <5>1. PICK i \in cursor + 1 .. cursor + n :
                i = cursor + 1 + g - Start(k) /\ dst'[g] = disk[i]
          BY <2>2, <4>2
        <5>2. CASE Start(k) <= h /\ h < Start(k) + n
          <6>1. PICK j \in cursor + 1 .. cursor + n :
                  j = cursor + 1 + h - Start(k) /\ dst'[h] = disk[j]
            BY <2>2, <5>2
          <6>2. j < i
            <7>1. i = cursor + 1 + g - Start(k) /\ j = cursor + 1 + h - Start(k)
              BY <5>1, <6>1
            <7> QED BY <4>1, <7>1
          <6>3. i \in 1 .. Len(disk) /\ j \in 1 .. Len(disk)
            BY <4>1
          <6> QED BY <2>3, <5>1, <6>1, <6>2, <6>3
        <5>3. CASE ~(Start(k) <= h /\ h < Start(k) + n)
          <6>1. PICK j \in 1 .. cursor : dst'[h] = disk[j]
            BY <2>8, <3>2, <5>3
          <6>2. j < i /\ i \in 1 .. Len(disk) /\ j \in 1 .. Len(disk)
            BY <4>1
          <6> QED BY <2>3, <5>1, <6>1, <6>2
        <5> QED BY <5>2, <5>3
      <4>3. CASE ~(Start(k) <= g /\ g < Start(k) + n)
        <5>1. g < Start(k) /\ dst'[g] = dst[g]
          BY <2>8, <3>2, <4>3
        <5>2. ~(Start(k) <= h /\ h < Start(k) + n)
          BY <3>2, <4>1, <5>1
        <5>3. dst'[h] = dst[h]
          BY <2>2, <5>2
        <5>4. C = DOMAIN dst
          BY Lengths DEF C
        <5> QED BY <3>2, <5>1, <5>3, <5>4 DEF FileInv, OrderKept
      <4> QED BY <4>2, <4>3
    <3> QED BY <3>1, <3>2 DEF OrderKept
  <2> QED BY <1>1, <1>4, <2>6, <2>7, <2>9, <2>10, <2>11 DEF FileInv, JobsOK
<1> QED BY <1>7, <1>8 DEF DeserFromFile

LEMMA InitFileInv ==
  ASSUME Init
  PROVE  FileInv
<1>1. /\ file_ = [f \in Object |-> "NULL"] /\ said = [f \in Object |-> ""]
      /\ lost = {} /\ dst = [g \in Cells(restored.blocks) |-> Own]
      /\ "writer" \in Object /\ "reader" \in Object
  BY DEF Init, InitFile, Object
<1>2. buffer = <<>> /\ disk = <<>> /\ cursor = 0
  BY DEF Init, InitFile
<1>3. /\ saved \in [blocks : 0 .. MaxBlocks, appends : {0}]
      /\ restored \in [blocks : 0 .. MaxBlocks, appends : {0}]
      /\ MaxBlocks \in Nat
  BY ColumnFileAssumption DEF Init
<1>4. /\ saved.blocks \in Nat /\ saved.appends = 0
      /\ restored.blocks \in Nat /\ restored.appends = 0
      /\ JobsOK
  BY <1>3 DEF JobsOK
<1>5. /\ Len(disk) = 0 /\ Len(buffer) = 0
      /\ disk \in Seq(Cells(saved.blocks)) /\ buffer \in Seq(Cells(saved.blocks))
  BY <1>2, EmptySeq
<1>6. Streamed = 0
  BY <1>5 DEF Streamed
<1>7. saved.blocks * PartsOfBlock \in Nat /\ restored.blocks * PartsOfBlock \in Nat
      /\ Start(0) = 0
  <2>1. PartsOfBlock \in Nat
    BY PartSizes
  <2>2. saved.blocks * PartsOfBlock \in Nat /\ restored.blocks * PartsOfBlock \in Nat
    BY <1>4, <2>1
  <2>3. 0 \in 0 .. saved.blocks * PartsOfBlock
    BY <2>2
  <2> QED BY <1>4, <2>2, <2>3, PartsInColumn
<1>8. TypeOK
  <2>1. dst \in [Cells(restored.blocks) -> Cells(saved.blocks) \cup {Own}]
    BY <1>1
  <2>2. cursor \in 0 .. Len(disk)
    BY <1>2, <1>5
  <2>3. /\ saved.appends \in 0 .. saved.blocks * PartsOfBlock
        /\ restored.appends \in 0 .. restored.blocks * PartsOfBlock
    BY <1>4, <1>7
  <2>4. /\ file_ \in [Object -> {"NULL", "open", "dangling", "undefined"}]
        /\ said \in [Object -> {"", "Already opened file", "Can't open file",
                                "No file opened.", "Error happens when closing file"}]
        /\ lost \subseteq Mishap
    BY <1>1
  <2> QED BY <1>5, <2>1, <2>2, <2>3, <2>4 DEF TypeOK
<1>9. StreamOK
  <2>1. 1 .. Streamed = {} /\ Streamed = Start(saved.appends)
    BY <1>4, <1>6, <1>7
  <2>2. file_["writer"] = "NULL"
    BY <1>1
  <2> QED BY <1>2, <1>4, <2>1, <2>2 DEF StreamOK
<1>10. RestoredOK
  <2>1. Start(restored.appends) = Len(disk) /\ cursor = Len(disk) /\ ~(restored.appends > 0)
    BY <1>2, <1>4, <1>5, <1>7
  <2>2. \A g \in Cells(restored.blocks) : dst[g] = Own
    BY <1>1
  <2> QED BY <2>1, <2>2 DEF RestoredOK
<1>11. OrderKept
  BY <1>1 DEF OrderKept
<1>12. RestoreExact
  <2>1. \A g \in Cells(restored.blocks) : ~(g < 0)
    <3>1. restored.blocks * BlockCells \in Int
      BY <1>4, PartSizes
    <3> QED BY <3>1 DEF Cells
  <2> QED BY <1>1, <1>2, <2>1 DEF RestoreExact
<1> QED BY <1>4, <1>8, <1>9, <1>10, <1>11, <1>12 DEF FileInv

LEMMA NextFileInv ==
  ASSUME FileInv, [Next]_vars
  PROVE  FileInv'
<1>1. ASSUME UNCHANGED vars
      PROVE  FileInv'
  <2>1. UNCHANGED <<file_, said, buffer, disk, cursor, saved, restored, dst, lost>>
    BY <1>1 DEF vars, file_vars
  <2>2. JobsOK' /\ TypeOK'
    BY <2>1 DEF FileInv, JobsOK, TypeOK, Cells
  <2>3. StreamOK'
    BY <2>1, StreamStays
  <2>4. RestoredOK' /\ RestoreExact' /\ OrderKept'
    <3>1. Len(disk) \in Nat
      BY Lengths
    <3>2. Over(saved)' = Over(saved)
      BY <2>1 DEF Over
    <3>3. UNCHANGED <<restored, dst, cursor>> /\ Len(disk') \in Nat /\ Len(disk) <= Len(disk')
      BY <2>1, <3>1
    <3> QED BY <2>1, <3>2, <3>3, ReaderStays
  <2> QED BY <2>2, <2>3, <2>4 DEF FileInv
<1> QED BY <1>1, OpenFileInv, CloseFileInv, FlushFileInv, SerToFileInv, DeserFromFileInv DEF Next

-----------------------------------------------------------------------------
(* Every state of the two programs, whatever opens, closes, flushes and    *)
(* transfers they make, in whatever order, wherever a transfer comes short *)
(* and whether or not stdio then drops what waited, satisfies the          *)
(* invariant.                                                              *)
THEOREM FileInvariance == Spec => []FileInv
<1>1. Init => FileInv
  BY InitFileInv
<1>2. FileInv /\ [Next]_vars => FileInv'
  BY NextFileInv
<1> QED BY <1>1, <1>2, PTL DEF Spec

(* Types: neither program's calls put a cell into a column or a file that  *)
(* is not one of the saved column's, and no count passes its column's end. *)
THEOREM FileTypeCorrect == Spec => []TypeOK
<1>1. FileInv => TypeOK
  BY DEF FileInv
<1> QED BY <1>1, FileInvariance, PTL

(* SerToFile and DeserFromFile (ByteSliceColumnBlock and NaiveColumnBlock  *)
(* under Column) agree on the order of what they transfer: with no mishap, *)
(* a failed Flush included, every cell comes back to its place, for        *)
(* columns of any two lengths.                                             *)
THEOREM FileRestoreExact == Spec => []RestoreExact
<1>1. FileInv => RestoreExact
  BY DEF FileInv
<1> QED BY <1>1, FileInvariance, PTL

(* Short appends, short reads, reads ahead of the writer, failed flushes   *)
(* and failed closes lose cells but never make two of them change places.  *)
THEOREM FileOrderKept == Spec => []OrderKept
<1>1. FileInv => OrderKept
  BY DEF FileInv
<1> QED BY <1>1, FileInvariance, PTL

(* After SerToFile has made all of its appends, none of them short, and no *)
(* Flush has failed, a Close that returns true leaves exactly the column   *)
(* in the file.                                                            *)
THEOREM FileClosedWhole == Spec => []ClosedWhole
<1>1. ASSUME FileInv, file_["writer"] = "dangling", Over(saved),
             lost \cap {"append", "flush", "close"} = {}
      PROVE  disk = Whole
  <2> DEFINE n == saved.blocks * BlockCells
  <2>1. /\ Len(disk) \in Nat /\ disk \in Seq(Cells(saved.blocks)) /\ saved.blocks \in Nat
        /\ saved.appends \in 0 .. saved.blocks * PartsOfBlock
    BY <1>1, Lengths
  <2>2. buffer = <<>> /\ Streamed = Start(saved.appends)
        /\ \A i \in 1 .. Streamed : At(i) = i - 1
    BY <1>1 DEF FileInv, StreamOK
  <2>3. Len(buffer) = 0
    BY <2>2, EmptySeq
  <2>4. Start(saved.appends) = n
    BY <1>1, <2>1, PartsInColumn DEF Over
  <2>5. Len(disk) = n
    BY <2>1, <2>2, <2>3, <2>4 DEF Streamed
  <2>6. ASSUME NEW i \in 1 .. n
        PROVE  disk[i] = i - 1
    BY <2>2, <2>4, <2>5 DEF At
  <2>7. disk = [i \in 1 .. Len(disk) |-> disk[i]]
    BY <2>1, LenProperties
  <2> HIDE DEF n
  <2>8. disk = [i \in 1 .. n |-> i - 1]
    BY <2>5, <2>6, <2>7
  <2> QED BY <2>8 DEF n, Whole
<1>2. FileInv => ClosedWhole
  BY <1>1 DEF ClosedWhole
<1> QED BY <1>2, FileInvariance, PTL
=============================================================================
