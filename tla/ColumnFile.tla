----------------------------- MODULE ColumnFile -----------------------------
(***************************************************************************)
(* A column saved by one program and restored by another: SerToFile and    *)
(* DeserFromFile, one Append or Read at a time, neither of which looks at  *)
(* what the call returns.  Each block is its num_tuples_, then its slices  *)
(* (one of them, its array, in a naive block).  A cell is what a write can *)
(* stop behind; the cell of the saved column at place g is the number g,   *)
(* so that the restored column shows where each of its cells came from.    *)
(***************************************************************************)
EXTENDS SequentialBinaryFile, FiniteSets

CONSTANTS
  MaxBlocks,          \* of either column (a bound of the model)
  kNumBytesPerCode,
  NumCells,           \* cells of num_tuples_
  SliceCells,         \* cells of a slice: more than one, it is a megabyte
  Own                 \* what the restored column held before

ASSUME ColumnFileAssumption ==
  /\ MaxBlocks \in Nat /\ kNumBytesPerCode \in Nat \ {0}
  /\ NumCells \in Nat \ {0} /\ SliceCells \in Nat \ {0}
  /\ Own \notin Nat

VARIABLES
  saved,      \* [blocks, appends]: blocks of the column, appends made
  restored,   \* the same of the other column and its reads
  dst,        \* the cells of the restored column
  lost        \* what has gone wrong (see Mishap), kept for the properties

vars == <<file_vars, saved, restored, dst, lost>>

Mishap == {"append", "flush", "close", "read", "early"}

-----------------------------------------------------------------------------
PartsOfBlock == 1 + kNumBytesPerCode
BlockCells == NumCells + kNumBytesPerCode * SliceCells
Cells(blocks) == 0 .. blocks * BlockCells - 1

(* Part k of a column, num_tuples_ of its first block being part 0: where  *)
(* it begins and how many cells it has.                                    *)
Start_OneSliceOn(k) ==
  (k \div PartsOfBlock) * BlockCells
    + (IF k % PartsOfBlock = 0 THEN 0 ELSE NumCells + (k % PartsOfBlock) * SliceCells)
Start(k) ==
  (k \div PartsOfBlock) * BlockCells
    + (IF k % PartsOfBlock = 0 THEN 0 ELSE NumCells + ((k % PartsOfBlock) - 1) * SliceCells)
Size(k) == IF k % PartsOfBlock = 0 THEN NumCells ELSE SliceCells

Part(k) == [c \in 1 .. Size(k) |-> Start(k) + c - 1]

Running(job) == job.appends > 0 /\ job.appends < job.blocks * PartsOfBlock
Over(job) == job.appends = job.blocks * PartsOfBlock
Whole == [c \in 1 .. saved.blocks * BlockCells |-> c - 1]

Init ==
  /\ InitFile
  /\ saved \in [blocks : 0 .. MaxBlocks, appends : {0}]
  /\ restored \in [blocks : 0 .. MaxBlocks, appends : {0}]
  /\ dst = [g \in Cells(restored.blocks) |-> Own]
  /\ lost = {}

(* The calls of the two programs, each out of its SerToFile or its         *)
(* DeserFromFile.                                                          *)
Call(f) == ~Running(IF f = "writer" THEN saved ELSE restored)

OpenFile(f) ==
  /\ Call(f)
  /\ Open(f)
  /\ UNCHANGED <<saved, restored, dst, lost>>

CloseFile(f) ==
  /\ Call(f)
  /\ Close(f)
  /\ lost' = IF said'[f] = "Error happens when closing file" THEN lost \cup {"close"} ELSE lost
  /\ UNCHANGED <<saved, restored, dst>>

FlushFile ==
  /\ Call("writer")
  /\ \E ok \in BOOLEAN : Flush(ok) /\ lost' = IF ok THEN lost ELSE lost \cup {"flush"}
  /\ UNCHANGED <<saved, restored, dst>>

(* The next Append of SerToFile.                                           *)
SerToFile ==
  /\ ~Over(saved)
  /\ \/ \E n \in 0 .. Size(saved.appends) :
          /\ AppendCells(Part(saved.appends), n)
          /\ lost' = IF n < Size(saved.appends) THEN lost \cup {"append"} ELSE lost
     \/ file_["writer"] \in {"NULL", "dangling"} /\ Misused("writer") /\ UNCHANGED lost
  /\ saved' = [saved EXCEPT !.appends = @ + 1]
  /\ UNCHANGED <<restored, dst>>

(* The next Read of DeserFromFile: what does not come stays as it was.     *)
Restored_SameBlock(k, n) ==
  LET first == Start(k % PartsOfBlock)
  IN  [g \in DOMAIN dst |->
         IF first <= g /\ g < first + n THEN disk[cursor + 1 + g - first] ELSE dst[g]]
Restored(k, n) ==
  LET first == Start(k)
  IN  [g \in DOMAIN dst |->
         IF first <= g /\ g < first + n THEN disk[cursor + 1 + g - first] ELSE dst[g]]

DeserFromFile ==
  /\ ~Over(restored)
  /\ LET k == restored.appends IN
     \/ \E n \in 0 .. Readable(Size(k)) :
          /\ Read(n)
          /\ dst' = Restored(k, n)
          /\ lost' = lost \cup (IF n < Readable(Size(k)) THEN {"read"} ELSE {})
                          \cup (IF Over(saved) /\ buffer = <<>> THEN {} ELSE {"early"})
     \/ file_["reader"] \in {"NULL", "dangling"} /\ Misused("reader") /\ UNCHANGED <<dst, lost>>
  /\ restored' = [restored EXCEPT !.appends = @ + 1]
  /\ UNCHANGED saved

Next ==
  \/ \E f \in Object : OpenFile(f) \/ CloseFile(f)
  \/ FlushFile \/ SerToFile \/ DeserFromFile

Spec == Init /\ [][Next]_vars
-----------------------------------------------------------------------------
TypeOK ==
  /\ file_ \in [Object -> {"NULL", "open", "dangling", "undefined"}]
  /\ said \in [Object -> {"", "Already opened file", "Can't open file",
                          "No file opened.", "Error happens when closing file"}]
  /\ buffer \in Seq(Cells(saved.blocks)) /\ disk \in Seq(Cells(saved.blocks))
  /\ cursor \in 0 .. Len(disk)
  /\ saved.appends \in 0 .. saved.blocks * PartsOfBlock
  /\ restored.appends \in 0 .. restored.blocks * PartsOfBlock
  /\ dst \in [Cells(restored.blocks) -> Cells(saved.blocks) \cup {Own}]
  /\ lost \subseteq Mishap

(* A save whose Appends, Flushes and Close have all worked, read after it  *)
(* was flushed or closed and without a read error, is restored cell by     *)
(* cell to its place, as far as the reads have gone and the file goes;     *)
(* blocks past its end keep what they held.  SerToFile and DeserFromFile   *)
(* need the same order for this.                                           *)
RestoreExact ==
  lost = {} => \A g \in DOMAIN dst :
    dst[g] = IF g < cursor THEN g ELSE Own

(* Whatever is lost on the way, nothing is reordered or seen twice: the    *)
(* cells that reach the restored column ascend with their places.          *)
OrderKept ==
  \A g \in DOMAIN dst : dst[g] # Own =>
    \A h \in DOMAIN dst : h < g /\ dst[h] # Own => dst[h] < dst[g]

(* A Close that returns true after a whole save leaves the column in the   *)
(* file if no Append came short and no Flush returned false before it.     *)
(* Close itself tells of neither: the cells that they dropped are no       *)
(* longer in the buffer that it writes, and the file lacks them.           *)
ClosedWhole ==
  file_["writer"] = "dangling" /\ Over(saved)
    /\ lost \cap {"append", "flush", "close"} = {} => disk = Whole
=============================================================================
