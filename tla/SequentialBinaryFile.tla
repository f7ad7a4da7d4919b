------------------------ MODULE SequentialBinaryFile ------------------------
(***************************************************************************)
(* A SequentialWriteBinaryFile and a SequentialReadBinaryFile on the same  *)
(* path, used by two programs.  file_ is NULL until Open succeeds; Close   *)
(* does not reset it, so that it dangles from then on.  stdio keeps what   *)
(* is appended in a buffer and gives it to the file in order, when it      *)
(* likes; an append, a flush or a close may fail half-way (a full disk),   *)
(* and may then drop what it did not write; a read may come short.         *)
(***************************************************************************)
EXTENDS Naturals, Sequences

VARIABLES
  file_,    \* of each object: "NULL", "open", "dangling"; "undefined" if misused
  said,     \* the message of the object's last Open or Close, "" if it returned true
  buffer,   \* what was appended and is not in the file yet
  disk,     \* what is in the file
  cursor    \* how much of it the reader has had

Object == {"writer", "reader"}
file_vars == <<file_, said, buffer, disk, cursor>>

InitFile ==
  /\ file_ = [f \in Object |-> "NULL"]
  /\ said = [f \in Object |-> ""]
  /\ buffer = <<>> /\ disk = <<>> /\ cursor = 0

Says(f, message) == said' = [said EXCEPT ![f] = message]
Becomes(f, state) == file_' = [file_ EXCEPT ![f] = state]

(* fclose, fread, fwrite or fflush on what is not an open FILE.            *)
Misused(f) == Becomes(f, "undefined") /\ UNCHANGED <<said, buffer, disk, cursor>>

(* Some of the cells reach the file, the others wait.                      *)
Given(cells) ==
  \E n \in 0 .. Len(cells) :
    /\ disk' = disk \o SubSeq(cells, 1, n)
    /\ buffer' = SubSeq(cells, n + 1, Len(cells))

(* The write of the cells fails before the last, and those it did not put  *)
(* into the file are gone: C leaves it open, glibc empties its buffer.     *)
Dropped(cells) ==
  \E n \in 0 .. Len(cells) - 1 :
    /\ disk' = disk \o SubSeq(cells, 1, n)
    /\ buffer' = <<>>

(* fopen truncates the file for the writer, if it succeeds.                *)
Open(f) ==
  \/ /\ file_[f] \in {"open", "dangling"}
     /\ Says(f, "Already opened file")
     /\ UNCHANGED <<file_, buffer, disk, cursor>>
  \/ /\ file_[f] = "NULL"
     /\ Says(f, "Can't open file")
     /\ UNCHANGED <<file_, buffer, disk, cursor>>
  \/ /\ file_[f] = "NULL"
     /\ Becomes(f, "open") /\ Says(f, "")
     /\ disk' = IF f = "writer" THEN <<>> ELSE disk
     /\ UNCHANGED <<buffer, cursor>>

(* fclose frees the FILE even when what was buffered does not reach disk.  *)
Close(f) ==
  \/ file_[f] = "dangling" /\ Misused(f)
  \/ /\ file_[f] = "NULL"
     /\ Says(f, "No file opened.")
     /\ UNCHANGED <<file_, buffer, disk, cursor>>
  \/ /\ file_[f] = "open"
     /\ Becomes(f, "dangling")
     /\ \/ f = "reader" /\ Says(f, "") /\ UNCHANGED <<buffer, disk, cursor>>
        \/ /\ f = "writer" /\ buffer' = <<>>
           /\ \E n \in 0 .. Len(buffer) :
                /\ disk' = disk \o SubSeq(buffer, 1, n)
                /\ Says(f, IF n = Len(buffer) THEN "" ELSE "Error happens when closing file")
           /\ UNCHANGED cursor

(* fwrite takes the first n cells; Append returns n, its caller drops it.  *)
(* When it takes fewer than all, a write of what waits may have failed.    *)
AppendCells(cells, n) ==
  /\ file_["writer"] = "open"
  /\ LET taken == buffer \o SubSeq(cells, 1, n)
     IN  Given(taken) \/ (n < Len(cells) /\ Dropped(taken))
  /\ UNCHANGED <<file_, said, cursor>>

(* ok is what Flush returns: whether all that waited is in the file.       *)
(* fflush(NULL) is legal and flushes every open stream: none here.         *)
Flush_SaysTrue(ok) ==
  \/ file_["writer"] = "dangling" /\ Misused("writer")
  \/ /\ file_["writer"] = "open"
     /\ ok /\ (Given(buffer) \/ Dropped(buffer))
     /\ UNCHANGED <<file_, said, cursor>>
Flush(ok) ==
  \/ file_["writer"] = "dangling" /\ Misused("writer")
  \/ /\ file_["writer"] = "open"
     /\ \/ Given(buffer) /\ (ok <=> buffer' = <<>>)
        \/ ~ok /\ Dropped(buffer)
     /\ UNCHANGED <<file_, said, cursor>>

(* fread: the next n cells of the file, at most size.                      *)
Readable(size) == IF size < Len(disk) - cursor THEN size ELSE Len(disk) - cursor
Read_Rewinds(n) ==
  /\ file_["reader"] = "open"
  /\ cursor' = n
  /\ UNCHANGED <<file_, said, buffer, disk>>
Read(n) ==
  /\ file_["reader"] = "open"
  /\ cursor' = cursor + n
  /\ UNCHANGED <<file_, said, buffer, disk>>

(* "Already opened file" (src/sequential_binary_file.cpp:20 and 56): what  *)
(* Open says is true, the object has an open file.                         *)
AlreadyOpenIsOpen ==
  \A f \in Object : said[f] = "Already opened file" => file_[f] = "open"
=============================================================================
