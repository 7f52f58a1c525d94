---------------------------- MODULE StorageCopy ----------------------------
(***************************************************************************)
(* The copy of one regular file (sm_storage.c): a reader thread fills two   *)
(* buffers ahead of the writer, or, when the pipeline cannot be set up, one  *)
(* thread reads and writes in turn.  Bytes are numbered: the byte at offset  *)
(* i of the source is i.  The file may have grown or shrunk since the stat   *)
(* call whose size the reads are planned with.  Short reads, short writes,   *)
(* interrupted calls, failures and cancellation happen anywhere.             *)
(***************************************************************************)
EXTENDS Integers, Sequences, FiniteSetsExt

CONSTANTS MaxBytes,     \* the largest source file of the model
          Chunk         \* bytes per buffer (chunk_size, STORAGE_COPY_BUFFER_SIZE)

ASSUME CopyAssumption == MaxBytes \in Nat /\ Chunk \in Nat \ {0}

VARIABLES
  file,       \* [size |-> bytes in the source, stat |-> source_size given]
  reader,     \* the read-ahead thread: [pc, slot, completed, got]
  writer,     \* the copying thread: [pc, slot, count, written, status]
  shared,     \* storage_read_ahead_t: [pending, stop, sizes, errors]
  buffers,    \* what each of the two buffers holds
  dest,       \* what has been written to the destination
  cancel,     \* storage_operation_cancelled
  outcome     \* what copy_regular_file has reported

copyVars == <<file, reader, writer, shared, buffers, dest, cancel, outcome>>

Slots == {0, 1}
EOFCount == 0
Failed == -1            \* read() < 0
Other(s) == 1 - s       \* slot ^= 1

Content == [i \in 1 .. file.size |-> i]

storage_read_size(completed) ==
  CASE completed > file.stat -> Chunk
    [] completed = file.stat -> 1
    [] OTHER -> Min({file.stat - completed, Chunk})

(* What one read() at this offset may return: some bytes, end of file, an    *)
(* error.                                                                    *)
ReadResults(completed) ==
  LET left == file.size - completed
  IN  {Failed} \cup (IF left = 0 THEN {EOFCount}
                     ELSE 1 .. Min({left, storage_read_size(completed)}))

(* A buffer into which count bytes from offset `from` were read; what an     *)
(* earlier, longer read left behind them stays.                              *)
Filled(buffer, from, count) ==
  [i \in 1 .. Max({count, Len(buffer)}) |-> IF i <= count THEN from + i ELSE buffer[i]]

CopyInit ==
  /\ file \in [size: 0 .. MaxBytes, stat: 0 .. MaxBytes]
  /\ reader = [pc |-> "none", slot |-> 0, completed |-> 0, got |-> 0]
  /\ writer = [pc |-> "start", slot |-> 0, count |-> 0, written |-> 0, status |-> "ok"]
  /\ shared = [pending |-> 0, stop |-> FALSE,
               sizes |-> [s \in Slots |-> 0], errors |-> [s \in Slots |-> FALSE]]
  /\ buffers = [s \in Slots |-> <<>>]
  /\ dest = <<>>
  /\ cancel = FALSE
  /\ outcome = "copying"

-----------------------------------------------------------------------------
(* The read-ahead thread.                                                    *)

TakesBusySlot ==
  /\ reader.pc = "wait"
  /\ shared.pending <= 2 \/ shared.stop
  /\ reader' = [reader EXCEPT !.pc = IF shared.stop THEN "gone" ELSE "read"]
  /\ UNCHANGED <<file, writer, shared, buffers, dest, cancel, outcome>>

WaitsForRoomOnly ==
  /\ reader.pc = "wait"
  /\ shared.pending < 2
  /\ reader' = [reader EXCEPT !.pc = IF shared.stop THEN "gone" ELSE "read"]
  /\ UNCHANGED <<file, writer, shared, buffers, dest, cancel, outcome>>

(* Wait for a free buffer; a stop wins. *)
ReaderTakesSlot ==
  /\ reader.pc = "wait"
  /\ shared.pending < 2 \/ shared.stop
  /\ reader' = [reader EXCEPT !.pc = IF shared.stop THEN "gone" ELSE "read"]
  /\ UNCHANGED <<file, writer, shared, buffers, dest, cancel, outcome>>

(* read() is repeated while it is interrupted, unless stop or sleep cancels. *)
ReaderReads ==
  /\ reader.pc = "read"
  /\ \E count \in ReadResults(reader.completed) :
        /\ reader' = [reader EXCEPT !.pc = "publish", !.got = count,
                        !.completed = IF count = Failed THEN @ ELSE @ + count]
        /\ buffers' = IF count = Failed THEN buffers
                      ELSE [buffers EXCEPT ![reader.slot] = Filled(@, reader.completed, count)]
  /\ UNCHANGED <<file, writer, shared, dest, cancel, outcome>>

ReaderPublishes ==
  /\ reader.pc = "publish"
  /\ IF shared.stop
     THEN reader' = [reader EXCEPT !.pc = "gone"] /\ UNCHANGED shared
     ELSE /\ shared' = [shared EXCEPT !.sizes[reader.slot] = reader.got,
                                      !.errors[reader.slot] = (reader.got = Failed),
                                      !.pending = @ + 1]
          /\ reader' = IF reader.got \in {EOFCount, Failed}
                       THEN [reader EXCEPT !.pc = "gone"]
                       ELSE [reader EXCEPT !.pc = "wait", !.slot = Other(@)]
  /\ UNCHANGED <<file, writer, buffers, dest, cancel, outcome>>

-----------------------------------------------------------------------------
(* The copying thread.                                                       *)

(* copy_file_read_ahead, or the sequential loop when the file is small, both *)
(* ends are on the same side, or the second buffer or the thread cannot be   *)
(* had.                                                                      *)
StartPipeline ==
  /\ writer.pc = "start"
  /\ reader' = [reader EXCEPT !.pc = "wait"]
  /\ writer' = [writer EXCEPT !.pc = "check"]
  /\ UNCHANGED <<file, shared, buffers, dest, cancel, outcome>>

StartSequential ==
  /\ writer.pc = "start"
  /\ writer' = [writer EXCEPT !.pc = "seq"]
  /\ UNCHANGED <<file, reader, shared, buffers, dest, cancel, outcome>>

WriterChecks ==
  /\ writer.pc = "check"
  /\ writer' = [writer EXCEPT !.pc = IF cancel THEN "stop" ELSE "wait",
                              !.status = IF cancel THEN "failed" ELSE @]
  /\ UNCHANGED <<file, reader, shared, buffers, dest, cancel, outcome>>

WriterTakesSlot ==
  /\ writer.pc = "wait"
  /\ shared.pending > 0
  /\ LET count == shared.sizes[writer.slot]
     IN  writer' = CASE count = EOFCount -> [writer EXCEPT !.pc = "stop"]
                     [] count = Failed -> [writer EXCEPT !.pc = "stop", !.status = "failed"]
                     [] OTHER -> [writer EXCEPT !.pc = "write", !.count = count, !.written = 0]
  /\ UNCHANGED <<file, reader, shared, buffers, dest, cancel, outcome>>

(* One round of write_storage_buffer: a short write goes on, an interrupted  *)
(* one is repeated, a failed or cancelled one ends the copy.                 *)
WriteRound(ok, failed) ==
  \/ /\ ~cancel
     /\ \E n \in 1 .. writer.count - writer.written :
          /\ dest' = dest \o SubSeq(buffers[writer.slot], writer.written + 1, writer.written + n)
          /\ writer' = [writer EXCEPT !.written = @ + n,
                          !.pc = IF writer.written + n = writer.count THEN ok ELSE @]
  \/ /\ writer' = [writer EXCEPT !.pc = failed, !.status = "failed"]
     /\ UNCHANGED dest

WriterWrites ==
  /\ writer.pc = "write"
  /\ WriteRound("release", "stop")
  /\ UNCHANGED <<file, reader, shared, buffers, cancel, outcome>>

(* "Keep this slot occupied while writing, then let the reader reuse it." *)
WriterReleases ==
  /\ writer.pc = "release"
  /\ shared' = [shared EXCEPT !.pending = @ - 1]
  /\ writer' = [writer EXCEPT !.pc = "check", !.slot = Other(@)]
  /\ UNCHANGED <<file, reader, buffers, dest, cancel, outcome>>

WriterStops ==
  /\ writer.pc = "stop"
  /\ shared' = [shared EXCEPT !.stop = TRUE]
  /\ writer' = [writer EXCEPT !.pc = "join"]
  /\ UNCHANGED <<file, reader, buffers, dest, cancel, outcome>>

WriterJoins ==
  /\ writer.pc = "join"
  /\ reader.pc = "gone"
  /\ writer' = [writer EXCEPT !.pc = "finish"]
  /\ UNCHANGED <<file, reader, shared, buffers, dest, cancel, outcome>>

(* The sequential loop of copy_regular_file. *)
SequentialReads ==
  /\ writer.pc = "seq"
  /\ IF cancel
     THEN writer' = [writer EXCEPT !.pc = "finish", !.status = "failed"] /\ UNCHANGED buffers
     ELSE \E count \in ReadResults(Len(dest)) :
            /\ writer' = CASE count = EOFCount -> [writer EXCEPT !.pc = "finish"]
                           [] count = Failed -> [writer EXCEPT !.pc = "finish", !.status = "failed"]
                           [] OTHER -> [writer EXCEPT !.pc = "seqwrite", !.count = count, !.written = 0]
            /\ buffers' = IF count \in {EOFCount, Failed} THEN buffers
                          ELSE [buffers EXCEPT ![writer.slot] = Filled(@, Len(dest), count)]
  /\ UNCHANGED <<file, reader, shared, dest, cancel, outcome>>

SequentialWrites ==
  /\ writer.pc = "seqwrite"
  /\ WriteRound("seq", "finish")
  /\ UNCHANGED <<file, reader, shared, buffers, cancel, outcome>>

(* fchmod, fdatasync and the two closes may fail; then the file is removed.  *)
FinishFile ==
  /\ writer.pc = "finish"
  /\ \E ok \in BOOLEAN :
        outcome' = IF writer.status = "ok" /\ ok THEN "copied" ELSE "failed"
  /\ writer' = [writer EXCEPT !.pc = "end"]
  /\ UNCHANGED <<file, reader, shared, buffers, dest, cancel>>

Cancel ==
  /\ ~cancel /\ outcome = "copying"
  /\ cancel' = TRUE
  /\ UNCHANGED <<file, reader, writer, shared, buffers, dest, outcome>>

Copied == writer.pc = "end" /\ UNCHANGED copyVars

ReaderNext == ReaderTakesSlot \/ ReaderReads \/ ReaderPublishes

WriterNext == \/ StartPipeline \/ StartSequential \/ WriterChecks \/ WriterTakesSlot
              \/ WriterWrites \/ WriterReleases \/ WriterStops \/ WriterJoins
              \/ SequentialReads \/ SequentialWrites \/ FinishFile

CopyNext == ReaderNext \/ WriterNext \/ Cancel \/ Copied

CopySpec == CopyInit /\ [][CopyNext]_copyVars

-----------------------------------------------------------------------------
(* The reader never fills the buffer the writer is writing from, and never   *)
(* overwrites one that still holds unwritten bytes (copy_file_read_ahead's    *)
(* "Keep this slot occupied while writing").                                  *)
BuffersNotShared ==
  (reader.pc = "read" /\ writer.pc \in {"write", "release"}) => reader.slot # writer.slot

(* Whatever the interleaving, the pipeline and the sequential loop behave as  *)
(* one ordered copy: the destination only grows by the next bytes of the      *)
(* source, and success is reported only for the whole source.                 *)
Abstract == INSTANCE BlockCopy WITH source <- Content, copied <- dest, outcome <- outcome
ImplementsBlockCopy == Abstract!CopySpec
=============================================================================
