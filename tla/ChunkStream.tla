------------------------------ MODULE ChunkStream ------------------------------
(***************************************************************************)
(* ChunkIteratorIO (app/services/csv_validation.py): the chunks of an      *)
(* object, as they come from the storage, offered as a stream of bytes.    *)
(* The reader above it asks for as many bytes as its buffer holds and      *)
(* takes an answer without bytes for the end of the file; before each      *)
(* chunk the stream asks whether the lock connection still lives.          *)
(* CsvRecords is that reader: it takes the steps of this module.           *)
(***************************************************************************)
EXTENDS Naturals, Sequences, SequencesExt, FiniteSetsExt

CONSTANTS
    Objects,      \* the objects: each a sequence of chunks, a chunk a sequence of bytes
    BufferSizes   \* len(target), the sizes of the reader's buffer

ASSUME ChunkStreamAssumption == BufferSizes \subseteq Nat \ {0}

VARIABLES
    object,     \* the chunks of the object
    chunks,     \* _chunks: the chunks not taken yet
    current,    \* _current and _offset: what is left of the chunk taken last
    wanted,     \* the size of the buffer of this call
    target,     \* the bytes written to the buffer by this call
    delivered,  \* the bytes the reader got from earlier calls
    lost,       \* the lock connection is lost
    late,       \* how many chunks were taken since
    pc          \* where the reader is

stream == <<object, chunks, current, wanted, target, delivered, lost, late, pc>>

StreamInit ==
    /\ object \in Objects
    /\ chunks = object
    /\ current = <<>>
    /\ wanted = 0
    /\ target = <<>>
    /\ delivered = <<>>
    /\ lost = FALSE
    /\ late = 0
    /\ pc = "reader"

Missing == wanted - Len(target)

\* The reader calls readinto.
ReadInto ==
    /\ pc = "reader"
    /\ \E n \in BufferSizes : wanted' = n
    /\ target' = <<>>
    /\ pc' = "filling"
    /\ UNCHANGED <<object, chunks, current, delivered, lost, late>>

\* Bytes of the current chunk are copied, as many as there are and fit.
CopyAvailable ==
    /\ pc = "filling"
    /\ Missing > 0
    /\ current # <<>>
    /\ LET available == Min({Missing, Len(current)}) IN
       /\ target' = target \o SubSeq(current, 1, available)
       /\ current' = SubSeq(current, available + 1, Len(current))
    /\ UNCHANGED <<object, chunks, wanted, delivered, lost, late, pc>>

\* Mutant: the next chunk is taken without asking for the lock connection.
BeforeNextChunkUnchecked ==
    /\ pc = "filling"
    /\ Missing > 0
    /\ current = <<>>
    /\ pc' = "taking"
    /\ UNCHANGED <<object, chunks, current, wanted, target, delivered, lost, late>>

\* before_next_chunk: a lost connection ends the reading with an exception.
BeforeNextChunk ==
    /\ pc = "filling"
    /\ Missing > 0
    /\ current = <<>>
    /\ pc' = IF lost THEN "aborted" ELSE "taking"
    /\ UNCHANGED <<object, chunks, current, wanted, target, delivered, lost, late>>

\* A chunk without bytes is passed over: the loop asks for the next one.
TakeChunk ==
    /\ pc = "taking"
    /\ chunks # <<>>
    /\ chunks' = Tail(chunks)
    /\ current' = Head(chunks)
    /\ late' = IF lost THEN late + 1 ELSE late
    /\ pc' = "filling"
    /\ UNCHANGED <<object, wanted, target, delivered, lost>>

NoMoreChunks ==
    /\ pc = "taking"
    /\ chunks = <<>>
    /\ pc' = "returning"
    /\ UNCHANGED <<object, chunks, current, wanted, target, delivered, lost, late>>

\* The call returns; the reader stops when it got nothing.
Return ==
    /\ pc = "returning" \/ (pc = "filling" /\ Missing = 0)
    /\ delivered' = delivered \o target
    /\ target' = <<>>
    /\ pc' = IF target = <<>> THEN "end of file" ELSE "reader"
    /\ UNCHANGED <<object, chunks, current, wanted, lost, late>>

LoseConnection ==
    /\ ~lost
    /\ lost' = TRUE
    /\ UNCHANGED <<object, chunks, current, wanted, target, delivered, late, pc>>

\* One step of a call; a call is a step after ReadInto up to Return.
ReadStep == CopyAvailable \/ BeforeNextChunk \/ TakeChunk \/ NoMoreChunks \/ Return

-----------------------------------------------------------------------------
\* The call never writes past the end of the reader's buffer, and what the
\* reader got is a prefix of the object, all of it at the end of the file
\* (readinto).
StreamTypeOK ==
    /\ IsSuffix(chunks, object)
    /\ wanted \in BufferSizes \cup {0}
    /\ Len(target) \in 0 .. wanted
    /\ lost \in BOOLEAN
    /\ late \in 0 .. Len(object)
    /\ pc \in {"reader", "filling", "taking", "returning", "end of file", "aborted"}

\* After the lock connection is lost at most the chunk that was already
\* asked for is taken: the rest of the file is not read under a lock another
\* worker may hold (before_next_chunk in readinto).
OneChunkAfterLoss == late <= 1
=============================================================================
