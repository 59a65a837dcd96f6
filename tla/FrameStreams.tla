---------------------------- MODULE FrameStreams ----------------------------
(***************************************************************************)
(* Frames on the media that carry them, byte by byte:                      *)
(*                                                                         *)
(*   session   order entry over TCP: OrderEntryClient::reader_loop and the *)
(*             gateway's handle_read reassemble frames from chunks;        *)
(*   journal   CommandJournalWriter's file, read by run_command_replay;    *)
(*   capture   EventFileWriter's file, read by EventFileReader;            *)
(*   datagram  pack_frames and unpack_frames;                              *)
(*   snapshot  write_snapshot and read_snapshot.                           *)
(*                                                                         *)
(* A crash leaves any prefix of the bytes written to a file; a datagram    *)
(* longer than the receive buffer loses its end.                           *)
(***************************************************************************)
EXTENDS WireFormats

CONSTANTS
  Messages(_),  \* medium -> the messages a well-behaved writer may write
  Foreign(_),   \* medium -> frames of another writer, well framed but refused
  Registered,   \* sequence of the instruments the journal names first
  ChunkSize,    \* most bytes one read of a socket returns
  MaxFrames     \* bound: messages written to one medium

VARIABLES
  medium, phase,
  strict,     \* stop_on_decode_error
  written,    \* history: what was written, in order
  stream,     \* bytes written and not yet read
  survived,   \* history: how many bytes were left to read
  buffer,     \* session: read_buffer
  left,       \* datagram, snapshot: frames still to be walked
  partial,    \* datagram, snapshot: the result so far
  delivered,  \* what the reader handed on, in order
  failed      \* the reader reported an error

vars == <<medium, phase, strict, written, stream, survived, buffer, left, partial,
          delivered, failed>>

Media == {"session", "journal", "capture", "datagram", "snapshot"}
Files == {"journal", "capture"}
Parcels == {"datagram", "snapshot"}

Format == CASE medium = "session" -> "order_entry"
            [] medium = "journal" -> "command"
            [] OTHER -> "market_data"

Bytes(frame) == IF frame.type = "Foreign" THEN frame.bytes ELSE Encode(Format, frame)

AllBytes(frames) == FoldLeft(LAMBDA bytes, f : bytes \o Bytes(f), << >>, frames)

First(bytes, n) == SubSeq(bytes, 1, n)
After(bytes, n) == SubSeq(bytes, n + 1, Len(bytes))

Registration(i) ==
  [type |-> "RegisterInstrument", command_sequence |-> 0, instrument_id |-> i]

\* CommandJournalWriter's constructor names every instrument first.
Init ==
  /\ medium \in Media /\ phase = "open"
  /\ strict \in BOOLEAN /\ (medium \notin Files => strict)
  /\ written = IF medium = "journal"
               THEN [i \in DOMAIN Registered |-> Registration(Registered[i])]
               ELSE << >>
  /\ stream = AllBytes(written)
  /\ survived = 0 /\ buffer = << >> /\ left = 0 /\ partial = << >>
  /\ delivered = << >> /\ failed = FALSE

\* OrderEntryClient::send, the gateway's writer, CommandJournalWriter::write
\* and EventFileWriter::write.
WriteFrame ==
  /\ phase = "open" /\ medium \notin Parcels
  /\ Len(written) < MaxFrames + (IF medium = "journal" THEN Len(Registered) ELSE 0)
  /\ \E f \in Messages(medium) \cup Foreign(medium) :
       written' = Append(written, f) /\ stream' = stream \o Bytes(f)
  /\ UNCHANGED <<medium, phase, strict, survived, buffer, left, partial, delivered,
                 failed>>
-----------------------------------------------------------------------------
(***************************************************************************)
(* A session: what the reader gets at a time has nothing to do with frames.*)
(***************************************************************************)
FrameReady ==
  LET header == DecodeHeader(Format, buffer)
  IN  header.error = "None" /\ Len(buffer) >= header.frame_size

ReadChunk ==
  /\ medium = "session" /\ ~FrameReady /\ stream # << >>
  /\ \E n \in 1..Min({ChunkSize, Len(stream)}) :
       buffer' = buffer \o First(stream, n) /\ stream' = After(stream, n)
  /\ UNCHANGED <<medium, phase, strict, written, survived, left, partial, delivered,
                 failed>>

Deliver(result) ==
  delivered' = IF result.error = "None" THEN Append(delivered, result.message)
               ELSE delivered

\* Mutant of TakeFrame: a frame that is refused is not erased by the length
\* its header gives but by the one its type should have.
TakeFrameOfType ==
  /\ medium = "session" /\ FrameReady
  /\ LET header == DecodeHeader(Format, buffer)
     IN  /\ Deliver(Decode(Format, First(buffer, header.frame_size)))
         /\ buffer' = After(buffer, HeaderSize(Format) + PayloadSize[Format][header.type])
  /\ UNCHANGED <<medium, phase, strict, written, stream, survived, left, partial, failed>>

\* The inner loop: one frame is erased, and handed on if its payload decodes.
TakeFrame ==
  /\ medium = "session" /\ FrameReady
  /\ LET size == DecodeHeader(Format, buffer).frame_size
     IN  /\ Deliver(Decode(Format, First(buffer, size)))
         /\ buffer' = After(buffer, size)
  /\ UNCHANGED <<medium, phase, strict, written, stream, survived, left, partial, failed>>
-----------------------------------------------------------------------------
(***************************************************************************)
(* Files and parcels: written, cut, read.                                  *)
(***************************************************************************)
\* pack_frames.
PacketFields == <<"magic", "version", "frame_count", "sequence_number",
                  "payload_length">>

\* write_snapshot.
SnapshotFields == <<"magic", "version", "flags", "sequence_number", "entry_count">>

ParcelFields == IF medium = "datagram" THEN PacketFields ELSE SnapshotFields

ParcelHeader(frames) ==
  [magic |-> IF medium = "datagram" THEN 1 ELSE 2, version |-> 1, flags |-> 0,
   frame_count |-> Len(frames), entry_count |-> Len(frames), sequence_number |-> 5,
   payload_length |-> Len(AllBytes(frames))]

\* A datagram packed by udp_sender, or a snapshot; another writer's snapshot may
\* hold entries that no book lists together.
WriteParcel ==
  /\ phase = "open" /\ medium \in Parcels /\ stream = << >>
  /\ \E n \in 0..MaxFrames : \E frames \in [1..n -> Messages(medium) \cup Foreign(medium)] :
       /\ medium = "datagram" => n > 0
       /\ written' = frames
       /\ stream' = PutFields(ParcelFields, ParcelHeader(frames)) \o AllBytes(frames)
  /\ UNCHANGED <<medium, phase, strict, survived, buffer, left, partial, delivered,
                 failed>>

\* The writer is gone; what it wrote arrives, or the part of it that survived.
StopWriting ==
  /\ phase = "open" /\ medium # "session" /\ (medium \in Parcels => stream # << >>)
  /\ \E n \in 0..Len(stream) : stream' = First(stream, n) /\ survived' = n
  /\ phase' = IF medium \in Files THEN "reading" ELSE "opening"
  /\ UNCHANGED <<medium, strict, written, buffer, left, partial, delivered, failed>>

\* Mutant of FrameAtHead: how much was read (gcount) is not looked at, so what
\* is missing reads as zeros.
FrameAtHeadPadded ==
  LET header == DecodeHeader(Format, stream \o [i \in 1..HeaderSize(Format) |-> 0])
      size   == IF header.error # "None" THEN HeaderSize(Format) ELSE header.frame_size
  IN  First(stream \o [i \in 1..size |-> 0], size)

\* What CommandJournalReader::next and EventFileReader::next read at once: a
\* header, and if it decodes the payload it announces, as far as they exist.
FrameAtHead ==
  LET header == DecodeHeader(Format, stream)
      size   == IF header.error # "None" THEN HeaderSize(Format) ELSE header.frame_size
  IN  First(stream, Min({size, Len(stream)}))

NextFrame ==
  /\ phase = "reading" /\ medium \in Files /\ stream # << >>
  /\ LET result == Decode(Format, FrameAtHead)
     IN  /\ Deliver(result)
         /\ failed' = (failed \/ result.error # "None")
         /\ phase' = IF result.error # "None" /\ strict THEN "done" ELSE phase
  /\ stream' = After(stream, Len(FrameAtHead))
  /\ UNCHANGED <<medium, strict, written, survived, buffer, left, partial>>

EndOfFile ==
  /\ phase = "reading" /\ medium \in Files /\ stream = << >>
  /\ phase' = "done"
  /\ UNCHANGED <<medium, strict, written, stream, survived, buffer, left, partial,
                 delivered, failed>>

\* Mutant of Refuse: what was found whole is handed on.
RefuseTheRest ==
  /\ phase' = "done" /\ failed' = TRUE /\ partial' = << >> /\ delivered' = partial
  /\ UNCHANGED <<stream, left>>

Refuse ==
  /\ phase' = "done" /\ failed' = TRUE /\ partial' = << >>
  /\ UNCHANGED <<stream, left, delivered>>

HeaderAccepted(header, rest) ==
  /\ header.magic = ParcelHeader(<< >>).magic /\ header.version = 1
  /\ IF medium = "datagram"
     THEN header.frame_count > 0 /\ Len(rest) = header.payload_length
     ELSE header.flags = 0

OpenParcel ==
  /\ phase = "opening"
  /\ LET size   == SizeOf(ParcelFields)
         header == GetFields(ParcelFields, stream)
         rest   == After(stream, size)
     IN  IF Len(stream) >= size /\ HeaderAccepted(header, rest)
         THEN /\ phase' = "reading" /\ stream' = rest
              /\ left' = IF medium = "datagram" THEN header.frame_count
                         ELSE header.entry_count
              /\ UNCHANGED <<partial, delivered, failed>>
         ELSE Refuse
  /\ UNCHANGED <<medium, strict, written, survived, buffer>>

Undecodable == [type |-> "Undecodable"]

\* OrderBook::add_order on the book of the entry's instrument, as far as the
\* entries before it have built it.
BookAccepts(entries, m) ==
  /\ m.price > 0 /\ m.quantity # 0
  /\ \A j \in DOMAIN entries : \/ entries[j].instrument_id # m.instrument_id
                               \/ entries[j].order_id # m.order_id

\* What read_snapshot asks of an entry.
EntryAccepted(result) ==
  /\ result.error = "None" /\ result.message.type = "AddOrder"
  /\ BookAccepts(partial, result.message)

\* A frame whose end is unknown condemns the parcel; a frame that is only
\* refused condemns a snapshot.
WalkFrame ==
  /\ phase = "reading" /\ medium \in Parcels /\ left > 0
  /\ LET header == DecodeHeader(Format, stream)
         result == Decode(Format, First(stream, header.frame_size))
     IN  IF /\ header.error = "None" /\ Len(stream) >= header.frame_size
            /\ medium = "snapshot" => EntryAccepted(result)
         THEN /\ partial' = Append(partial, IF result.error = "None" THEN result.message
                                            ELSE Undecodable)
              /\ stream' = After(stream, header.frame_size)
              /\ left' = left - 1
              /\ UNCHANGED <<phase, delivered, failed>>
         ELSE Refuse
  /\ UNCHANGED <<medium, strict, written, survived, buffer>>

CloseParcel ==
  /\ phase = "reading" /\ medium \in Parcels /\ left = 0
  /\ IF medium = "datagram" /\ stream # << >> THEN Refuse
     ELSE /\ delivered' = partial /\ partial' = << >> /\ phase' = "done"
          /\ UNCHANGED <<stream, left, failed>>
  /\ UNCHANGED <<medium, strict, written, survived, buffer>>

Next ==
  \/ WriteFrame \/ ReadChunk \/ TakeFrame
  \/ WriteParcel \/ StopWriting \/ NextFrame \/ EndOfFile
  \/ OpenParcel \/ WalkFrame \/ CloseParcel

Spec == Init /\ [][Next]_vars
-----------------------------------------------------------------------------
(***************************************************************************)
(* Properties.                                                             *)
(***************************************************************************)
Refused(f) == f \in Foreign(medium)

SizeUpTo(n) == Len(AllBytes(SubSeq(written, 1, n)))

\* Encoder, decoder and framing agree for every message and every way the
\* bytes may be chunked: the reader hands on what was sent, in order, without
\* the frames it must refuse; each of those costs nothing but itself, and when
\* all bytes have arrived nothing is left waiting in the buffer.
ChunksReassemble ==
  medium = "session" =>
    LET good == SelectSeq(written, LAMBDA f : ~Refused(f))
    IN  /\ IsPrefix(delivered, good)
        /\ stream = << >> /\ ~FrameReady => delivered = good /\ buffer = << >>

\* Whatever prefix of a journal or a capture survives a crash, its reader
\* recovers exactly the records that survived whole, reports an error exactly
\* if a part of another is left, and a replayed command finds its instrument
\* registered.
CutFilesReplayToAPrefix ==
  medium \in Files =>
    /\ IsPrefix(delivered, written)
    /\ phase = "done" =>
         LET n == Len(delivered)
         IN  /\ SizeUpTo(n) <= survived
             /\ n < Len(written) => SizeUpTo(n + 1) > survived
             /\ failed = (SizeUpTo(n) # survived)
    /\ medium = "journal" =>
         \A i \in DOMAIN delivered :
           \E j \in 1..i : /\ delivered[j].type = "RegisterInstrument"
                           /\ delivered[j].instrument_id = delivered[i].instrument_id

\* What write_snapshot could have written: valid orders, and no order of an
\* instrument twice.
ListsABook(entries) ==
  /\ \A i \in DOMAIN entries : ~Refused(entries[i])
  /\ \A i, j \in DOMAIN entries :
       i # j => \/ entries[i].instrument_id # entries[j].instrument_id
                \/ entries[i].order_id # entries[j].order_id

\* A datagram or a snapshot that lost its end is refused as a whole, and so is
\* a snapshot that lists no book ("a well-formed snapshot should never hit a
\* book error"): never does a part of a batch or of a book get through.  In a
\* whole datagram a refused frame costs nothing but itself.
ParcelsAreAllOrNothing ==
  medium \in Parcels /\ phase = "done" =>
    LET whole == survived = SizeOf(ParcelFields) + SizeUpTo(Len(written))
    IN  delivered = IF whole /\ (medium = "snapshot" => ListsABook(written))
                    THEN [i \in DOMAIN written |->
                            IF Refused(written[i]) THEN Undecodable ELSE written[i]]
                    ELSE << >>
=============================================================================
