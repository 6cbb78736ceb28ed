---------------------------- MODULE FrameStream ----------------------------
(***************************************************************************)
(* One direction of a silent-net stream, as send_frame and recv_frame      *)
(* (frame.rs) use it.  send_frame writes the header and then, if there is  *)
(* one, the payload; recv_frame reads a header, checks the declared length *)
(* against its limit, reads that many bytes and decodes.  Between the two  *)
(* sits a bounded queue of chunks: whole writes for MemoryStream (an mpsc  *)
(* channel of Bytes), single bytes for TcpStream (a socket buffer).        *)
(*                                                                         *)
(* A byte is a cell <<frame, position>>, so that a reader that has lost    *)
(* the frame boundaries can be told from one that has not.  Both futures   *)
(* may be dropped at any of their await points (try_join! does that to the *)
(* siblings of a failed call).                                             *)
(***************************************************************************)
EXTENDS Naturals, SequencesExt

CONSTANTS
  Sizes,         \* payload sizes senders use
  HeaderCells,   \* FRAME_HEADER_SIZE in cells
  Limit,         \* max_payload of the receiver; send_frame has no limit
  Capacity,      \* chunks the transport holds: 32 in memory, a socket buffer
  Transports,    \* values of wholeWrites to choose from
  MaxFrames,     \* bound: send_frame calls
  MaxReturned    \* bound: frames a receiver that lost the boundaries returns

ASSUME StreamConstants ==
  /\ Sizes \subseteq Nat
  /\ HeaderCells \in Nat \ {0}
  /\ Limit \in Nat
  /\ Capacity \in Nat \ {0}
  /\ Transports \subseteq BOOLEAN
  /\ MaxFrames \in Nat
  /\ MaxReturned \in Nat

VARIABLES
  wholeWrites,   \* TRUE: MemoryStream; FALSE: TcpStream
  sizes,         \* sizes[i]: payload size of the i-th frame sent
  pending,       \* cells of the write in progress
  payload,       \* cells of the write that follows it
  queue,         \* chunks written and not read
  buffer,        \* MemoryStream.buffer: rest of the chunk read last
  reader,        \* the recv_frame in progress
  received,      \* history: what recv_frame decoded
  senderOpen, receiverOpen,
  broken         \* history: a fault lost the frame boundaries

sender == <<wholeWrites, sizes, pending, payload, senderOpen>>
receiver == <<buffer, reader, received, receiverOpen>>
vars == <<sender, queue, receiver, broken>>

Mixed == 0

Cells(i, first, last) == [k \in 1 .. last + 1 - first |-> <<i, first + k - 1>>]
Header(i) == Cells(i, 1, HeaderCells)
Payload(i) == Cells(i, HeaderCells + 1, HeaderCells + sizes[i])

Idle == [phase |-> "idle", head |-> <<>>, got |-> <<>>, need |-> 0]
Reading(phase, head, need) ==
  [phase |-> phase, head |-> head, got |-> <<>>, need |-> need]

Init ==
  /\ wholeWrites \in Transports
  /\ sizes = <<>> /\ pending = <<>> /\ payload = <<>>
  /\ queue = <<>> /\ buffer = <<>>
  /\ reader = Idle
  /\ received = <<>>
  /\ senderOpen = TRUE /\ receiverOpen = TRUE
  /\ broken = FALSE
-----------------------------------------------------------------------------
\* send_frame: the header is the first write, a payload that is not empty the
\* second.
SendFrame(n) ==
  /\ senderOpen
  /\ pending = <<>>
  /\ Len(sizes) < MaxFrames
  /\ sizes' = Append(sizes, n)
  /\ pending' = Header(Len(sizes) + 1)
  /\ payload' = Cells(Len(sizes) + 1, HeaderCells + 1, HeaderCells + n)
  /\ UNCHANGED <<wholeWrites, senderOpen, queue, receiver, broken>>

\* A memory write is one chunk; a socket takes what fits.
WrittenNext == IF wholeWrites THEN pending ELSE SubSeq(pending, 1, 1)

HasRoomForOneMore == Len(queue) <= Capacity
HasRoom == Len(queue) < Capacity

\* After the header comes the payload.
NextWriteHeaderOnly(rest) == IF rest = <<>> THEN <<<<>>, <<>>>> ELSE <<rest, payload>>
NextWrite(rest) == IF rest = <<>> THEN <<payload, <<>>>> ELSE <<rest, payload>>

WriteSome ==
  LET rest == SubSeq(pending, Len(WrittenNext) + 1, Len(pending))
  IN  /\ pending # <<>>
      /\ receiverOpen
      /\ HasRoom
      /\ queue' = Append(queue, WrittenNext)
      /\ pending' = NextWrite(rest)[1]
      /\ payload' = NextWrite(rest)[2]
      /\ UNCHANGED <<wholeWrites, sizes, senderOpen, receiver, broken>>

\* The peer is gone: BrokenPipe, and send_frame gives up.
WriteFails ==
  /\ pending # <<>>
  /\ ~receiverOpen
  /\ pending' = <<>> /\ payload' = <<>>
  /\ UNCHANGED <<wholeWrites, sizes, senderOpen, queue, receiver, broken>>

\* No byte of the frame in progress has been written.
Unwritten == pending # <<>> /\ pending = Header(Len(sizes))

\* The future of send_frame is dropped while it waits.  If part of the frame
\* is out, the next frame will follow that part.
CancelSend ==
  /\ senderOpen
  /\ pending # <<>>
  /\ pending' = <<>> /\ payload' = <<>>
  /\ IF Unwritten THEN sizes' = Front(sizes) /\ UNCHANGED broken
                  ELSE broken' = TRUE /\ UNCHANGED sizes
  /\ UNCHANGED <<wholeWrites, senderOpen, queue, receiver>>

CloseSender ==
  /\ senderOpen
  /\ senderOpen' = FALSE
  /\ sizes' = IF Unwritten THEN Front(sizes) ELSE sizes
  /\ pending' = <<>> /\ payload' = <<>>
  /\ UNCHANGED <<wholeWrites, queue, receiver, broken>>

\* A socket may be reset when its owner has gone; a memory channel keeps what
\* was put into it.
Reset ==
  /\ ~wholeWrites
  /\ ~senderOpen
  /\ queue # <<>>
  /\ queue' = <<>>
  /\ broken' = TRUE
  /\ UNCHANGED <<sender, receiver>>
-----------------------------------------------------------------------------
RecvFrame ==
  /\ receiverOpen
  /\ reader.phase = "idle"
  /\ reader' = Reading("header", <<>>, HeaderCells)
  /\ UNCHANGED <<sender, queue, buffer, received, receiverOpen, broken>>

\* What the next iteration of read_exact works on, and what it leaves behind.
Available == IF buffer # <<>> THEN buffer ELSE Head(queue)
Missing == reader.need - Len(reader.got)
Leftover == SubSeq(Available, Missing + 1, Len(Available))

ReadSome ==
  /\ reader.phase # "idle"
  /\ Missing > 0
  /\ buffer # <<>> \/ queue # <<>>
  /\ reader' = [reader EXCEPT !.got = @ \o SubSeq(Available, 1, IF Len(Available) < Missing
                                                              THEN Len(Available) ELSE Missing)]
  /\ buffer' = Leftover
  /\ queue' = IF buffer # <<>> THEN queue ELSE Tail(queue)
  /\ UNCHANGED <<sender, received, receiverOpen, broken>>

\* The sender is gone and everything has been read: what was read of an
\* unfinished frame goes with the error.
ReadEof ==
  /\ reader.phase # "idle"
  /\ Missing > 0
  /\ buffer = <<>> /\ queue = <<>>
  /\ ~senderOpen
  /\ reader' = Idle
  /\ UNCHANGED <<sender, queue, buffer, received, receiverOpen, broken>>

\* The frame a header belongs to; a reader off the boundaries sees no header
\* of any frame, and a length that could be anything.
FramesOf(head) == {i \in 1 .. Len(sizes) : head = Header(i)}

FitsStrictly(length) == length < Limit
Fits(length) == length <= Limit

\* Lengths worth telling apart are those up to the limit and one above.
Lengths == 0 .. Limit + 1
LengthSeen(length) == IF length > Limit THEN Limit + 1 ELSE length

ReadHeader ==
  /\ reader.phase = "header"
  /\ Missing = 0
  /\ \E length \in Lengths :
       /\ \/ FramesOf(reader.got) = {}
          \/ \E i \in FramesOf(reader.got) : length = LengthSeen(sizes[i])
       /\ IF Fits(length)
            THEN reader' = Reading("payload", reader.got, length)
            ELSE reader' = Idle                       \* PayloadTooLarge
       /\ broken' = (broken \/ length > Limit)
  /\ UNCHANGED <<sender, queue, buffer, received, receiverOpen>>

Decoded ==
  LET whole == {i \in FramesOf(reader.head) : reader.got = Payload(i)}
  IN  IF whole = {} THEN Mixed ELSE CHOOSE i \in whole : TRUE

\* decode_from: nothing in a frame tells a mixture of bytes from a frame.
Decode ==
  /\ reader.phase = "payload"
  /\ Missing = 0
  /\ Len(received) < MaxReturned
  /\ received' = Append(received, Decoded)
  /\ reader' = Idle
  /\ UNCHANGED <<sender, queue, buffer, receiverOpen, broken>>

\* Bytes that are no header of this code may show a wire version or a message
\* kind that decode_from refuses.
DecodeFails ==
  /\ reader.phase = "payload"
  /\ Missing = 0
  /\ FramesOf(reader.head) = {}
  /\ reader' = Idle
  /\ UNCHANGED <<sender, queue, buffer, received, receiverOpen, broken>>

\* The future of recv_frame is dropped while it waits for a chunk: what it has
\* read so far is lost.
ReadNothing == reader.phase = "header" /\ reader.got = <<>>
CancelRecv ==
  /\ reader.phase # "idle"
  /\ Missing > 0
  /\ buffer = <<>>
  /\ reader' = Idle
  /\ broken' = (broken \/ ~ReadNothing)
  /\ UNCHANGED <<sender, queue, buffer, received, receiverOpen>>

CloseReceiver ==
  /\ receiverOpen
  /\ receiverOpen' = FALSE
  /\ reader' = Idle
  /\ buffer' = <<>> /\ queue' = <<>>
  /\ UNCHANGED <<sender, received, broken>>
-----------------------------------------------------------------------------
Next ==
  \/ \E n \in Sizes : SendFrame(n)
  \/ WriteSome \/ WriteFails \/ CancelSend \/ CloseSender \/ Reset
  \/ RecvFrame \/ ReadSome \/ ReadEof \/ ReadHeader
  \/ Decode \/ DecodeFails \/ CancelRecv \/ CloseReceiver

Spec == Init /\ [][Next]_vars

\* The executor polls a woken task, and a receiver calls recv_frame again:
\* nothing forces a call to be cancelled or a stream to be dropped.
Fairness ==
  /\ WF_vars(WriteSome)
  /\ WF_vars(RecvFrame) /\ WF_vars(ReadSome) /\ WF_vars(ReadHeader)
  /\ WF_vars(Decode) /\ WF_vars(ReadEof)

FairSpec == Spec /\ Fairness
-----------------------------------------------------------------------------
\* The shape of the stream and of the call in progress at either end.
TypeOK ==
  /\ wholeWrites \in Transports
  /\ sizes \in Seq(Sizes) /\ Len(sizes) <= MaxFrames
  /\ Len(queue) <= Capacity
  /\ ~wholeWrites => buffer = <<>>
  /\ reader.phase \in {"idle", "header", "payload"}
  /\ reader.need \in Nat /\ Len(reader.got) <= reader.need
  /\ received \in Seq(0 .. MaxFrames)
  /\ senderOpen \in BOOLEAN /\ receiverOpen \in BOOLEAN /\ broken \in BOOLEAN

\* The frames of which at least one byte has been written.
Begun == IF Unwritten THEN Front(sizes) ELSE sizes

\* The last frame that came out whole.
LastWhole == Max(ToSet(received) \cup {Mixed})

Fifo == INSTANCE FrameFifo WITH sent <- Begun, taken <- LastWhole

\* However frames are cut into writes, chunks and reads, the stream is a FIFO
\* of whole frames until a call is cancelled half-way, a frame exceeds the
\* receiver's limit or a socket is reset; a call cancelled before its first
\* byte leaves no trace; and nothing ever makes an old frame come out again.
ImplementsFifo == Fifo!FifoSpec

Written(i) == i < Len(sizes) \/ (i = Len(sizes) /\ pending = <<>>)

\* A frame of which a byte is out is written to its end although it may exceed
\* what the transport holds, and a written frame comes out, unless the stream
\* breaks, an end goes away or the receiver cancels its calls for ever.
Arrives ==
  \/ []<><<CancelRecv>>_vars
  \/ \A i \in 1 .. MaxFrames :
       /\ Len(Begun) >= i ~> Written(i) \/ broken \/ ~senderOpen \/ ~receiverOpen
       /\ senderOpen /\ Written(i) ~> i \in ToSet(received) \/ broken \/ ~receiverOpen
=============================================================================
