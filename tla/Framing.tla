------------------------------ MODULE Framing ------------------------------
(***************************************************************************)
(* Message framing of src/network.c.  A message is a header, which carries *)
(* the payload length, followed by the payload.  The sender builds it in a *)
(* buffer that grows by doubling; the stream delivers bytes in pieces of   *)
(* any size.  The receiver is either the completion handler, which cuts    *)
(* messages out of a fixed receive buffer, or net_recv_message, which      *)
(* reads exactly a header and then exactly a payload.                      *)
(***************************************************************************)
EXTENDS Integers, Sequences, SequencesExt

CONSTANTS Sizes,             \* payload lengths
          NET_HEADER_SIZE, InitialCapacity, NET_MAX_MESSAGE_SIZE,
          RecvBuffer,        \* recv_buffer_size
          MaxMessages

ASSUME FramingAssumption ==
  /\ Sizes \subseteq Nat /\ NET_HEADER_SIZE \in Nat \ {0}
  /\ NET_MAX_MESSAGE_SIZE \in Nat /\ InitialCapacity \in NET_HEADER_SIZE .. NET_MAX_MESSAGE_SIZE
  /\ RecvBuffer \in Nat /\ RecvBuffer >= NET_HEADER_SIZE

VARIABLES mode,        \* "async" or "sync"
          sent,        \* payload lengths of the messages put on the stream
          stream,      \* bytes not yet received
          buffer,      \* received bytes not yet consumed
          delivered,   \* payload lengths handed to on_message or returned
          status       \* "open", or why the receiver has stopped

fvars == <<mode, sent, stream, buffer, delivered, status>>

\* A byte is the position within a message and the message's payload length:
\* what parsing a header returns when the position is 1.
Bytes(n) == [i \in 1 .. NET_HEADER_SIZE + n |-> [pos |-> i, len |-> n]]

framing_init == /\ mode \in {"async", "sync"} /\ sent = <<>> /\ stream = <<>> /\ buffer = <<>>
                /\ delivered = <<>> /\ status = "open"

\* net_msg_builder_append: the capacity doubles while the data does not fit;
\* a doubling beyond the maximum is refused.
Capacities == {InitialCapacity} \cup
  {c \in 1 .. NET_MAX_MESSAGE_SIZE : \E k \in 1 .. c : c = InitialCapacity * 2 ^ k}
net_msg_builder_append(n) == \E c \in Capacities : NET_HEADER_SIZE + n <= c

net_send_message(n) ==
  /\ Len(sent) < MaxMessages /\ net_msg_builder_append(n)
  /\ sent' = Append(sent, n) /\ stream' = stream \o Bytes(n)
  /\ UNCHANGED <<mode, buffer, delivered, status>>

Piece(k) == SubSeq(stream, 1, k)
Later(k) == SubSeq(stream, k + 1, Len(stream))

\* net_msg_parse_header: the magic is where a header starts.
Parses(b) == b[1].pos = 1

(* Mutant: what is left in the buffer is dropped with the first message. *)
ConsumeAll(b) ==
  IF Len(b) < NET_HEADER_SIZE \/ Len(b) < NET_HEADER_SIZE + b[1].len
  THEN [rest |-> b, out |-> <<>>, bad |-> FALSE]
  ELSE [rest |-> <<>>, out |-> <<b[1].len>>, bad |-> FALSE]

\* The loop of handle_read_completion: every complete message is handed over
\* and the rest is moved to the front.
Consume(b) ==
  LET step[k \in 0 .. Len(b)] ==
        IF k = 0 THEN [rest |-> b, out |-> <<>>, bad |-> FALSE]
        ELSE LET s == step[k - 1]
             IN  IF s.bad \/ Len(s.rest) < NET_HEADER_SIZE THEN s
                 ELSE IF ~ Parses(s.rest) THEN [s EXCEPT !.bad = TRUE]
                 ELSE IF Len(s.rest) < NET_HEADER_SIZE + s.rest[1].len THEN s
                 ELSE [s EXCEPT !.rest = SubSeq(s.rest, NET_HEADER_SIZE + s.rest[1].len + 1, Len(s.rest)),
                                !.out = Append(s.out, s.rest[1].len)]
  IN  step[Len(b)]

\* A read of k bytes completes; a read into a full buffer is one of 0 bytes,
\* which counts as a closed connection.
handle_read_completion(k) ==
  /\ mode = "async" /\ status = "open"
  /\ k <= RecvBuffer - Len(buffer)
  /\ IF k = 0 THEN /\ Len(buffer) = RecvBuffer
                   /\ status' = "disconnected" /\ UNCHANGED <<buffer, delivered>>
     ELSE LET c == Consume(buffer \o Piece(k))
          IN  /\ buffer' = c.rest
              /\ delivered' = delivered \o c.out
              /\ status' = IF c.bad THEN "error" ELSE "open"
  /\ stream' = Later(k)
  /\ UNCHANGED <<mode, sent>>

Wanted == IF Len(buffer) < NET_HEADER_SIZE THEN NET_HEADER_SIZE ELSE NET_HEADER_SIZE + buffer[1].len
net_msg_validate_header == buffer[1].len <= NET_MAX_MESSAGE_SIZE - NET_HEADER_SIZE

\* recv_exact asks for what is missing of the header, then of the payload.
recv_exact(k) ==
  /\ mode = "sync" /\ status = "open" /\ k > 0
  /\ k <= Wanted - Len(buffer)
  /\ buffer' = buffer \o Piece(k) /\ stream' = Later(k)
  /\ UNCHANGED <<mode, sent, delivered, status>>
net_recv_message ==
  /\ mode = "sync" /\ status = "open" /\ Len(buffer) >= NET_HEADER_SIZE
  /\ IF ~ Parses(buffer) \/ ~ net_msg_validate_header
     THEN status' = "error" /\ UNCHANGED <<buffer, delivered>>
     ELSE /\ Len(buffer) = NET_HEADER_SIZE + buffer[1].len
          /\ delivered' = Append(delivered, buffer[1].len) /\ buffer' = <<>>
          /\ UNCHANGED status
  /\ UNCHANGED <<mode, sent, stream>>
\* A timeout inside a message: the caller gives the connection up.
RecvTimeout == /\ mode = "sync" /\ status = "open"
               /\ status' = "timeout" /\ UNCHANGED <<mode, sent, stream, buffer, delivered>>

Receive == \/ \E k \in 0 .. Len(stream) : handle_read_completion(k) \/ recv_exact(k)
           \/ net_recv_message
FramingNext == (\E n \in Sizes : net_send_message(n)) \/ Receive \/ RecvTimeout

-----------------------------------------------------------------------------

(* handle_read_completion and net_recv_message: however the stream is cut
   into pieces, the messages are handed over whole, in order, once each; the
   receiver never takes payload bytes for a header; and it stops without a
   timeout only when a message is larger than the receive buffer. *)
MessagesInOrder ==
  /\ IsPrefix(delivered, sent)
  /\ status # "error"
  /\ status = "disconnected" => NET_HEADER_SIZE + sent[Len(delivered) + 1] > RecvBuffer
  /\ status = "open" /\ stream = <<>> /\ buffer = <<>> => delivered = sent
=============================================================================
