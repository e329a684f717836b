-------------------------------- MODULE Framing -------------------------------
(***************************************************************************)
(* How length-prefixed messages are cut out of a byte stream: the loops of *)
(* qemu::QemudMessageProcessor::process_commands and of                    *)
(* rpc::MessageProcessor::process_data, fed with the same reads.           *)
(*                                                                         *)
(* A message is a header of HeaderSize bytes and a body. The socket hands  *)
(* the bytes over in pieces that know nothing of messages. The bytes       *)
(* themselves are abstracted to how many there are: a processor is at the  *)
(* message after the ones it has handled, and its buffer_ holds what has   *)
(* arrived and has not been consumed.                                      *)
(***************************************************************************)
EXTENDS Naturals, Sequences, SequencesExt, FiniteSetsExt

CONSTANTS
  HeaderSize,    \* header_size
  Bodies,        \* the sizes a body can have
  MaxMessages,   \* bound: messages the guest sends
  MaxRead        \* bound: bytes of one read

ASSUME FramingAssumption ==
  /\ HeaderSize \in Nat \ {0} /\ Bodies \subseteq Nat
  /\ MaxMessages \in Nat /\ MaxRead \in Nat \ {0}

VARIABLES
  messages,   \* what the guest has sent: body size, and what it leads to
  arrived,    \* bytes read from the socket
  qemud,      \* commands process_commands has handled
  rpc,        \* messages process_data has handled
  rpc_conn    \* the connection process_data belongs to

vars == <<messages, arrived, qemud, rpc, rpc_conn>>

\* What becomes of the connection at a message. It is read on when the message
\* was handled, and removed when it does not parse and process_data returns
\* false. When dispatch or populate_message_for_result throws, the exception
\* passes on_read_size: the connection is kept and never read again.
Fates == {"read", "removed", "wedged"}

Init ==
  messages = <<>> /\ arrived = 0 /\ qemud = 0 /\ rpc = 0 /\ rpc_conn = "read"

\* Bytes of message k, and of the first k messages.
Total(k) == HeaderSize + messages[k].body
Ends(k) == FoldLeft(LAMBDA sum, msg : sum + HeaderSize + msg.body, 0,
                    SubSeq(messages, 1, k))

\* Mutant: only the header has to be there.
CompleteHeader(k, n) == k < Len(messages) /\ n >= Ends(k) + HeaderSize

\* With n bytes arrived, the message after the first k is in the buffer.
Complete(k, n) == k < Len(messages) /\ n >= Ends(k) + Total(k + 1)

\* Mutant: the command that is not complete is counted too.
QemudEndNext(from, n) ==
  1 + Min({k \in from..Len(messages) :
             ~Complete(k, n) \/ (k > from /\ n - Ends(k) = Total(k))})

\* process_commands, from the command after from: it goes on until no complete
\* command is left, and also when what is left after the erase is exactly as
\* long as the command just erased, since consumed is subtracted once more.
QemudEnd(from, n) ==
  Min({k \in from..Len(messages) :
         ~Complete(k, n) \/ (k > from /\ n - Ends(k) = Total(k))})

\* Mutant: one message per read.
RpcEndOnce(from, n) ==
  IF Complete(from, n) /\ messages[from + 1].fate = "read" THEN from + 1 ELSE from

\* process_data: until no complete message is left or one is not handled,
\* which then stays in the buffer with all that follow.
RpcEnd(from, n) ==
  Min({k \in from..Len(messages) :
         ~Complete(k, n) \/ messages[k + 1].fate # "read"})

\* The guest writes a message.
Write ==
  /\ Len(messages) < MaxMessages
  /\ \E b \in Bodies, f \in Fates :
        messages' = Append(messages, [body |-> b, fate |-> f])
  /\ UNCHANGED <<arrived, qemud, rpc, rpc_conn>>

\* SocketConnection::on_read_size with some of the bytes: process_data of
\* either processor.
Read ==
  /\ \E n \in 1..MaxRead :
        /\ arrived + n <= Ends(Len(messages))
        /\ arrived' = arrived + n
        /\ qemud' = QemudEnd(qemud, arrived + n)
        /\ IF rpc_conn = "read"
           THEN LET k == RpcEnd(rpc, arrived + n) IN
                  /\ rpc' = k
                  /\ rpc_conn' = IF Complete(k, arrived + n)
                                 THEN messages[k + 1].fate ELSE "read"
           ELSE UNCHANGED <<rpc, rpc_conn>>
  /\ UNCHANGED messages

Finished ==
  /\ Len(messages) = MaxMessages /\ arrived = Ends(MaxMessages)
  /\ UNCHANGED vars

Next == Write \/ Read \/ Finished

Spec == Init /\ [][Next]_vars

-------------------------------------------------------------------------------
\* The state has its types.
TypeOK ==
  /\ messages \in Seq([body : Bodies, fate : Fates])
  /\ arrived \in 0..Ends(Len(messages))
  /\ {qemud, rpc} \subseteq 0..Len(messages)
  /\ rpc_conn \in Fates

\* Neither processor hands on a message whose bytes have not all arrived,
\* however the reads cut the stream.
NothingHandledEarly == Ends(qemud) <= arrived /\ Ends(rpc) <= arrived

\* process_data of the RPC leaves no complete message in its buffer as long as
\* the connection is read: what has arrived is dispatched by the read that
\* completed it. On a connection kept after an exception a complete message
\* stays behind, and nothing will take it out.
RpcDrained == rpc_conn = "read" => ~Complete(rpc, arrived)

\* "If not we have to wait until we have everything": process_commands waits
\* only for a command that is not complete.
QemudDrained == ~Complete(qemud, arrived)
===============================================================================
