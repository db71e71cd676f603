-------------------------------- MODULE Rio --------------------------------
(***************************************************************************)
(* One direction of a connection: a peer that writes messages with         *)
(* rio_writen, the kernel's stream of bytes, and a peer that reads them    *)
(* with rio_readlineb.                                                     *)
(*                                                                         *)
(* write and read transfer any part of what they are asked for, and a      *)
(* signal may interrupt either.  The reader is a loop like the one of      *)
(* chat_with_client: it takes the line it is given as a message, and stops *)
(* at one that does not end in a newline (decode throws) or when there is  *)
(* none.                                                                   *)
(***************************************************************************)
EXTENDS Naturals, Sequences

CONSTANTS
    Messages,     \* the lines that are sent
    MaxMessages,  \* bound: how many
    Capacity,     \* of the kernel's stream
    BufSize,      \* sizeof rio_buf
    maxlen,       \* the size of the buffer handed to rio_readlineb
    MaxSignals,   \* bound: how often a signal interrupts a call
    Faults        \* "crash" of the writer, "reset" of the connection

Newline == "newline"

(* A message ends in the only newline it has. *)
ASSUME RioAssumption ==
    /\ Messages \subseteq Seq(STRING)
    /\ \A m \in Messages : \A i \in 1 .. Len(m) : m[i] = Newline <=> i = Len(m)
    /\ << >> \notin Messages
    /\ {MaxMessages, MaxSignals} \subseteq Nat
    /\ {Capacity, BufSize} \subseteq Nat \ {0}
    /\ maxlen \in Nat \ {0, 1}
    /\ Faults \subseteq {"crash", "reset"}

VARIABLES
    sent,      \* the messages handed to rio_writen, in order
    rest,      \* what bufp and nleft say is still to be written of the last one
    end,       \* "open", "closed" by the writer, or "crashed" with it
    stream,    \* the bytes in the kernel
    rio_buf,   \* the rio_cnt bytes from rio_bufptr on
    line,      \* usrbuf: what the current rio_readlineb has got so far
    received,  \* the messages the reader has taken
    reader,    \* "reading", or why it has stopped
    signals

vars == <<sent, rest, end, stream, rio_buf, line, received, reader, signals>>

Smaller(i, j) == IF i < j THEN i ELSE j

First(k, s) == SubSeq(s, 1, k)

Without(k, s) == SubSeq(s, k + 1, Len(s))

(* rio_readinitb, on a new connection. *)
Init ==
    /\ sent = << >>
    /\ rest = << >>
    /\ end = "open"
    /\ stream = << >>
    /\ rio_buf = << >>
    /\ line = << >>
    /\ received = << >>
    /\ reader = "reading"
    /\ signals = 0

-----------------------------------------------------------------------------
(* The writer.                                                               *)

(* rio_writen is called; it returns when rest is empty. *)
Call(m) ==
    /\ end = "open"
    /\ rest = << >>
    /\ Len(sent) < MaxMessages
    /\ sent' = Append(sent, m)
    /\ rest' = m
    /\ UNCHANGED <<end, stream, rio_buf, line, received, reader, signals>>

(* write takes k bytes, waiting until there is room for one. *)
write(k) ==
    /\ rest # << >>
    /\ stream' = stream \o First(k, rest)
    /\ rest' = Without(k, rest)
    /\ UNCHANGED <<sent, end, rio_buf, line, received, reader, signals>>

(* EINTR: nwritten = 0, and once more. *)
write_interrupted ==
    /\ rest # << >>
    /\ signals < MaxSignals
    /\ signals' = signals + 1
    /\ UNCHANGED <<sent, rest, end, stream, rio_buf, line, received, reader>>

Close ==
    /\ end = "open"
    /\ rest = << >>
    /\ end' = "closed"
    /\ UNCHANGED <<sent, rest, stream, rio_buf, line, received, reader, signals>>

(* The writing process ends in the middle of a message.  A write that fails  *)
(* there (rio_writen returns -1, which its callers do not look at) is one as *)
(* well: the connection is broken for every later write too, so its peer     *)
(* sees a beginning of the message and then the end of file or a reset.      *)
Crash ==
    /\ "crash" \in Faults
    /\ rest # << >>
    /\ end' = "crashed"
    /\ rest' = << >>
    /\ UNCHANGED <<sent, stream, rio_buf, line, received, reader, signals>>

-----------------------------------------------------------------------------
(* The reader: rio_readlineb, which gets its bytes one by one from rio_read. *)

(* rio_read refills an empty buffer with k bytes, waiting until there is one.*)
refill(k) ==
    /\ reader = "reading"
    /\ rio_buf = << >>
    /\ stream # << >>
    /\ rio_buf' = First(k, stream)
    /\ stream' = Without(k, stream)
    /\ UNCHANGED <<sent, rest, end, line, received, reader, signals>>

(* EINTR: rio_cnt is -1, so the loop goes round. *)
read_interrupted ==
    /\ reader = "reading"
    /\ rio_buf = << >>
    /\ signals < MaxSignals
    /\ signals' = signals + 1
    /\ UNCHANGED <<sent, rest, end, stream, rio_buf, line, received, reader>>

(* A plausible slip: the end of the stream ends a message as well. *)
take_unterminated(text) ==
    /\ received' = Append(received, text)
    /\ line' = << >>
    /\ UNCHANGED reader

(* rio_readlineb has returned text to the reader's loop. *)
take(text) ==
    \/ /\ text[Len(text)] = Newline
       /\ received' = Append(received, text)
       /\ line' = << >>
       /\ UNCHANGED reader
    \/ /\ text[Len(text)] # Newline
       /\ reader' = "not terminated"
       /\ UNCHANGED <<received, line>>

(* A plausible slip: the terminating 0 is counted twice. *)
line_is_nearly_full(text) == Len(text) + 2 = maxlen

line_is_full(text) == Len(text) + 1 = maxlen

(* One turn of its loop, which ends at a newline or when usrbuf has room for *)
(* the terminating 0 only.                                                   *)
next_byte ==
    /\ reader = "reading"
    /\ rio_buf # << >>
    /\ rio_buf' = Tail(rio_buf)
    /\ LET text == Append(line, Head(rio_buf))
       IN  \/ /\ Head(rio_buf) = Newline \/ line_is_full(text)
              /\ take(text)
           \/ /\ Head(rio_buf) # Newline /\ ~line_is_full(text)
              /\ line' = text
              /\ UNCHANGED <<received, reader>>
    /\ UNCHANGED <<sent, rest, end, stream, signals>>

(* read returns 0.  What rio_readlineb has got so far is returned. *)
end_of_file ==
    /\ reader = "reading"
    /\ end # "open" /\ stream = << >> /\ rio_buf = << >>
    /\ \/ line = << >> /\ reader' = "end of file" /\ UNCHANGED <<received, line>>
       \/ line # << >> /\ take(line)
    /\ UNCHANGED <<sent, rest, end, stream, rio_buf, signals>>

(* read returns -1, and so does rio_readlineb. *)
read_fails ==
    /\ "reset" \in Faults
    /\ reader = "reading"
    /\ rio_buf = << >>
    /\ reader' = "error"
    /\ UNCHANGED <<sent, rest, end, stream, rio_buf, line, received, signals>>

-----------------------------------------------------------------------------
Writing == \E k \in 1 .. Smaller(Len(rest), Capacity - Len(stream)) : write(k)

Reading ==
    \/ \E k \in 1 .. Smaller(Len(stream), BufSize) : refill(k)
    \/ next_byte
    \/ end_of_file

Next ==
    \/ \E m \in Messages : Call(m)
    \/ Writing \/ write_interrupted
    \/ Close \/ Crash
    \/ Reading \/ read_interrupted \/ read_fails

(* The writer may stop sending but not in the middle of a message; both      *)
(* peers are scheduled.                                                      *)
Spec == Init /\ [][Next]_vars /\ WF_vars(Writing) /\ WF_vars(Reading)

-----------------------------------------------------------------------------
(***************************************************************************)
(* Correctness.                                                            *)
(***************************************************************************)

Channel == INSTANCE LineChannel

(* However the bytes are cut up on their way, every line the reader takes    *)
(* for a message is the next one that was sent, whole: no message is split,  *)
(* joined to its neighbour, repeated or made of what a writer that died had  *)
(* got out, and one too long for the buffer is not taken for several.        *)
MessagesArriveWhole == Channel!Spec

Fits(m) == Len(m) < maxlen

(* A message that was sent is received, if it and those before it fit the    *)
(* buffer and neither the writer nor the connection fails: in particular one *)
(* of exactly MAX_ENCODED_LEN characters, and one that was followed by close.*)
MessagesArrive ==
    \A i \in 1 .. MaxMessages :
        (Len(sent) >= i /\ \A j \in 1 .. i : Fits(sent[j]))
            ~> (\/ Len(received) >= i
                \/ reader = "error"
                \/ end = "crashed")
=============================================================================
