----------------------------- MODULE RioProofs -----------------------------
(***************************************************************************)
(* Rio implements LineChannel: for every set of messages, size of the      *)
(* buffers and way of cutting the stream up, the lines the reader takes    *)
(* are the messages that were sent, one by one and whole.                  *)
(***************************************************************************)
EXTENDS Rio, SequenceTheorems, TLAPS

Bytes == Seq(STRING)

(* The bytes that are on their way, first to arrive first. *)
Pending == ((line \o rio_buf) \o stream) \o rest

TypeInv ==
    /\ sent \in Seq(Messages)
    /\ received \in Seq(Bytes)
    /\ line \in Bytes
    /\ rio_buf \in Bytes
    /\ stream \in Bytes
    /\ rest \in Bytes

(* cut[i] is where, in the stream of all bytes, message i ends. *)
Cut(cut) ==
    /\ cut \in [0 .. Len(sent) -> Nat]
    /\ \A i \in 1 .. Len(sent) : cut[i] = cut[i - 1] + Len(sent[i])
    /\ \A i \in 0 .. Len(sent) : cut[i] <= cut[Len(sent)]

(* The bytes on their way are those of the messages after the n-th, as far   *)
(* as the writer has got with them or still will.                            *)
Carried(cut, bytes, n) ==
    /\ n <= Len(sent)
    /\ cut[n] + Len(bytes) <= cut[Len(sent)]
    /\ end = "open" => cut[n] + Len(bytes) = cut[Len(sent)]
    /\ \A i \in 1 .. Len(sent), j, k \in Nat \ {0} :
          j <= Len(sent[i]) /\ k <= Len(bytes) /\ cut[n] + k = cut[i - 1] + j
             => bytes[k] = sent[i][j]

(* What the reader has of the next message does not end it. *)
Unfinished == \A i \in 1 .. Len(line) : line[i] # Newline

ChannelInv ==
    /\ TypeInv
    /\ reader = "reading"
          => /\ Unfinished
             /\ \E cut : Cut(cut) /\ Carried(cut, Pending, Len(received))

-----------------------------------------------------------------------------
(* Cutting a sequence up and joining the parts. *)
LEMMA Split ==
    ASSUME NEW s \in Bytes, NEW k \in 0 .. Len(s)
    PROVE  /\ First(k, s) \in Bytes /\ Without(k, s) \in Bytes
           /\ First(k, s) \o Without(k, s) = s
    <1>1. Len(s) \in Nat /\ \A i \in 1 .. Len(s) : s[i] \in STRING
        BY LenProperties, ElementOfSeq DEF Bytes
    <1>2. First(k, s) \in Bytes
        BY <1>1, SubSeqProperties DEF First, Bytes
    <1>3. Without(k, s) \in Bytes
        BY <1>1, SubSeqProperties DEF Without, Bytes
    <1>4. First(k, s) \o Without(k, s) = SubSeq(s, 1, Len(s))
        <2>1. s \in Seq(STRING) /\ 1 \in 1 .. Len(s) + 1 /\ k \in 1 - 1 .. Len(s)
                /\ Len(s) \in k .. Len(s)
            BY <1>1 DEF Bytes
        <2>2. SubSeq(s, 1, k) \o SubSeq(s, k + 1, Len(s)) = SubSeq(s, 1, Len(s))
            BY <2>1, ConcatAdjacentSubSeq
        <2> QED
            BY <2>2 DEF First, Without
    <1>5. SubSeq(s, 1, Len(s)) = s
        BY SubSeqFull DEF Bytes
    <1> QED
        BY <1>2, <1>3, <1>4, <1>5

LEMMA Joined ==
    ASSUME NEW s \in Bytes, NEW t \in Bytes
    PROVE  s \o t \in Bytes
    BY ConcatProperties DEF Bytes

LEMMA Regroup ==
    ASSUME NEW s \in Bytes, NEW t \in Bytes, NEW u \in Bytes
    PROVE  (s \o t) \o u = s \o (t \o u)
    BY ConcatAssociative DEF Bytes

(* Part of what follows, added to what comes before. *)
LEMMA MovePart ==
    ASSUME NEW s \in Bytes, NEW t \in Bytes, NEW k \in 0 .. Len(t)
    PROVE  (s \o First(k, t)) \o Without(k, t) = s \o t
    <1>1. PICK a \in Bytes : a = First(k, t)
        BY Split
    <1>2. PICK b \in Bytes : b = Without(k, t)
        BY Split
    <1>3. a \o b = t
        BY <1>1, <1>2, Split
    <1>4. (s \o a) \o b = s \o (a \o b)
        BY Regroup
    <1> QED
        BY <1>1, <1>2, <1>3, <1>4

(* The first byte of the buffer, added to the line. *)
LEMMA MoveByte ==
    ASSUME NEW s \in Bytes, NEW t \in Bytes, t # << >>
    PROVE  /\ Head(t) \in STRING /\ Tail(t) \in Bytes /\ Append(s, Head(t)) \in Bytes
           /\ Append(s, Head(t)) \o Tail(t) = s \o t
    <1>1. Head(t) \in STRING /\ Tail(t) \in Bytes
        BY HeadTailProperties DEF Bytes
    <1>2. Append(s, Head(t)) \in Bytes /\ Append(s, Head(t)) = s \o <<Head(t)>>
        BY <1>1, AppendProperties, AppendIsConcat DEF Bytes
    <1>3. <<Head(t)>> \in Bytes
        BY <1>1 DEF Bytes
    <1>4. <<Head(t)>> \o Tail(t) = t
        <2>1. Len(t) \in Nat \ {0} /\ Len(Tail(t)) = Len(t) - 1
                /\ \A i \in 1 .. Len(Tail(t)) : Tail(t)[i] = t[i + 1]
            BY EmptySeq, HeadTailProperties DEF Bytes
        <2>2. Len(<<Head(t)>>) = 1 /\ <<Head(t)>>[1] = t[1]
            BY DEF Bytes
        <2>3. /\ <<Head(t)>> \o Tail(t) \in Bytes
              /\ Len(<<Head(t)>> \o Tail(t)) = 1 + Len(Tail(t))
              /\ \A i \in 1 .. 1 + Len(Tail(t)) : (<<Head(t)>> \o Tail(t))[i] =
                     IF i <= 1 THEN <<Head(t)>>[i] ELSE Tail(t)[i - 1]
            BY <1>1, <1>3, <2>2, ConcatProperties DEF Bytes
        <2>4. \A i \in 1 .. Len(t) : (<<Head(t)>> \o Tail(t))[i] = t[i]
            BY <2>1, <2>2, <2>3
        <2> QED
            BY <2>1, <2>3, <2>4, SeqEqual DEF Bytes
    <1>5. PICK h \in Bytes : h = <<Head(t)>>
        BY <1>3
    <1>6. PICK u \in Bytes : u = Tail(t)
        BY <1>1
    <1>7. (s \o h) \o u = s \o (h \o u)
        BY Regroup
    <1> QED
        BY <1>1, <1>2, <1>4, <1>5, <1>6, <1>7

(* A message is not empty, and only its last byte is a newline. *)
LEMMA MessageShape ==
    ASSUME NEW m \in Messages
    PROVE  /\ m \in Bytes /\ Len(m) \in Nat \ {0}
           /\ \A i \in 1 .. Len(m) : m[i] = Newline <=> i = Len(m)
    BY RioAssumption, EmptySeq DEF Bytes

-----------------------------------------------------------------------------
(* Steps that move bytes on.                                                 *)

LEMMA WriteMoves ==
    ASSUME TypeInv, NEW k \in 0 .. Len(rest), write(k)
    PROVE  TypeInv' /\ Pending' = Pending
    <1>1. First(k, rest) \in Bytes /\ Without(k, rest) \in Bytes
            /\ First(k, rest) \o Without(k, rest) = rest
        BY Split DEF TypeInv
    <1>2. TypeInv'
        BY <1>1, Joined DEF TypeInv, write
    <1>3. PICK s \in Bytes : s = line \o rio_buf
        BY Joined DEF TypeInv
    <1>4. s \o (stream \o First(k, rest)) = (s \o stream) \o First(k, rest)
        <2>1. s \in Bytes /\ stream \in Bytes /\ First(k, rest) \in Bytes
            BY <1>1 DEF TypeInv
        <2> QED
            BY <2>1, Regroup, Zenon
    <1>5. PICK u \in Bytes : u = s \o stream
        BY <1>3, Joined DEF TypeInv
    <1>6. (u \o First(k, rest)) \o Without(k, rest) = u \o rest
        BY MovePart DEF TypeInv
    <1>7. Pending' = (s \o (stream \o First(k, rest))) \o Without(k, rest)
        BY <1>3 DEF Pending, write
    <1>8. Pending = u \o rest
        BY <1>3, <1>5 DEF Pending
    <1> QED
        BY <1>2, <1>4, <1>5, <1>6, <1>7, <1>8

LEMMA RefillMoves ==
    ASSUME TypeInv, NEW k \in 0 .. Len(stream), refill(k)
    PROVE  TypeInv' /\ Pending' = Pending
    <1>1. First(k, stream) \in Bytes /\ Without(k, stream) \in Bytes
            /\ First(k, stream) \o Without(k, stream) = stream
        BY Split DEF TypeInv
    <1>2. TypeInv'
        BY <1>1 DEF TypeInv, refill
    <1>3. (line \o First(k, stream)) \o Without(k, stream) = line \o stream
        BY MovePart DEF TypeInv
    <1>4. line \o rio_buf = line
        BY ConcatEmptySeq DEF TypeInv, Bytes, refill
    <1> QED
        BY <1>2, <1>3, <1>4 DEF Pending, refill

LEMMA ByteMoves ==
    ASSUME TypeInv, rio_buf # << >>
    PROVE  /\ Tail(rio_buf) \in Bytes /\ Append(line, Head(rio_buf)) \in Bytes
           /\ ((Append(line, Head(rio_buf)) \o Tail(rio_buf)) \o stream) \o rest = Pending
    BY MoveByte DEF TypeInv, Pending

(* What carries the bytes on their way carries what is left of them. *)
LEMMA PrefixIsCarried ==
    ASSUME NEW cut, Cut(cut), NEW s \in Bytes, NEW t \in Bytes, NEW n \in Nat,
           Carried(cut, s \o t, n), UNCHANGED sent, end' # "open"
    PROVE  Carried(cut, s, n)'
    <1>1. Len(s) \in Nat /\ Len(t) \in Nat /\ Len(s \o t) = Len(s) + Len(t)
            /\ \A k \in 1 .. Len(s) + Len(t) :
                  (s \o t)[k] = IF k <= Len(s) THEN s[k] ELSE t[k - Len(s)]
        BY ConcatProperties, LenProperties DEF Bytes
    <1>2. n \in 0 .. Len(sent) /\ Len(sent) \in 0 .. Len(sent)
        BY DEF Carried
    <1>3. cut[n] \in Nat /\ cut[Len(sent)] \in Nat
        BY <1>2 DEF Cut
    <1>4. ASSUME NEW i \in 1 .. Len(sent), NEW j \in Nat \ {0}, NEW k \in Nat \ {0},
                 j <= Len(sent[i]), k <= Len(s), cut[n] + k = cut[i - 1] + j
          PROVE  s[k] = sent[i][j]
        <2>1. k <= Len(s \o t) /\ (s \o t)[k] = s[k]
            BY <1>1, <1>4
        <2> QED
            BY <1>4, <2>1 DEF Carried
    <1> QED
        BY <1>1, <1>2, <1>3, <1>4 DEF Carried

(* A message is handed to rio_writen. *)
LEMMA CallCarries ==
    ASSUME TypeInv, NEW m \in Messages, Call(m), NEW n \in Nat,
           NEW cut, Cut(cut), Carried(cut, Pending, n)
    PROVE  \E new : (Cut(new) /\ Carried(new, Pending, n))'
    <1>1. PICK N \in Nat : N = Len(sent)
        BY LenProperties DEF TypeInv
    <1>2. /\ Len(sent') = N + 1 /\ sent'[N + 1] = m
          /\ \A i \in 1 .. N : sent'[i] = sent[i]
        BY <1>1, AppendProperties DEF TypeInv, Call
    <1>3. PICK L \in Nat \ {0} : L = Len(m)
        BY MessageShape
    <1>4. PICK new : new = [i \in 0 .. N + 1 |-> IF i = N + 1 THEN cut[N] + L ELSE cut[i]]
        OBVIOUS
    <1>5. /\ cut \in [0 .. N -> Nat]
          /\ \A i \in 1 .. N : cut[i] = cut[i - 1] + Len(sent[i])
          /\ \A i \in 0 .. N : cut[i] <= cut[N]
        BY <1>1 DEF Cut
    <1>6. /\ new \in [0 .. N + 1 -> Nat] /\ new[N + 1] = cut[N] + L
          /\ \A i \in 0 .. N : new[i] = cut[i]
        BY <1>3, <1>4, <1>5
    <1>7. Cut(new)'
        <2>1. ASSUME NEW i \in 1 .. N + 1
              PROVE  new[i] = new[i - 1] + Len(sent'[i])
            <3>1. CASE i = N + 1
                BY <1>2, <1>3, <1>6, <3>1
            <3>2. CASE i \in 1 .. N
                <4>1. /\ new[i] = cut[i] /\ new[i - 1] = cut[i - 1] /\ sent'[i] = sent[i]
                    BY <1>2, <1>6, <3>2
                <4> QED
                    BY <1>5, <3>2, <4>1
            <3> QED
                BY <3>1, <3>2
        <2>2. ASSUME NEW i \in 0 .. N + 1
              PROVE  new[i] <= new[N + 1]
            <3>1. CASE i = N + 1
                BY <1>6, <3>1
            <3>2. CASE i \in 0 .. N
                <4>1. cut[i] \in Nat /\ cut[N] \in Nat
                    BY <1>5, <3>2
                <4> QED
                    BY <1>3, <1>5, <1>6, <3>2, <4>1
            <3> QED
                BY <3>1, <3>2
        <2> QED
            BY <1>2, <1>6, <2>1, <2>2 DEF Cut
    <1>8. PICK s \in Bytes : s = Pending
        BY Joined DEF TypeInv, Pending
    <1>9. PICK S \in Nat : S = Len(s)
        BY LenProperties DEF Bytes
    <1>10. Pending' = s \o m
        <2>1. Pending = (line \o rio_buf) \o stream
            BY ConcatEmptySeq, Joined DEF TypeInv, Pending, Call, Bytes
        <2> QED
            BY <1>8, <2>1 DEF Pending, Call
    <1>11. PICK t : t = s \o m
        OBVIOUS
    <1>12. /\ Len(t) = S + L
           /\ \A k \in 1 .. S + L : t[k] = IF k <= S THEN s[k] ELSE m[k - S]
        BY <1>3, <1>9, <1>11, MessageShape, ConcatProperties DEF Bytes
    <1>13. n \in 0 .. N /\ cut[n] + S = cut[N]
        BY <1>1, <1>8, <1>9 DEF Carried, Call
    <1>14. \A i \in 1 .. N, j, k \in Nat \ {0} :
               j <= Len(sent[i]) /\ k <= S /\ cut[n] + k = cut[i - 1] + j => s[k] = sent[i][j]
        BY <1>1, <1>8, <1>9 DEF Carried
    <1>15. ASSUME NEW i \in 1 .. N + 1, NEW j \in Nat \ {0}, NEW k \in Nat \ {0},
                  j <= Len(sent'[i]), k <= Len(t), new[n] + k = new[i - 1] + j
           PROVE  t[k] = sent'[i][j]
        <2>1. i - 1 \in 0 .. N /\ k \in 1 .. S + L
            BY <1>3, <1>9, <1>12, <1>15
        <2>2. PICK a \in Nat : a = cut[i - 1]
            BY <1>5, <2>1
        <2>3. PICK b \in Nat : b = cut[n]
            BY <1>5, <1>13
        <2>4. b + k = a + j
            BY <1>6, <1>13, <1>15, <2>1, <2>2, <2>3
        <2>5. CASE i = N + 1
            <3>1. a = b + S
                BY <1>13, <2>2, <2>3, <2>5
            <3>2. k = S + j
                BY <2>4, <3>1
            <3> QED
                BY <1>2, <1>12, <1>15, <2>1, <2>5, <3>2
        <2>6. CASE i \in 1 .. N
            <3>1. cut[i] = a + Len(sent[i]) /\ cut[i] <= b + S
                BY <1>5, <1>13, <2>2, <2>3, <2>6
            <3>2. Len(sent[i]) \in Nat /\ sent'[i] = sent[i]
                BY <1>1, <1>2, <2>6, MessageShape, ElementOfSeq DEF TypeInv
            <3>3. k <= S
                BY <1>15, <2>4, <3>1, <3>2
            <3>4. s[k] = sent[i][j]
                BY <1>14, <1>15, <2>2, <2>3, <2>4, <2>6, <3>2, <3>3
            <3> QED
                BY <1>12, <2>1, <3>2, <3>3, <3>4
        <2> QED
            BY <2>5, <2>6
    <1>16. new[n] + (S + L) = new[N + 1]
        <2>1. cut[n] \in Nat /\ cut[N] \in Nat
            BY <1>5, <1>13
        <2> QED
            BY <1>6, <1>13, <2>1
    <1>17. Carried(new, t, n)'
        <2>1. n <= N + 1 /\ new[n] + Len(t) = new[N + 1] /\ new[N + 1] \in Nat
            BY <1>6, <1>12, <1>13, <1>16
        <2>2. \A i \in 1 .. N + 1, j, k \in Nat \ {0} :
                 j <= Len(sent'[i]) /\ k <= Len(t) /\ new[n] + k = new[i - 1] + j
                    => t[k] = sent'[i][j]
            BY <1>15
        <2> QED
            BY <1>2, <2>1, <2>2 DEF Carried
    <1> QED
        BY <1>7, <1>10, <1>11, <1>17

(* Bytes up to the first newline are the next message, and what follows them *)
(* is carried by the messages after it.                                      *)
LEMMA LineIsMessage ==
    ASSUME TypeInv, NEW n \in Nat, NEW cut, Cut(cut), NEW text \in Bytes, NEW u \in Bytes,
           Carried(cut, text \o u, n), text # << >>,
           \A i \in 1 .. Len(text) : text[i] = Newline <=> i = Len(text)
    PROVE  /\ n < Len(sent) /\ text = sent[n + 1]
           /\ Carried(cut, u, n + 1)
    <1>1. PICK L \in Nat \ {0} : L = Len(text)
        BY EmptySeq DEF Bytes
    <1>2. PICK U \in Nat : U = Len(u)
        BY LenProperties DEF Bytes
    <1>3. PICK N \in Nat : N = Len(sent)
        BY LenProperties DEF TypeInv
    <1>4. PICK t : t = text \o u
        OBVIOUS
    <1>5. /\ Len(t) = L + U
          /\ \A k \in 1 .. L + U : t[k] = IF k <= L THEN text[k] ELSE u[k - L]
        BY <1>1, <1>2, <1>4, ConcatProperties DEF Bytes
    <1>6. /\ cut \in [0 .. N -> Nat]
          /\ \A i \in 1 .. N : cut[i] = cut[i - 1] + Len(sent[i])
        BY <1>3 DEF Cut
    <1>7. /\ n \in 0 .. N /\ cut[n] + (L + U) <= cut[N]
          /\ end = "open" => cut[n] + (L + U) = cut[N]
          /\ \A i \in 1 .. N, j, k \in Nat \ {0} :
                j <= Len(sent[i]) /\ k <= L + U /\ cut[n] + k = cut[i - 1] + j
                   => t[k] = sent[i][j]
        BY <1>3, <1>4, <1>5 DEF Carried
    <1>8. PICK b \in Nat : b = cut[n]
        BY <1>6, <1>7
    <1>9. n + 1 \in 1 .. N
        BY <1>1, <1>2, <1>7, <1>8
    <1>10. PICK m \in Messages : m = sent[n + 1]
        BY <1>3, <1>9, ElementOfSeq DEF TypeInv
    <1>11. PICK M \in Nat \ {0} : M = Len(m)
        BY MessageShape
    <1>12. m \in Bytes /\ \A i \in 1 .. M : m[i] = Newline <=> i = M
        BY <1>11, MessageShape
    <1>13. \A k \in 1 .. L + U : k <= M => t[k] = m[k]
        <2>1. (n + 1) - 1 = n
            BY <1>9
        <2> QED
            BY <1>7, <1>9, <1>10, <1>11, <2>1
    <1>14. L = M
        <2>1. CASE L < M
            <3>1. t[L] = text[L] /\ t[L] = m[L] /\ L \in 1 .. M
                BY <1>1, <1>5, <1>13, <2>1
            <3>2. text[L] = Newline
                BY <1>1
            <3>3. m[L] # Newline
                BY <1>12, <2>1, <3>1
            <3> QED
                BY <3>1, <3>2, <3>3
        <2>2. CASE M < L
            <3>1. t[M] = text[M] /\ t[M] = m[M] /\ M \in 1 .. L
                BY <1>5, <1>11, <1>13, <2>2
            <3>2. text[M] # Newline
                <4>1. M \in 1 .. Len(text) /\ M # Len(text)
                    BY <1>1, <2>2, <3>1
                <4> QED
                    BY <4>1
            <3>3. m[M] = Newline
                BY <1>11, <1>12
            <3> QED
                BY <3>1, <3>2, <3>3
        <2> QED
            BY <2>1, <2>2
    <1>15. text = m
        <2>1. \A i \in 1 .. L : text[i] = m[i]
            BY <1>5, <1>13, <1>14
        <2> QED
            BY <1>1, <1>11, <1>12, <1>14, <2>1, SeqEqual DEF Bytes
    <1>16. cut[n + 1] = b + L
        <2>1. cut[n + 1] = cut[(n + 1) - 1] + Len(sent[n + 1])
            BY <1>6, <1>9
        <2> QED
            BY <1>8, <1>10, <1>11, <1>14, <2>1
    <1>17. ASSUME NEW i \in 1 .. N, NEW j \in Nat \ {0}, NEW k \in Nat \ {0},
                  j <= Len(sent[i]), k <= U, cut[n + 1] + k = cut[i - 1] + j
           PROVE  u[k] = sent[i][j]
        <2>1. PICK a \in Nat : a = cut[i - 1]
            BY <1>6
        <2>2. b + (L + k) = a + j
            BY <1>16, <1>17, <2>1
        <2>3. t[L + k] = sent[i][j]
            <3>1. /\ L + k \in Nat \ {0} /\ L + k <= L + U
                  /\ cut[n] + (L + k) = cut[i - 1] + j
                BY <1>8, <1>17, <2>1, <2>2
            <3> QED
                BY <1>7, <1>17, <3>1
        <2>4. t[L + k] = u[k]
            BY <1>5, <1>17
        <2> QED
            BY <2>3, <2>4
    <1>18. /\ cut[n + 1] + U <= cut[N]
           /\ end = "open" => cut[n + 1] + U = cut[N]
        <2>1. PICK z \in Nat : z = cut[N]
            BY <1>6
        <2> QED
            BY <1>7, <1>8, <1>16, <2>1
    <1>19. Carried(cut, u, n + 1)
        BY <1>2, <1>3, <1>9, <1>17, <1>18 DEF Carried
    <1> QED
        BY <1>3, <1>9, <1>10, <1>15, <1>19

(* A byte is taken from the buffer.                                          *)
LEMMA ByteStep ==
    ASSUME ChannelInv, next_byte
    PROVE  /\ ChannelInv'
           /\ UNCHANGED sent
           /\ received' = received \/ Channel!Receive
    <1>1. PICK n \in Nat : n = Len(received)
        BY LenProperties DEF ChannelInv, TypeInv
    <1>2. PICK cut : Cut(cut) /\ Carried(cut, Pending, n)
        BY <1>1 DEF ChannelInv, next_byte
    <1>3. TypeInv /\ Unfinished /\ rio_buf # << >> /\ UNCHANGED <<sent, rest, end, stream>>
        BY DEF ChannelInv, next_byte
    <1>4. PICK b : b = Head(rio_buf)
        OBVIOUS
    <1>5. PICK text \in Bytes : text = Append(line, b)
        BY <1>3, <1>4, ByteMoves
    <1>6. /\ Len(text) = Len(line) + 1 /\ Len(line) \in Nat /\ text[Len(line) + 1] = b
          /\ \A i \in 1 .. Len(line) : text[i] = line[i]
        BY <1>3, <1>4, <1>5, MoveByte, AppendProperties, LenProperties DEF TypeInv, Bytes
    <1>7. rio_buf' = Tail(rio_buf) /\ Tail(rio_buf) \in Bytes
        BY <1>3, ByteMoves DEF next_byte
    <1>8. Pending = ((text \o Tail(rio_buf)) \o stream) \o rest
        BY <1>3, <1>4, <1>5, ByteMoves
    <1>9. CASE b = Newline
        <2>1. /\ received' = Append(received, text) /\ line' = << >> /\ UNCHANGED reader
            BY <1>4, <1>5, <1>6, <1>9 DEF next_byte, take
        <2>2. PICK u \in Bytes : u = (Tail(rio_buf) \o stream) \o rest
            BY <1>3, <1>7, Joined DEF TypeInv
        <2>3. Pending = text \o u
            <3>1. PICK x \in Bytes : x = Tail(rio_buf)
                BY <1>7
            <3>2. (text \o x) \o stream = text \o (x \o stream) /\ x \o stream \in Bytes
                <4>1. stream \in Bytes
                    BY <1>3 DEF TypeInv
                <4>2. (text \o x) \o stream = text \o (x \o stream)
                    BY <4>1, Regroup, Zenon
                <4>3. x \o stream \in Bytes
                    BY <4>1, Joined, Zenon
                <4> QED
                    BY <4>2, <4>3
            <3>3. (text \o (x \o stream)) \o rest = text \o ((x \o stream) \o rest)
                <4>1. text \in Bytes /\ x \o stream \in Bytes /\ rest \in Bytes
                    BY <1>3, <3>2 DEF TypeInv
                <4> QED
                    BY <4>1, Regroup, Zenon
            <3> QED
                BY <1>8, <2>2, <3>1, <3>2, <3>3
        <2>4. Pending' = u
            <3>1. << >> \o Tail(rio_buf) = Tail(rio_buf)
                BY <1>7, ConcatEmptySeq DEF Bytes
            <3>2. Pending' = ((<< >> \o Tail(rio_buf)) \o stream) \o rest
                BY <1>3, <1>7, <2>1 DEF Pending
            <3>3. Pending' = (Tail(rio_buf) \o stream) \o rest
                BY <3>1, <3>2
            <3> QED
                BY <2>2, <3>3
        <2>5. text # << >> /\ \A i \in 1 .. Len(text) : text[i] = Newline <=> i = Len(text)
            BY <1>3, <1>6, <1>9, EmptySeq DEF Unfinished, Bytes
        <2>6. /\ n < Len(sent) /\ text = sent[n + 1]
              /\ Carried(cut, u, n + 1)
            BY <1>2, <1>3, <2>3, <2>5, LineIsMessage
        <2>7. received' \in Seq(Bytes) /\ Len(received') = n + 1
            BY <1>1, <1>3, <2>1, AppendProperties DEF TypeInv
        <2>8. TypeInv'
            BY <1>3, <1>7, <2>1, <2>7, EmptySeq DEF TypeInv, Bytes
        <2>9. Unfinished'
            BY <2>1, EmptySeq DEF Unfinished
        <2>10. (Cut(cut) /\ Carried(cut, Pending, Len(received)))'
            BY <1>2, <1>3, <2>4, <2>6, <2>7 DEF Cut, Carried
        <2>11. Channel!Receive
            BY <1>1, <1>3, <2>1, <2>6 DEF Channel!Receive
        <2> QED
            BY <1>3, <2>8, <2>9, <2>10, <2>11 DEF ChannelInv
    <1>10. CASE b # Newline
        <2>1. CASE line_is_full(text)
            <3>1. reader' = "not terminated" /\ UNCHANGED <<received, line>>
                BY <1>4, <1>5, <1>6, <1>10, <2>1 DEF next_byte, take
            <3> QED
                BY <1>3, <1>7, <3>1 DEF ChannelInv, TypeInv
        <2>2. CASE ~line_is_full(text)
            <3>1. line' = text /\ UNCHANGED <<received, reader>>
                BY <1>4, <1>5, <1>10, <2>2 DEF next_byte
            <3>2. TypeInv' /\ Unfinished'
                BY <1>3, <1>6, <1>7, <1>10, <3>1 DEF TypeInv, Unfinished
            <3>3. Pending' = Pending
                BY <1>3, <1>7, <1>8, <3>1 DEF Pending
            <3>4. (Cut(cut) /\ Carried(cut, Pending, Len(received)))'
                BY <1>1, <1>2, <1>3, <3>1, <3>3 DEF Cut, Carried
            <3> QED
                BY <1>3, <3>1, <3>2, <3>4 DEF ChannelInv
        <2> QED
            BY <2>1, <2>2
    <1> QED
        BY <1>9, <1>10

-----------------------------------------------------------------------------
LEMMA ChannelInvInit == Init => ChannelInv /\ Channel!Init
    <1> SUFFICES ASSUME Init PROVE ChannelInv /\ Channel!Init
        OBVIOUS
    <1>1. TypeInv
        BY EmptySeq DEF Init, TypeInv, Bytes
    <1>2. Pending = << >>
        BY EmptySeq, ConcatEmptySeq DEF Init, Pending, Bytes
    <1>3. Len(sent) = 0 /\ Len(received) = 0 /\ Len(line) = 0 /\ Len(Pending) = 0
        BY <1>2, EmptySeq DEF Init
    <1>4. PICK cut : cut = [i \in 0 .. 0 |-> 0]
        OBVIOUS
    <1>5. cut \in [0 .. 0 -> Nat] /\ cut[0] = 0
        BY <1>4
    <1>6. Cut(cut) /\ Carried(cut, Pending, Len(received))
        BY <1>3, <1>5 DEF Cut, Carried
    <1> QED
        BY <1>1, <1>3, <1>6 DEF ChannelInv, Unfinished, Init, Channel!Init

(* Bytes move on, or a call is interrupted, and neither end notices.         *)
LEMMA Unnoticed ==
    ASSUME ChannelInv, TypeInv', Pending' = Pending,
           UNCHANGED <<sent, received, line, reader>>, end' = "open" => end = "open"
    PROVE  ChannelInv'
    <1>1. CASE reader = "reading"
        <2>1. PICK cut : Cut(cut) /\ Carried(cut, Pending, Len(received))
            BY <1>1 DEF ChannelInv
        <2>2. (Cut(cut) /\ Carried(cut, Pending, Len(received)))'
            BY <2>1 DEF Cut, Carried
        <2> QED
            BY <1>1, <2>2 DEF ChannelInv, Unfinished
    <1>2. CASE reader # "reading"
        BY <1>2 DEF ChannelInv
    <1> QED
        BY <1>1, <1>2

(* The reader stops. *)
LEMMA Stopped ==
    ASSUME ChannelInv, reader' # "reading",
           UNCHANGED <<sent, received, line, rio_buf, stream, rest>>
    PROVE  ChannelInv'
    BY DEF ChannelInv, TypeInv

LEMMA ChannelStep ==
    ASSUME ChannelInv, [Next]_vars
    PROVE  ChannelInv' /\ [Channel!Send \/ Channel!Receive]_<<sent, received>>
    <1>1. TypeInv
        BY DEF ChannelInv
    <1>2. ASSUME NEW m \in Messages, Call(m)
          PROVE  ChannelInv' /\ Channel!Send
        <2>1. TypeInv'
            BY <1>1, <1>2, MessageShape, AppendProperties DEF TypeInv, Call
        <2>2. ASSUME reader = "reading"
              PROVE  \E cut : (Cut(cut) /\ Carried(cut, Pending, Len(received)))'
            <3>1. PICK cut : Cut(cut) /\ Carried(cut, Pending, Len(received))
                BY <2>2 DEF ChannelInv
            <3>2. PICK n \in Nat : n = Len(received)
                BY <1>1, LenProperties DEF TypeInv
            <3>3. Len(received') = n
                BY <1>2, <3>2 DEF Call
            <3> QED
                BY <1>1, <1>2, <3>1, <3>2, <3>3, CallCarries
        <2>3. UNCHANGED <<line, reader>>
            BY <1>2 DEF Call
        <2> QED
            BY <1>2, <2>1, <2>2, <2>3 DEF ChannelInv, Unfinished, Call, Channel!Send
    <1>3. CASE Writing
        <2>1. PICK k \in 0 .. Len(rest) : write(k)
            <3>1. Len(rest) \in Nat /\ Len(stream) \in Nat /\ Capacity \in Nat
                BY <1>1, LenProperties, RioAssumption DEF TypeInv, Bytes
            <3>2. PICK k \in 1 .. Smaller(Len(rest), Capacity - Len(stream)) : write(k)
                BY <1>3 DEF Writing
            <3>3. k \in 0 .. Len(rest)
                BY <3>1 DEF Smaller
            <3> QED
                BY <3>2, <3>3
        <2> QED
            BY <1>1, <2>1, WriteMoves, Unnoticed DEF write
    <1>4. CASE write_interrupted \/ read_interrupted \/ UNCHANGED vars
        <2>1. UNCHANGED <<sent, rest, end, stream, rio_buf, line, received, reader>>
            BY <1>4 DEF write_interrupted, read_interrupted, vars
        <2> QED
            BY <1>1, <2>1, Unnoticed DEF TypeInv, Pending
    <1>5. CASE Close
        <2>1. UNCHANGED <<sent, rest, stream, rio_buf, line, received, reader>> /\ end' = "closed"
            BY <1>5 DEF Close
        <2> QED
            BY <1>1, <2>1, Unnoticed DEF TypeInv, Pending
    <1>6. CASE Crash
        <2>1. /\ UNCHANGED <<sent, stream, rio_buf, line, received, reader>>
              /\ rest' = << >> /\ end' = "crashed"
            BY <1>6 DEF Crash
        <2>2. TypeInv'
            BY <1>1, <2>1, EmptySeq DEF TypeInv, Bytes
        <2>3. PICK s \in Bytes : s = (line \o rio_buf) \o stream
            BY <1>1, Joined DEF TypeInv
        <2>4. Pending = s \o rest /\ Pending' = s
            <3>1. s \o << >> = s
                BY ConcatEmptySeq DEF Bytes
            <3> QED
                BY <2>1, <2>3, <3>1 DEF Pending
        <2>5. ASSUME reader = "reading"
              PROVE  \E cut : (Cut(cut) /\ Carried(cut, Pending, Len(received)))'
            <3>1. PICK cut : Cut(cut) /\ Carried(cut, Pending, Len(received))
                BY <2>5 DEF ChannelInv
            <3>2. PICK n \in Nat : n = Len(received)
                BY <1>1, LenProperties DEF TypeInv
            <3>3. Carried(cut, s, n)'
                BY <1>1, <2>1, <2>4, <3>1, <3>2, PrefixIsCarried DEF TypeInv
            <3>4. Carried(cut, Pending, Len(received))'
                BY <2>1, <2>4, <3>2, <3>3 DEF Carried
            <3>5. Cut(cut)'
                BY <2>1, <3>1 DEF Cut
            <3> QED
                BY <3>4, <3>5
        <2> QED
            BY <2>1, <2>2, <2>5 DEF ChannelInv, Unfinished
    <1>7. ASSUME NEW k \in 1 .. Smaller(Len(stream), BufSize), refill(k)
          PROVE  ChannelInv' /\ UNCHANGED <<sent, received>>
        <2>1. k \in 0 .. Len(stream)
            <3>1. Len(stream) \in Nat
                BY <1>1, LenProperties DEF TypeInv, Bytes
            <3> QED
                BY <1>7, <3>1, RioAssumption DEF Smaller
        <2> QED
            BY <1>1, <1>7, <2>1, RefillMoves, Unnoticed DEF refill
    <1>8. CASE next_byte
        BY <1>8, ByteStep
    <1>9. CASE end_of_file \/ read_fails
        <2>1. line # << >> => line[Len(line)] # Newline
            <3>1. line # << >> => Len(line) \in 1 .. Len(line)
                BY <1>1, EmptySeq DEF TypeInv, Bytes
            <3> QED
                BY <1>9, <3>1 DEF ChannelInv, Unfinished, end_of_file, read_fails
        <2>2. /\ reader' # "reading"
              /\ UNCHANGED <<sent, received, line, rio_buf, stream, rest>>
            BY <1>9, <2>1 DEF end_of_file, read_fails, take
        <2> QED
            BY <2>2, Stopped
    <1> QED
        BY <1>2, <1>3, <1>4, <1>5, <1>6, <1>7, <1>8, <1>9 DEF Next, Reading

(* However the bytes are cut up on their way, and wherever the writer dies,  *)
(* the reader of rio_readlineb takes the messages that were handed to        *)
(* rio_writen, in order, each whole and once.                                *)
THEOREM LinesImplementChannel == Spec => MessagesArriveWhole
    <1>1. Init => ChannelInv /\ Channel!Init
        BY ChannelInvInit
    <1>2. ChannelInv /\ [Next]_vars
            => ChannelInv' /\ [Channel!Send \/ Channel!Receive]_<<sent, received>>
        BY ChannelStep
    <1> QED
        BY <1>1, <1>2, PTL DEF Spec, MessagesArriveWhole, Channel!Spec
=============================================================================
