------------------------ MODULE SerializationProofs ------------------------
(***************************************************************************)
(* What MessageSerialization::encode and decode compute, for texts of      *)
(* every length over any of the classes of characters.                    *)
(***************************************************************************)
EXTENDS MCSerialization, SequenceTheorems, FiniteSetTheorems, TLAPS

(* Induction over an interval, for a set of numbers. *)
LEMMA Induction ==
    ASSUME NEW n \in Nat, NEW T, 0 \in T,
           \A i \in 1 .. n : i - 1 \in T => i \in T
    PROVE  \A i \in 0 .. n : i \in T
  <1> DEFINE R == OpToRel(<, Nat)
             U == (0 .. n) \ T
  <1>1. IsWellFoundedOn(R, Nat)
    BY NatLessThanWellFounded
  <1>2. \A x, y \in Nat : <<y, x>> \in R <=> y < x
    BY DEF OpToRel
  <1>3. ASSUME U # {} PROVE FALSE
    <2> HIDE DEF R
    <2>1. U \subseteq Nat
      OBVIOUS
    <2>2. PICK x \in U : \A y \in U : ~ (<<y, x>> \in R)
      BY <1>1, <1>3, <2>1, WFMin
    <2>3. x \in Nat /\ x - 1 \in Nat /\ x - 1 \in U
      BY <2>2
    <2>4. <<x - 1, x>> \notin R
      BY <2>2, <2>3
    <2>5. <<x - 1, x>> \in R
      BY <2>3, <1>2
    <2> QED
      BY <2>4, <2>5
  <1> QED
    BY <1>3

(* A set of numbers that is not empty has a least one. *)
LEMMA LeastNumber ==
    ASSUME NEW T, T \subseteq Nat, T # {}
    PROVE  \E x \in T : \A y \in T : x <= y
  <1> DEFINE R == OpToRel(<, Nat)
  <1>1. IsWellFoundedOn(R, Nat)
    BY NatLessThanWellFounded
  <1>2. \A x, y \in Nat : <<y, x>> \in R <=> y < x
    BY DEF OpToRel
  <1> HIDE DEF R
  <1>3. PICK x \in T : \A y \in T : ~ (<<y, x>> \in R)
    BY <1>1, WFMin
  <1>4. ASSUME NEW y \in T PROVE x <= y
    <2>1. x \in Nat /\ y \in Nat /\ <<y, x>> \notin R
      BY <1>3
    <2>2. ~ (y < x)
      BY <2>1, <1>2
    <2> QED
      BY <2>1, <2>2
  <1> QED
    BY <1>3, <1>4

(* Induction over sequences, for a set of sequences. *)
LEMMA SequenceInduction ==
    ASSUME NEW S, NEW T, << >> \in T,
           \A s \in Seq(S), e \in S : s \in T => Append(s, e) \in T
    PROVE  \A s \in Seq(S) : s \in T
  <1> TAKE s \in Seq(S)
  <1>1. Len(s) \in Nat
    BY LenProperties
  <1> DEFINE p(i) == SubSeq(s, 1, i)
             U == {i \in 0 .. Len(s) : p(i) \in T}
  <1> HIDE DEF p
  <1>2. 0 \in U
    <2>1. \A m, k \in Int : k < m => SubSeq(s, m, k) = << >>
      BY SubSeqEmpty
    <2>2. p(0) = << >>
      BY <2>1 DEF p
    <2> QED
      BY <1>1, <2>2
  <1>3. ASSUME NEW i \in 1 .. Len(s), i - 1 \in U
        PROVE  i \in U
    <2>1. s[i] \in S /\ \A j \in 1 .. Len(s) : s[j] \in S
      BY ElementOfSeq
    <2>2. PICK t : t = p(i - 1)
      OBVIOUS
    <2>3. t \in Seq(S) /\ t \in T
      BY <1>1, <1>3, <2>1, <2>2, SubSeqProperties DEF p
    <2>4. p(i) = t \o <<s[i]>>
      BY <1>1, <2>2, SubSeqRecursiveSecond DEF p
    <2>5. Append(t, s[i]) = t \o <<s[i]>>
      BY <2>1, <2>3, AppendIsConcat
    <2>6. p(i) = Append(t, s[i])
      BY <2>4, <2>5
    <2>7. Append(t, s[i]) \in T
      BY <2>1, <2>3
    <2>8. p(i) \in T
      BY <2>6, <2>7
    <2> QED
      BY <1>1, <2>8
  <1>4. Len(s) \in U
    <2>1. \A i \in 1 .. Len(s) : i - 1 \in U => i \in U
      BY <1>3
    <2> HIDE DEF U
    <2>2. \A i \in 0 .. Len(s) : i \in U
      BY <1>1, <1>2, <2>1, Induction
    <2> QED
      BY <1>1, <2>2
  <1>5. p(Len(s)) = s
    BY SubSeqFull DEF p
  <1>6. p(Len(s)) \in T
    BY <1>4
  <1> QED
    BY <1>5, <1>6

(* The runs of n turns of a loop that starts in b and does F. *)
Loops(n, V, b, F) ==
    {g \in [0 .. n -> V] :
        g[0] = b /\ \A i \in 1 .. n : g[i] = F[<<g[i - 1], i>>]}

(* A loop of n turns that keeps to V has a run. *)
LEMMA LoopStates ==
    ASSUME NEW n \in Nat, NEW V, NEW b \in V, NEW F \in [V \X (1 .. n) -> V]
    PROVE  Loops(n, V, b, F) # {}
  <1> DEFINE states(k) == {g \in [0 .. k -> V] :
                              g[0] = b /\ \A i \in 1 .. k : g[i] = F[<<g[i - 1], i>>]}
             U == {k \in 0 .. n : states(k) # {}}
  <1>1. 0 \in U
    <2>1. [i \in 0 .. 0 |-> b] \in states(0)
      OBVIOUS
    <2> QED
      BY <2>1
  <1>2. ASSUME NEW k \in 1 .. n, k - 1 \in U
        PROVE  k \in U
    <2>1. PICK g \in states(k - 1) : TRUE
      BY <1>2
    <2>2. PICK e \in V : e = F[<<g[k - 1], k>>]
      BY <2>1
    <2> DEFINE h == [i \in 0 .. k |-> IF i = k THEN e ELSE g[i]]
    <2>3. h \in [0 .. k -> V] /\ h[0] = b
      BY <2>1
    <2>4. ASSUME NEW i \in 1 .. k PROVE h[i] = F[<<h[i - 1], i>>]
      <3>1. CASE i = k
        <4>1. h[k] = e /\ h[k - 1] = g[k - 1]
          OBVIOUS
        <4> QED
          BY <2>2, <3>1, <4>1
      <3>2. CASE i # k
        <4>1. i \in 1 .. k - 1 /\ h[i] = g[i] /\ h[i - 1] = g[i - 1]
          BY <3>2
        <4> QED
          BY <2>1, <4>1
      <3> QED
        BY <3>1, <3>2
    <2>5. h \in states(k)
      BY <2>3, <2>4
    <2> QED
      BY <2>5
  <1>3. n \in U
    <2> HIDE DEF U
    <2> QED
      BY <1>1, <1>2, Induction
  <1> QED
    BY <1>3 DEF Loops

-----------------------------------------------------------------------------
(* The loop of decode.                                                       *)

Character == Char \cup MessageType \cup {Space, Newline}

Start == [loop |-> "words", args |-> << >>, arg |-> << >>]

Scan == [loop : {"words", "quoted", "done"}, args : Seq(Seq(Character)), arg : Seq(Character)]

(* One character takes a state of the loop to a state of the loop. *)
LEMMA NextCharType ==
    ASSUME NEW scan \in Scan, NEW c \in Character
    PROVE  next_char(scan, c) \in Scan
  <1>1. scan.args \in Seq(Seq(Character)) /\ scan.arg \in Seq(Character)
    BY DEF Scan
  <1>2. Append(scan.args, scan.arg) \in Seq(Seq(Character))
    BY <1>1, AppendProperties
  <1>3. Append(scan.arg, c) \in Seq(Character)
    BY <1>1, AppendProperties
  <1>4. << >> \in Seq(Character)
    BY EmptySeq
  <1>5. push_arg(scan) \in Scan
    BY <1>2, <1>4 DEF push_arg, Scan
  <1>6. open_quote(scan) \in Scan /\ close_quote(scan) \in Scan
    BY <1>2, <1>4, <1>5 DEF open_quote, close_quote, Scan
  <1>7. [push_arg(scan) EXCEPT !.loop = "done"] \in Scan
    BY <1>5 DEF Scan
  <1>8. [scan EXCEPT !.arg = Append(@, c)] \in Scan
    BY <1>3 DEF Scan
  <1> QED
    BY <1>5, <1>6, <1>7, <1>8 DEF next_char

(* The states the loop goes through, and that there are such. *)
LEMMA ScanStates ==
    ASSUME NEW s \in Seq(Character)
    PROVE  \E g \in [0 .. Len(s) -> Scan] :
              /\ g[0] = Start
              /\ \A i \in 1 .. Len(s) : g[i] = next_char(g[i - 1], s[i])
              /\ scan_args(s) = g[Len(s)]
  <1> DEFINE n == Len(s)
             F == [p \in Scan \X (1 .. n) |-> next_char(p[1], s[p[2]])]
  <1>1. n \in Nat
    BY LenProperties
  <1>2. Start \in Scan
    BY EmptySeq DEF Start, Scan
  <1>3. ASSUME NEW scan \in Scan, NEW i \in 1 .. n
        PROVE  next_char(scan, s[i]) \in Scan
    BY ElementOfSeq, NextCharType
  <1>4. F \in [Scan \X (1 .. n) -> Scan]
    BY <1>3
  <1>5. PICK g : g \in Loops(n, Scan, Start, F)
    <2> HIDE DEF F, n
    <2> QED
      BY <1>1, <1>2, <1>4, LoopStates
  <1>6. /\ g \in [0 .. n -> Scan]
        /\ g[0] = Start
        /\ \A i \in 1 .. n : g[i] = F[<<g[i - 1], i>>]
    BY <1>5 DEF Loops
  <1>7. ASSUME NEW i \in 1 .. n PROVE g[i] = next_char(g[i - 1], s[i])
    BY <1>1, <1>6
  <1> DEFINE scanned[i \in 0 .. n] ==
                IF i = 0 THEN Start ELSE next_char(scanned[i - 1], s[i])
  <1>8. g = [i \in 0 .. n |-> IF i = 0 THEN Start ELSE next_char(g[i - 1], s[i])]
    BY <1>1, <1>6, <1>7
  <1>9. scanned = [i \in 0 .. n |->
                     IF i = 0 THEN Start ELSE next_char(scanned[i - 1], s[i])]
    BY <1>8
  <1>10. scan_args(s) = scanned[n]
    BY DEF scan_args, Start
  <1> HIDE DEF scanned
  <1>11. scanned[0] = Start /\ \A i \in 1 .. n : scanned[i] = next_char(scanned[i - 1], s[i])
    BY <1>1, <1>9
  <1> DEFINE V == {i \in 0 .. n : scanned[i] \in Scan}
  <1>12. \A i \in 0 .. n : i \in V
    <2>1. 0 \in V
      BY <1>1, <1>2, <1>11
    <2>2. ASSUME NEW i \in 1 .. n, i - 1 \in V PROVE i \in V
      <3>1. s[i] \in Character /\ scanned[i - 1] \in Scan
        BY <2>2, ElementOfSeq
      <3> QED
        BY <3>1, <1>11, NextCharType
    <2> HIDE DEF V
    <2> QED
      BY <1>1, <2>1, <2>2, Induction
  <1>13. scanned \in [0 .. n -> Scan]
    BY <1>9, <1>12
  <1> QED
    BY <1>10, <1>11, <1>13

(* Of no characters the loop makes nothing. *)
LEMMA ScanEmpty == scan_args(<< >>) = Start
  <1>1. << >> \in Seq(Character) /\ Len(<< >>) = 0
    BY EmptySeq
  <1> QED
    BY <1>1, ScanStates

(* One character more is one more turn of the loop. *)
LEMMA ScanAppend ==
    ASSUME NEW s \in Seq(Character), NEW c \in Character
    PROVE  scan_args(Append(s, c)) = next_char(scan_args(s), c)
  <1>1. PICK u : u = Append(s, c)
    OBVIOUS
  <1>2. /\ u \in Seq(Character)
        /\ Len(u) = Len(s) + 1
        /\ \A i \in 1 .. Len(s) : u[i] = s[i]
        /\ u[Len(s) + 1] = c
        /\ Len(s) \in Nat
    BY <1>1, AppendProperties, LenProperties
  <1>3. PICK g \in [0 .. Len(s) -> Scan] :
              /\ g[0] = Start
              /\ \A i \in 1 .. Len(s) : g[i] = next_char(g[i - 1], s[i])
              /\ scan_args(s) = g[Len(s)]
    BY ScanStates
  <1>4. PICK h \in [0 .. Len(u) -> Scan] :
              /\ h[0] = Start
              /\ \A i \in 1 .. Len(u) : h[i] = next_char(h[i - 1], u[i])
              /\ scan_args(u) = h[Len(u)]
    BY <1>2, ScanStates
  <1> DEFINE T == {i \in 0 .. Len(s) : g[i] = h[i]}
  <1>5. \A i \in 0 .. Len(s) : i \in T
    <2>1. 0 \in T
      BY <1>2, <1>3, <1>4
    <2>2. ASSUME NEW i \in 1 .. Len(s), i - 1 \in T PROVE i \in T
      <3>1. /\ i \in 1 .. Len(u)
            /\ g[i - 1] = h[i - 1]
            /\ u[i] = s[i]
        BY <2>2, <1>2
      <3> QED
        BY <3>1, <1>3, <1>4
    <2> HIDE DEF T
    <2> QED
      BY <1>2, <2>1, <2>2, Induction
  <1>6. g[Len(s)] = h[Len(s)]
    BY <1>2, <1>5
  <1>7. h[Len(s) + 1] = next_char(h[Len(s)], c)
    BY <1>2, <1>4
  <1>8. scan_args(u) = next_char(scan_args(s), c)
    BY <1>2, <1>3, <1>4, <1>6, <1>7
  <1> QED
    BY <1>1, <1>8

(* The loop is in one of its states at the end of every text. *)
LEMMA ScanType ==
    ASSUME NEW s \in Seq(Character)
    PROVE  scan_args(s) \in Scan
  BY ScanStates, LenProperties

(* What a turn of the loop does, field by field. *)
LEMMA NextCharCases ==
    ASSUME NEW scan \in Scan, NEW c \in Character
    PROVE  LET n == next_char(scan, c)
           IN  /\ scan.loop = "done" => n = scan
               /\ scan.loop = "words" /\ c \in {Space, Newline, Quote} =>
                     /\ n.loop = (IF c = Newline THEN "done"
                                  ELSE IF c = Quote THEN "quoted" ELSE "words")
                     /\ n.args = (IF scan.arg = << >> THEN scan.args
                                  ELSE Append(scan.args, scan.arg))
                     /\ n.arg = << >>
               /\ scan.loop = "quoted" /\ c = Quote =>
                     /\ n.loop = "words"
                     /\ n.args = Append(scan.args, scan.arg)
                     /\ n.arg = << >>
               /\ \/ scan.loop = "words" /\ c \notin {Space, Newline, Quote}
                  \/ scan.loop = "quoted" /\ c # Quote
                  => /\ n.loop = scan.loop
                     /\ n.args = scan.args
                     /\ n.arg = Append(scan.arg, c)
  <1>1. /\ scan.loop \in {"words", "quoted", "done"}
        /\ scan = [loop |-> scan.loop, args |-> scan.args, arg |-> scan.arg]
    BY DEF Scan
  <1>2. PICK more : more = Append(scan.args, scan.arg)
    OBVIOUS
  <1>3. PICK longer : longer = Append(scan.arg, c)
    OBVIOUS
  <1>4. Space # Newline /\ Space # Quote /\ Newline # Quote
    BY DEF Space, Newline, Quote
  <1>5. /\ push_arg(scan).loop = scan.loop
        /\ push_arg(scan).args = (IF scan.arg = << >> THEN scan.args ELSE more)
        /\ push_arg(scan).arg = << >>
        /\ push_arg(scan) = [loop |-> push_arg(scan).loop,
                             args |-> push_arg(scan).args, arg |-> << >>]
    BY <1>1, <1>2 DEF push_arg
  <1>6. ASSUME scan.loop = "words", c \in {Space, Newline, Quote}
        PROVE  /\ next_char(scan, c).loop = (IF c = Newline THEN "done"
                                  ELSE IF c = Quote THEN "quoted" ELSE "words")
               /\ next_char(scan, c).args = push_arg(scan).args
               /\ next_char(scan, c).arg = << >>
    <2>1. CASE c = Space
      <3>1. next_char(scan, c) = push_arg(scan)
        BY <1>4, <1>6, <2>1 DEF next_char
      <3> QED
        BY <1>4, <1>5, <1>6, <2>1, <3>1
    <2>2. CASE c = Newline
      <3>1. next_char(scan, c) = [push_arg(scan) EXCEPT !.loop = "done"]
        BY <1>4, <1>6, <2>2 DEF next_char
      <3> QED
        BY <1>4, <1>5, <1>6, <2>2, <3>1
    <2>3. CASE c = Quote
      <3>1. next_char(scan, c) = [push_arg(scan) EXCEPT !.loop = "quoted"]
        BY <1>4, <1>6, <2>3 DEF next_char, open_quote
      <3> QED
        BY <1>4, <1>5, <1>6, <2>3, <3>1
    <2> QED
      BY <1>6, <2>1, <2>2, <2>3
  <1>7. ASSUME scan.loop = "quoted", c = Quote
        PROVE  next_char(scan, c) = [loop |-> "words", args |-> more, arg |-> << >>]
    BY <1>2, <1>4, <1>7 DEF next_char, close_quote
  <1>8. ASSUME \/ scan.loop = "words" /\ c \notin {Space, Newline, Quote}
               \/ scan.loop = "quoted" /\ c # Quote
        PROVE  next_char(scan, c) = [loop |-> scan.loop, args |-> scan.args, arg |-> longer]
    <2>1. next_char(scan, c) = [scan EXCEPT !.arg = longer]
      BY <1>3, <1>8 DEF next_char
    <2> QED
      BY <1>1, <2>1
  <1>9. scan.loop = "done" => next_char(scan, c) = scan
    BY DEF next_char
  <1> QED
    BY <1>2, <1>3, <1>5, <1>6, <1>7, <1>8, <1>9

(* The same of its outcome n, with names for what it may append. *)
Turn(scan, c, n, more, longer) ==
    /\ scan.loop = "done" => n = scan
    /\ scan.loop = "words" /\ c \in {Space, Newline, Quote} =>
          /\ n.loop = (IF c = Newline THEN "done"
                       ELSE IF c = Quote THEN "quoted" ELSE "words")
          /\ n.args = (IF scan.arg = << >> THEN scan.args ELSE more)
          /\ n.arg = << >>
    /\ scan.loop = "quoted" /\ c = Quote =>
          n.loop = "words" /\ n.args = more /\ n.arg = << >>
    /\ \/ scan.loop = "words" /\ c \notin {Space, Newline, Quote}
       \/ scan.loop = "quoted" /\ c # Quote
       => n.loop = scan.loop /\ n.args = scan.args /\ n.arg = longer

(* A turn of the loop is one of those. *)
LEMMA NextCharTurn ==
    ASSUME NEW scan \in Scan, NEW c \in Character
    PROVE  Turn(scan, c, next_char(scan, c), Append(scan.args, scan.arg), Append(scan.arg, c))
  <1>1. PICK n : n = next_char(scan, c)
    OBVIOUS
  <1>2. PICK more : more = Append(scan.args, scan.arg)
    OBVIOUS
  <1>3. PICK longer : longer = Append(scan.arg, c)
    OBVIOUS
  <1>4. Turn(scan, c, n, more, longer)
    BY <1>1, <1>2, <1>3, NextCharCases DEF Turn
  <1> QED
    BY <1>1, <1>2, <1>3, <1>4

(* What holds of the loop at its start and after every turn holds of it      *)
(* whatever it reads.                                                        *)
LEMMA ScanInduction ==
    ASSUME NEW C, C \subseteq Character, NEW I, I \subseteq Scan, Start \in I,
           \A scan \in I, c \in C : next_char(scan, c) \in I
    PROVE  \A s \in Seq(C) : scan_args(s) \in I
  <1> DEFINE T == {s \in Seq(C) : scan_args(s) \in I}
  <1>1. << >> \in T
    BY EmptySeq, ScanEmpty
  <1>2. ASSUME NEW s \in Seq(C), NEW c \in C, s \in T
        PROVE  Append(s, c) \in T
    <2>1. s \in Seq(Character) /\ c \in Character
      BY SeqMonotonic
    <2>2. scan_args(Append(s, c)) = next_char(scan_args(s), c)
      BY <2>1, ScanAppend
    <2>3. scan_args(s) \in I
      BY <1>2
    <2>4. next_char(scan_args(s), c) \in I
      BY <2>3
    <2>5. Append(s, c) \in Seq(C)
      BY AppendProperties
    <2>6. scan_args(Append(s, c)) \in I
      BY <2>2, <2>4
    <2>7. \A t : t \in Seq(C) /\ scan_args(t) \in I => t \in T
      OBVIOUS
    <2> HIDE DEF T
    <2> QED
      BY <2>5, <2>6, <2>7
  <1>3. \A s \in Seq(C) : s \in T
    <2> HIDE DEF T
    <2> QED
      BY <1>1, <1>2, SequenceInduction
  <1> QED
    BY <1>3

-----------------------------------------------------------------------------
(* The arguments of encode.                                                  *)

Texts == Seq(Seq(Character))

(* encode goes through a text for every number of arguments written. *)
LEMMA EncodedStates ==
    ASSUME NEW args \in Texts
    PROVE  \E g \in [0 .. Len(args) -> Seq(Character)] :
              /\ g[0] = << >>
              /\ \A i \in 1 .. Len(args) : g[i] = g[i - 1] \o <<Space>> \o args[i]
              /\ encoded_args(args) = g[Len(args)]
  <1> DEFINE n == Len(args)
             V == Seq(Character)
             F == [p \in V \X (1 .. n) |-> p[1] \o <<Space>> \o args[p[2]]]
  <1>1. n \in Nat
    BY LenProperties DEF Texts
  <1>2. << >> \in V
    BY EmptySeq
  <1>3. ASSUME NEW t \in V, NEW i \in 1 .. n
        PROVE  t \o <<Space>> \o args[i] \in V
    <2>1. args[i] \in V
      BY ElementOfSeq DEF Texts
    <2>2. <<Space>> \in V
      BY DEF Character
    <2>3. t \o <<Space>> \in V
      BY <2>2, ConcatProperties
    <2> QED
      BY <2>1, <2>3, ConcatProperties
  <1>4. F \in [V \X (1 .. n) -> V]
    <2> DEFINE e(t, i) == t \o <<Space>> \o args[i]
    <2>1. \A t \in V, i \in 1 .. n : e(t, i) \in V
      BY <1>3
    <2>2. F = [p \in V \X (1 .. n) |-> e(p[1], p[2])]
      OBVIOUS
    <2> HIDE DEF e, F
    <2> QED
      BY <2>1, <2>2
  <1>5. PICK g : g \in Loops(n, V, << >>, F)
    <2> HIDE DEF F, n, V
    <2> QED
      BY <1>1, <1>2, <1>4, LoopStates
  <1>6. /\ g \in [0 .. n -> V]
        /\ g[0] = << >>
        /\ \A i \in 1 .. n : g[i] = F[<<g[i - 1], i>>]
    BY <1>5 DEF Loops
  <1> DEFINE e(t, i) == t \o <<Space>> \o args[i]
  <1>7. ASSUME NEW i \in 1 .. n PROVE g[i] = e(g[i - 1], i)
    <2>1. F = [p \in V \X (1 .. n) |-> e(p[1], p[2])]
      OBVIOUS
    <2> HIDE DEF e, F, V, n
    <2>2. g[i - 1] \in V /\ g[i] = F[<<g[i - 1], i>>]
      BY <1>1, <1>6
    <2>3. F[<<g[i - 1], i>>] = e(g[i - 1], i)
      BY <2>1, <2>2
    <2> QED
      BY <2>2, <2>3
  <1> DEFINE written[i \in 0 .. n] ==
                IF i = 0 THEN << >> ELSE written[i - 1] \o <<Space>> \o args[i]
  <1>8. g = [i \in 0 .. n |-> IF i = 0 THEN << >> ELSE e(g[i - 1], i)]
    <2> HIDE DEF e
    <2> QED
      BY <1>1, <1>6, <1>7
  <1>9. written = [i \in 0 .. n |-> IF i = 0 THEN << >> ELSE e(written[i - 1], i)]
    BY <1>8
  <1>10. encoded_args(args) = written[n]
    BY DEF encoded_args
  <1> HIDE DEF written
  <1>11. /\ written[0] = << >>
         /\ \A i \in 1 .. n : written[i] = e(written[i - 1], i)
    <2> HIDE DEF e
    <2> QED
      BY <1>1, <1>9
  <1> DEFINE U == {i \in 0 .. n : written[i] \in V}
  <1>12. \A i \in 0 .. n : i \in U
    <2>1. 0 \in U
      <3> HIDE DEF V, n, e
      <3> QED
        BY <1>1, <1>2, <1>11
    <2>2. ASSUME NEW i \in 1 .. n, i - 1 \in U PROVE i \in U
      <3>1. written[i - 1] \in V
        BY <2>2
      <3>2. e(written[i - 1], i) \in V
        BY <3>1, <1>3
      <3> HIDE DEF e
      <3> QED
        BY <3>2, <1>11
    <2> HIDE DEF U
    <2> QED
      BY <1>1, <2>1, <2>2, Induction
  <1>13. written \in [0 .. n -> V]
    <2> HIDE DEF e
    <2> QED
      BY <1>9, <1>12
  <1> QED
    BY <1>10, <1>11, <1>13

(* encode writes a text. *)
LEMMA EncodeType ==
    ASSUME NEW args \in Texts
    PROVE  encoded_args(args) \in Seq(Character)
  <1>1. Len(args) \in Nat
    BY LenProperties DEF Texts
  <1>2. PICK g \in [0 .. Len(args) -> Seq(Character)] :
              encoded_args(args) = g[Len(args)]
    BY EncodedStates
  <1> QED
    BY <1>1, <1>2

(* No argument is written as nothing. *)
LEMMA EncodeEmpty == encoded_args(<< >>) = << >>
  <1>1. << >> \in Texts /\ Len(<< >>) = 0
    BY EmptySeq DEF Texts
  <1> QED
    BY <1>1, EncodedStates

(* One argument more is written behind the others, after a space. *)
LEMMA EncodeAppend ==
    ASSUME NEW args \in Texts, NEW a \in Seq(Character)
    PROVE  encoded_args(Append(args, a)) = encoded_args(args) \o <<Space>> \o a
  <1>1. PICK u : u = Append(args, a)
    OBVIOUS
  <1>2. /\ u \in Texts
        /\ Len(u) = Len(args) + 1
        /\ \A i \in 1 .. Len(args) : u[i] = args[i]
        /\ u[Len(args) + 1] = a
        /\ Len(args) \in Nat
    BY <1>1, AppendProperties, LenProperties DEF Texts
  <1> DEFINE e(t, x) == t \o <<Space>> \o x
  <1>3. PICK g \in [0 .. Len(args) -> Seq(Character)] :
              /\ g[0] = << >>
              /\ \A i \in 1 .. Len(args) : g[i] = e(g[i - 1], args[i])
              /\ encoded_args(args) = g[Len(args)]
    BY EncodedStates
  <1>4. PICK h \in [0 .. Len(u) -> Seq(Character)] :
              /\ h[0] = << >>
              /\ \A i \in 1 .. Len(u) : h[i] = e(h[i - 1], u[i])
              /\ encoded_args(u) = h[Len(u)]
    BY <1>2, EncodedStates
  <1> HIDE DEF e
  <1> DEFINE T == {i \in 0 .. Len(args) : g[i] = h[i]}
  <1>5. \A i \in 0 .. Len(args) : i \in T
    <2>1. 0 \in T
      BY <1>2, <1>3, <1>4
    <2>2. ASSUME NEW i \in 1 .. Len(args), i - 1 \in T PROVE i \in T
      <3>1. /\ i \in 1 .. Len(u)
            /\ g[i - 1] = h[i - 1]
            /\ u[i] = args[i]
        BY <2>2, <1>2
      <3> QED
        BY <3>1, <1>3, <1>4
    <2> HIDE DEF T
    <2> QED
      BY <1>2, <2>1, <2>2, Induction
  <1>6. g[Len(args)] = h[Len(args)]
    BY <1>2, <1>5
  <1>7. h[Len(args) + 1] = e(h[Len(args)], a)
    <2>1. Len(args) + 1 \in 1 .. Len(u) /\ (Len(args) + 1) - 1 = Len(args)
      BY <1>2
    <2>2. h[Len(args) + 1] = e(h[(Len(args) + 1) - 1], u[Len(args) + 1])
      BY <2>1, <1>4
    <2> QED
      BY <1>2, <2>1, <2>2
  <1>8. encoded_args(u) = e(encoded_args(args), a)
    BY <1>2, <1>3, <1>4, <1>6, <1>7
  <1> QED
    BY <1>1, <1>8 DEF e

-----------------------------------------------------------------------------
(* What the loop makes of words and of texts without quotes.                 *)

NotQuote == Character \ {Quote}

Plain == Character \ {Space, Newline, Quote}

Words == Seq(Plain) \ {<< >>}

(* The marks of the format are three characters. *)
LEMMA Marks ==
    /\ Space # Newline /\ Space # Quote /\ Newline # Quote
    /\ Space \in NotQuote /\ Newline \in NotQuote /\ Plain \subseteq NotQuote
    /\ NotQuote \subseteq Character
    /\ \A ty \in MessageType : ty \in Plain
  BY DEF Space, Newline, Quote, Character, NotQuote, Plain, MessageType

(* A sequence is one over any set that holds its elements. *)
LEMMA SeqOver ==
    ASSUME NEW S, NEW D, NEW s \in Seq(S), \A i \in 1 .. Len(s) : s[i] \in D
    PROVE  s \in Seq(D)
  <1>1. Len(s) \in Nat /\ s \in [1 .. Len(s) -> S]
    BY LenProperties
  <1>2. s \in [1 .. Len(s) -> D]
    BY <1>1
  <1> QED
    BY <1>1, <1>2, SeqDef

(* OneWord says what the name says. *)
LEMMA OneWordIsWord ==
    ASSUME NEW s \in Seq(Character)
    PROVE  OneWord(s) <=> s \in Words
  <1>1. ASSUME OneWord(s) PROVE s \in Words
    <2>1. \A i \in 1 .. Len(s) : s[i] \in Character
      BY ElementOfSeq
    <2>2. \A i \in 1 .. Len(s) : s[i] \in Plain
      BY <1>1, <2>1 DEF OneWord, Plain
    <2>3. s \in Seq(Plain)
      BY <2>2, SeqOver
    <2> QED
      BY <1>1, <2>3 DEF OneWord, Words
  <1>2. ASSUME s \in Words PROVE OneWord(s)
    <2>1. s \in Seq(Plain) /\ s # << >>
      BY <1>2 DEF Words
    <2>2. \A i \in 1 .. Len(s) : s[i] \in Plain
      BY <2>1, ElementOfSeq
    <2> QED
      BY <2>1, <2>2 DEF OneWord, Plain
  <1> QED
    BY <1>1, <1>2

(* No argument has a quote in it, whatever the line. *)
LEMMA ArgsHaveNoQuote ==
    ASSUME NEW s \in Seq(Character)
    PROVE  scan_args(s).args \in Seq(Seq(NotQuote))
  <1> DEFINE I == [loop : {"words", "quoted", "done"},
                   args : Seq(Seq(NotQuote)), arg : Seq(NotQuote)]
  <1>1. Start \in I
    BY EmptySeq DEF Start
  <1>2. I \subseteq Scan
    <2>1. Seq(NotQuote) \subseteq Seq(Character)
      BY Marks, SeqMonotonic
    <2>2. Seq(Seq(NotQuote)) \subseteq Seq(Seq(Character))
      BY <2>1, SeqMonotonic
    <2> QED
      BY <2>1, <2>2 DEF Scan
  <1>3. ASSUME NEW scan \in I, NEW c \in Character
        PROVE  next_char(scan, c) \in I
    <2>1. scan \in Scan
      BY <1>2
    <2>2. scan.args \in Seq(Seq(NotQuote)) /\ scan.arg \in Seq(NotQuote)
      OBVIOUS
    <2>3. PICK more : more = Append(scan.args, scan.arg)
      OBVIOUS
    <2>4. PICK longer : longer = Append(scan.arg, c)
      OBVIOUS
    <2>5. /\ more \in Seq(Seq(NotQuote))
          /\ c # Quote => longer \in Seq(NotQuote)
          /\ << >> \in Seq(NotQuote)
      BY <2>2, <2>3, <2>4, AppendProperties, EmptySeq DEF NotQuote
    <2>6. PICK n : n = next_char(scan, c)
      OBVIOUS
    <2>7. n \in Scan /\ Turn(scan, c, n, more, longer)
      BY <2>1, <2>3, <2>4, <2>6, NextCharType, NextCharTurn
    <2>8. n.args \in Seq(Seq(NotQuote)) /\ n.arg \in Seq(NotQuote)
      <3>1. CASE scan.loop = "done"
        BY <2>2, <2>7, <3>1 DEF Turn
      <3>2. CASE scan.loop = "words" /\ c \in {Space, Newline, Quote}
        BY <2>2, <2>5, <2>7, <3>2 DEF Turn
      <3>3. CASE scan.loop = "quoted" /\ c = Quote
        BY <2>5, <2>7, <3>3 DEF Turn
      <3>4. CASE \/ scan.loop = "words" /\ c \notin {Space, Newline, Quote}
                 \/ scan.loop = "quoted" /\ c # Quote
        <4>1. n.args = scan.args /\ n.arg = longer
          BY <2>7, <3>4 DEF Turn
        <4> QED
          BY <2>2, <2>5, <3>4, <4>1
      <3> QED
        BY <2>1, <3>1, <3>2, <3>3, <3>4 DEF Scan
    <2> QED
      BY <2>6, <2>7, <2>8 DEF Scan
  <1>4. \A t \in Seq(Character) : scan_args(t) \in I
    <2> HIDE DEF I
    <2> QED
      BY <1>1, <1>2, <1>3, ScanInduction
  <1>5. scan_args(s) \in I
    BY <1>4
  <1> QED
    BY <1>5

(* Where a line has no quote, every argument is a word. *)
LEMMA ArgsWithoutQuotes ==
    ASSUME NEW s \in Seq(NotQuote)
    PROVE  scan_args(s).args \in Seq(Words)
  <1> DEFINE I == [loop : {"words", "done"}, args : Seq(Words), arg : Seq(Plain)]
  <1>1. Start \in I
    BY EmptySeq DEF Start
  <1>2. I \subseteq Scan
    <2>1. Seq(Plain) \subseteq Seq(Character)
      BY SeqMonotonic DEF Plain
    <2>2. Words \subseteq Seq(Character)
      BY <2>1 DEF Words
    <2>3. Seq(Words) \subseteq Seq(Seq(Character))
      BY <2>2, SeqMonotonic
    <2> QED
      BY <2>1, <2>3 DEF Scan
  <1>3. ASSUME NEW scan \in I, NEW c \in NotQuote
        PROVE  next_char(scan, c) \in I
    <2>1. scan \in Scan /\ c \in Character /\ c # Quote
      BY <1>2 DEF NotQuote
    <2>2. /\ scan.loop \in {"words", "done"}
          /\ scan.args \in Seq(Words)
          /\ scan.arg \in Seq(Plain)
      OBVIOUS
    <2>3. PICK more : more = Append(scan.args, scan.arg)
      OBVIOUS
    <2>4. PICK longer : longer = Append(scan.arg, c)
      OBVIOUS
    <2>5. /\ scan.arg # << >> => more \in Seq(Words)
          /\ c \notin {Space, Newline} => longer \in Seq(Plain)
          /\ << >> \in Seq(Plain)
      <3>1. scan.arg # << >> => more \in Seq(Words)
        BY <2>2, <2>3, AppendProperties DEF Words
      <3>2. c \notin {Space, Newline} => longer \in Seq(Plain)
        BY <2>1, <2>2, <2>4, AppendProperties DEF Plain
      <3> QED
        BY <3>1, <3>2, EmptySeq
    <2>6. PICK n : n = next_char(scan, c)
      OBVIOUS
    <2>7. n \in Scan /\ Turn(scan, c, n, more, longer)
      BY <2>1, <2>3, <2>4, <2>6, NextCharType, NextCharTurn
    <2>8. n.loop \in {"words", "done"} /\ n.args \in Seq(Words) /\ n.arg \in Seq(Plain)
      <3>1. CASE scan.loop = "done"
        BY <2>2, <2>7, <3>1 DEF Turn
      <3>2. CASE scan.loop = "words" /\ c \in {Space, Newline}
        <4>1. /\ n.loop \in {"words", "done"} /\ n.arg = << >>
              /\ n.args = (IF scan.arg = << >> THEN scan.args ELSE more)
          BY <2>1, <2>7, <3>2 DEF Turn
        <4> QED
          BY <2>2, <2>5, <4>1
      <3>3. CASE scan.loop = "words" /\ c \notin {Space, Newline}
        <4>1. n.loop = scan.loop /\ n.args = scan.args /\ n.arg = longer
          BY <2>1, <2>7, <3>3 DEF Turn
        <4> QED
          BY <2>2, <2>5, <3>3, <4>1
      <3> QED
        BY <2>2, <3>1, <3>2, <3>3
    <2> QED
      BY <2>6, <2>7, <2>8 DEF Scan
  <1>4. \A t \in Seq(NotQuote) : scan_args(t) \in I
    <2> HIDE DEF I
    <2> QED
      BY <1>1, <1>2, <1>3, Marks, ScanInduction
  <1>5. scan_args(s) \in I
    BY <1>4
  <1> QED
    BY <1>5

(* A word is read into arg as it is. *)
LEMMA ReadWord ==
    ASSUME NEW s \in Seq(Character), NEW w \in Seq(Plain),
           scan_args(s).loop = "words", scan_args(s).arg = << >>
    PROVE  /\ s \o w \in Seq(Character)
           /\ scan_args(s \o w) =
                 [loop |-> "words", args |-> scan_args(s).args, arg |-> w]
  <1> DEFINE after(u) == [loop |-> "words", args |-> scan_args(s).args, arg |-> u]
             T == {u \in Seq(Plain) : s \o u \in Seq(Character) /\ scan_args(s \o u) = after(u)}
  <1>1. << >> \in T
    <2>1. s \o << >> = s /\ << >> \in Seq(Plain)
      BY ConcatEmptySeq, EmptySeq
    <2>2. scan_args(s) = after(<< >>)
      BY ScanType DEF Scan
    <2> HIDE DEF after
    <2> QED
      BY <2>1, <2>2
  <1>2. ASSUME NEW u \in Seq(Plain), NEW c \in Plain, u \in T
        PROVE  Append(u, c) \in T
    <2>1. /\ u \in Seq(Character) /\ c \in Character
          /\ c \notin {Space, Newline, Quote}
      BY SeqMonotonic DEF Plain
    <2>2. PICK v : v = s \o u
      OBVIOUS
    <2>3. v \in Seq(Character) /\ scan_args(v) = after(u)
      BY <1>2, <2>2
    <2>4. PICK x : x = Append(u, c)
      OBVIOUS
    <2>5. x \in Seq(Plain) /\ x = u \o <<c>>
      BY <2>4, AppendProperties, AppendIsConcat
    <2>6. s \o x = Append(v, c)
      <3>1. <<c>> \in Seq(Character)
        BY <2>1
      <3>2. s \o x = v \o <<c>>
        BY <2>1, <2>2, <2>5, <3>1, ConcatAssociative
      <3> QED
        BY <2>1, <2>3, <3>2, AppendIsConcat
    <2>7. scan_args(s \o x) = next_char(after(u), c)
      BY <2>1, <2>3, <2>6, ScanAppend
    <2>8. next_char(after(u), c) = after(x)
      <3>1. after(u) \in Scan /\ next_char(after(u), c) \in Scan
        BY <2>1, <2>3, ScanType, NextCharType
      <3>2. PICK n : n = next_char(after(u), c)
        OBVIOUS
      <3>3. n.loop = "words" /\ n.args = scan_args(s).args /\ n.arg = x
        BY <2>1, <2>4, <3>1, <3>2, NextCharCases
      <3> QED
        BY <3>1, <3>2, <3>3 DEF Scan
    <2>9. s \o x \in Seq(Character)
      BY <2>1, <2>3, <2>6, AppendProperties
    <2>10. x \in T
      <3> HIDE DEF after
      <3> QED
        BY <2>5, <2>7, <2>8, <2>9
    <2> QED
      BY <2>4, <2>10
  <1>3. \A u \in Seq(Plain) : u \in T
    <2> HIDE DEF T
    <2> QED
      BY <1>1, <1>2, SequenceInduction
  <1> QED
    BY <1>3

-----------------------------------------------------------------------------
(* Reading what encode wrote.                                                *)

(* encode adds no character but spaces. *)
LEMMA EncodeOver ==
    ASSUME NEW D, D \subseteq Character, Space \in D, NEW args \in Seq(Seq(D))
    PROVE  encoded_args(args) \in Seq(D)
  <1> DEFINE T == {x \in Seq(Seq(D)) : encoded_args(x) \in Seq(D)}
  <1>1. << >> \in T
    BY EmptySeq, EncodeEmpty
  <1>2. ASSUME NEW x \in Seq(Seq(D)), NEW a \in Seq(D), x \in T
        PROVE  Append(x, a) \in T
    <2>1. x \in Texts /\ a \in Seq(Character)
      <3>1. Seq(D) \subseteq Seq(Character)
        BY SeqMonotonic
      <3> QED
        BY <3>1, SeqMonotonic DEF Texts
    <2>2. PICK e : e = encoded_args(x)
      OBVIOUS
    <2>3. e \in Seq(D)
      BY <1>2, <2>2
    <2>4. <<Space>> \in Seq(D)
      OBVIOUS
    <2>5. e \o <<Space>> \in Seq(D)
      BY <2>3, <2>4, ConcatProperties
    <2>6. (e \o <<Space>>) \o a \in Seq(D)
      BY <2>5, ConcatProperties
    <2>7. PICK y : y = Append(x, a)
      OBVIOUS
    <2>8. encoded_args(y) = (e \o <<Space>>) \o a
      BY <2>1, <2>2, <2>7, EncodeAppend
    <2>9. encoded_args(y) \in Seq(D)
      BY <2>6, <2>8
    <2>10. y \in Seq(Seq(D))
      BY <2>7, AppendProperties
    <2>11. y \in T
      BY <2>9, <2>10
    <2> QED
      BY <2>7, <2>11
  <1>3. \A x \in Seq(Seq(D)) : x \in T
    <2> HIDE DEF T
    <2> QED
      BY <1>1, <1>2, SequenceInduction
  <1> QED
    BY <1>3

(* What encode writes of the arguments starts with a space. *)
LEMMA EncodeStart ==
    ASSUME NEW args \in Texts, encoded_args(args) # << >>
    PROVE  encoded_args(args)[1] = Space
  <1> DEFINE T == {x \in Texts : encoded_args(x) # << >> => encoded_args(x)[1] = Space}
  <1>1. << >> \in T
    BY EmptySeq, EncodeEmpty DEF Texts
  <1>2. ASSUME NEW x \in Texts, NEW a \in Seq(Character), x \in T
        PROVE  Append(x, a) \in T
    <2>1. PICK e : e = encoded_args(x)
      OBVIOUS
    <2>2. e \in Seq(Character) /\ (e # << >> => e[1] = Space) /\ Len(e) \in Nat
      BY <1>2, <2>1, EncodeType, LenProperties
    <2>3. PICK sp : sp = <<Space>>
      OBVIOUS
    <2>4. sp \in Seq(Character) /\ Len(sp) = 1 /\ sp[1] = Space
      BY <2>3 DEF Character
    <2>5. PICK f : f = e \o sp
      OBVIOUS
    <2>6. f \in Seq(Character) /\ Len(f) = Len(e) + 1 /\ f[1] = Space
      <3>1. /\ f \in Seq(Character) /\ Len(f) = Len(e) + 1
            /\ f[1] = IF 1 <= Len(e) THEN e[1] ELSE sp[1 - Len(e)]
        BY <2>2, <2>4, <2>5, ConcatProperties
      <3>2. Len(e) = 0 \/ e # << >>
        BY <2>2, EmptySeq
      <3> QED
        BY <2>2, <2>4, <3>1, <3>2
    <2>7. PICK y : y = Append(x, a)
      OBVIOUS
    <2>8. encoded_args(y) = f \o a
      BY <2>1, <2>3, <2>5, <2>7, EncodeAppend
    <2>9. Len(a) \in Nat
      BY LenProperties
    <2>10. (f \o a)[1] = Space
      BY <2>2, <2>6, <2>9, ConcatProperties
    <2>11. y \in Texts
      BY <2>7, AppendProperties DEF Texts
    <2>12. y \in T
      BY <2>8, <2>10, <2>11
    <2> QED
      BY <2>7, <2>12
  <1>3. \A x \in Texts : x \in T
    <2>1. << >> \in T /\ \A x \in Texts, a \in Seq(Character) : x \in T => Append(x, a) \in T
      BY <1>1, <1>2
    <2> HIDE DEF T
    <2> QED
      BY <2>1, SequenceInduction DEF Texts
  <1> QED
    BY <1>3

(* The loop reads written words back, the last of them still in arg. *)
LEMMA ReadArgs ==
    ASSUME NEW args \in Seq(Words)
    PROVE  LET scan == scan_args(encoded_args(args))
           IN  /\ scan.loop = "words"
               /\ push_arg(scan) = [loop |-> "words", args |-> args, arg |-> << >>]
  <1> DEFINE read(x) == [loop |-> "words", args |-> x, arg |-> << >>]
             T == {x \in Seq(Words) : /\ scan_args(encoded_args(x)).loop = "words"
                                      /\ push_arg(scan_args(encoded_args(x))) = read(x)}
  <1>1. << >> \in T
    <2>1. Start.loop = "words" /\ push_arg(Start) = read(<< >>)
      BY DEF Start, push_arg
    <2> QED
      BY <2>1, EmptySeq, EncodeEmpty, ScanEmpty
  <1>2. ASSUME NEW x \in Seq(Words), NEW a \in Words, x \in T
        PROVE  Append(x, a) \in T
    <2>1. x \in Texts /\ a \in Seq(Character) /\ a \in Seq(Plain) /\ a # << >>
      <3>1. Seq(Plain) \subseteq Seq(Character)
        BY SeqMonotonic DEF Plain
      <3>2. Words \subseteq Seq(Character)
        BY <3>1 DEF Words
      <3>3. x \in Texts
        BY <3>2, SeqMonotonic DEF Texts
      <3>4. a \in Seq(Plain) /\ a # << >>
        BY DEF Words
      <3> QED
        BY <3>2, <3>3, <3>4
    <2>2. PICK e : e = encoded_args(x)
      OBVIOUS
    <2>3. PICK scan : scan = scan_args(e)
      OBVIOUS
    <2>4. /\ e \in Seq(Character) /\ scan \in Scan
          /\ scan.loop = "words" /\ push_arg(scan) = read(x)
      BY <1>2, <2>1, <2>2, <2>3, EncodeType, ScanType
    <2>5. PICK f : f = e \o <<Space>>
      OBVIOUS
    <2>6. Space \in Character
      BY DEF Character
    <2>7. f = Append(e, Space) /\ f \in Seq(Character)
      BY <2>4, <2>5, <2>6, AppendIsConcat, AppendProperties
    <2>8. scan_args(f) = read(x)
      <3>1. scan_args(f) = next_char(scan, Space)
        BY <2>3, <2>4, <2>6, <2>7, ScanAppend
      <3>2. next_char(scan, Space) = push_arg(scan)
        BY <2>4, Marks DEF next_char
      <3> QED
        BY <2>4, <3>1, <3>2
    <2>9. PICK y : y = Append(x, a)
      OBVIOUS
    <2>10. encoded_args(y) = f \o a
      BY <2>1, <2>2, <2>5, <2>9, EncodeAppend
    <2>11. scan_args(f \o a) = [loop |-> "words", args |-> x, arg |-> a]
      <3>1. scan_args(f).loop = "words" /\ scan_args(f).args = x /\ scan_args(f).arg = << >>
        BY <2>8
      <3>2. scan_args(f \o a) = [loop |-> "words", args |-> scan_args(f).args, arg |-> a]
        BY <2>1, <2>7, <3>1, ReadWord
      <3> QED
        BY <3>1, <3>2
    <2>12. push_arg([loop |-> "words", args |-> x, arg |-> a]) = read(y)
      BY <2>1, <2>9 DEF push_arg
    <2>13. y \in Seq(Words)
      BY <2>9, AppendProperties
    <2>14. y \in T
      <3>1. PICK z : z = scan_args(encoded_args(y))
        OBVIOUS
      <3>2. z = [loop |-> "words", args |-> x, arg |-> a]
        BY <2>10, <2>11, <3>1
      <3>3. z.loop = "words" /\ push_arg(z) = read(y)
        BY <2>12, <3>2
      <3> HIDE DEF read
      <3> QED
        BY <2>13, <3>1, <3>3
    <2> QED
      BY <2>9, <2>14
  <1>3. \A x \in Seq(Words) : x \in T
    <2> HIDE DEF T
    <2> QED
      BY <1>1, <1>2, SequenceInduction
  <1> QED
    BY <1>3

(* At the newline the arguments are complete. *)
LEMMA ReadMessageArgs ==
    ASSUME NEW args \in Seq(Words)
    PROVE  scan_args(encoded_args(args) \o <<Newline>>) =
              [loop |-> "done", args |-> args, arg |-> << >>]
  <1>1. args \in Texts
    <2>1. Seq(Plain) \subseteq Seq(Character)
      BY SeqMonotonic DEF Plain
    <2>2. Words \subseteq Seq(Character)
      BY <2>1 DEF Words
    <2> QED
      BY <2>2, SeqMonotonic DEF Texts
  <1>2. PICK e : e = encoded_args(args)
    OBVIOUS
  <1>3. e \in Seq(Character) /\ Newline \in Character
    BY <1>1, <1>2, EncodeType DEF Character
  <1>4. e \o <<Newline>> = Append(e, Newline)
    BY <1>3, AppendIsConcat
  <1>5. scan_args(e \o <<Newline>>) = next_char(scan_args(e), Newline)
    BY <1>3, <1>4, ScanAppend
  <1>6. /\ scan_args(e).loop = "words"
        /\ push_arg(scan_args(e)) = [loop |-> "words", args |-> args, arg |-> << >>]
    BY <1>2, ReadArgs
  <1>7. next_char(scan_args(e), Newline) = [push_arg(scan_args(e)) EXCEPT !.loop = "done"]
    BY <1>6, Marks DEF next_char
  <1>8. next_char(scan_args(e), Newline) = [loop |-> "done", args |-> args, arg |-> << >>]
    BY <1>6, <1>7
  <1> QED
    BY <1>2, <1>5, <1>8

-----------------------------------------------------------------------------
(* The type of a message.                                                    *)

(* In a line that ends in a newline the type starts and ends somewhere, and  *)
(* what follows it starts with a space or is the newline.                    *)
LEMMA TypeBounds ==
    ASSUME NEW s \in Seq(Character), s # << >>, s[Len(s)] = Newline
    PROVE  /\ type_start(s) \in 1 .. Len(s)
           /\ s[type_start(s)] # Space
           /\ \A j \in 1 .. type_start(s) - 1 : s[j] = Space
           /\ type_end(s) \in type_start(s) .. Len(s)
           /\ s[type_end(s)] \in {Space, Newline}
           /\ \A j \in type_start(s) .. type_end(s) - 1 : s[j] \notin {Space, Newline}
  <1>1. Len(s) \in Nat \ {0}
    BY EmptySeq
  <1> DEFINE P(i) == s[i] # Space /\ \A j \in 1 .. i - 1 : s[j] = Space
  <1>2. \E i \in 1 .. Len(s) : P(i)
    <2> DEFINE T == {i \in 1 .. Len(s) : s[i] # Space}
    <2>1. Len(s) \in T
      BY <1>1, Marks
    <2>2. T \subseteq Nat
      OBVIOUS
    <2> HIDE DEF T
    <2>3. PICK i \in T : \A j \in T : i <= j
      BY <2>1, <2>2, LeastNumber
    <2> USE DEF T
    <2>4. \A j \in 1 .. i - 1 : j \notin T
      BY <1>1, <2>3
    <2> QED
      BY <1>1, <2>3, <2>4
  <1>3. type_start(s) = CHOOSE i \in 1 .. Len(s) : P(i)
    BY DEF type_start
  <1>4. type_start(s) \in 1 .. Len(s) /\ P(type_start(s))
    <2> HIDE DEF P
    <2> QED
      BY <1>2, <1>3
  <1>5. PICK k : k = type_start(s)
    OBVIOUS
  <1> DEFINE Q(i) == /\ s[i] \in {Space, Newline}
                     /\ \A j \in k .. i - 1 : s[j] \notin {Space, Newline}
  <1>6. \E i \in k .. Len(s) : Q(i)
    <2> DEFINE T == {i \in k .. Len(s) : s[i] \in {Space, Newline}}
    <2>1. k \in 1 .. Len(s)
      BY <1>4, <1>5
    <2>2. Len(s) \in T
      BY <1>1, <2>1
    <2>3. T \subseteq Nat
      BY <1>1, <2>1
    <2> HIDE DEF T
    <2>4. PICK i \in T : \A j \in T : i <= j
      BY <2>2, <2>3, LeastNumber
    <2> USE DEF T
    <2>5. \A j \in k .. i - 1 : j \notin T
      BY <1>1, <2>1, <2>4
    <2> QED
      BY <1>1, <2>1, <2>4, <2>5
  <1>7. type_end(s) = CHOOSE i \in k .. Len(s) : Q(i)
    BY <1>5 DEF type_end
  <1>8. type_end(s) \in k .. Len(s) /\ Q(type_end(s))
    <2> HIDE DEF Q
    <2> QED
      BY <1>6, <1>7
  <1> QED
    BY <1>4, <1>5, <1>8

(* What follows the type. *)
LEMMA TailType ==
    ASSUME NEW s \in Seq(Character), s # << >>, s[Len(s)] = Newline
    PROVE  /\ tail(s) \in Seq(Character)
           /\ Len(tail(s)) = Len(s) - type_end(s) + 1
           /\ Len(tail(s)) \in Nat \ {0}
           /\ tail(s)[1] \in {Space, Newline}
           /\ tail(s)[Len(tail(s))] = Newline
           /\ \A i \in 1 .. Len(tail(s)) : tail(s)[i] = s[type_end(s) + i - 1]
  <1>1. Len(s) \in Nat \ {0}
    BY EmptySeq
  <1>2. PICK k : k = type_end(s)
    OBVIOUS
  <1>3. k \in 1 .. Len(s) /\ s[k] \in {Space, Newline}
    BY <1>1, <1>2, TypeBounds
  <1>4. \A i \in k .. Len(s) : s[i] \in Character
    BY <1>1, <1>3, ElementOfSeq
  <1>5. PICK t : t = SubSeq(s, k, Len(s))
    OBVIOUS
  <1>6. k \in Int /\ Len(s) \in Int
    BY <1>1, <1>3
  <1>7. /\ t \in Seq(Character)
        /\ Len(t) = IF k <= Len(s) THEN Len(s) - k + 1 ELSE 0
        /\ \A i \in 1 .. Len(s) - k + 1 : t[i] = s[k + i - 1]
    BY <1>4, <1>5, <1>6, SubSeqProperties
  <1>8. tail(s) = t
    BY <1>2, <1>5 DEF tail
  <1>9. Len(t) = Len(s) - k + 1 /\ Len(t) \in Nat \ {0}
    BY <1>1, <1>3, <1>7
  <1>10. t[1] = s[k] /\ t[Len(t)] = s[Len(s)]
    BY <1>1, <1>3, <1>7, <1>9
  <1> QED
    BY <1>2, <1>3, <1>7, <1>8, <1>9, <1>10

(* The line encode writes. *)
LEMMA EncodedLine ==
    ASSUME NEW ty \in MessageType, NEW args \in Texts, ty = "NONE" => args = << >>
    PROVE  LET e == encoded_msg([type |-> ty, args |-> args])
           IN  /\ e \in Seq(Character) /\ e # << >> /\ e[Len(e)] = Newline
               /\ Len(e) = Len(encoded_args(args)) + (IF ty = "NONE" THEN 1 ELSE 2)
               /\ stringToMessageType(SubSeq(e, type_start(e), type_end(e) - 1)) = ty
               /\ tail(e) = encoded_args(args) \o <<Newline>>
  <1>1. PICK x : x = encoded_args(args)
    OBVIOUS
  <1>2. x \in Seq(Character) /\ (x # << >> => x[1] = Space) /\ Len(x) \in Nat
    BY <1>1, EncodeType, EncodeStart, LenProperties
  <1>3. PICK nl : nl = <<Newline>>
    OBVIOUS
  <1>4. nl \in Seq(Character) /\ Len(nl) = 1 /\ nl[1] = Newline
    BY <1>3 DEF Character
  <1>5. PICK r : r = x \o nl
    OBVIOUS
  <1>6. /\ r \in Seq(Character)
        /\ Len(r) = Len(x) + 1
        /\ \A i \in 1 .. Len(x) + 1 : r[i] = IF i <= Len(x) THEN x[i] ELSE nl[i - Len(x)]
    <2>1. /\ r \in Seq(Character)
          /\ Len(r) = Len(x) + Len(nl)
          /\ \A i \in 1 .. Len(x) + Len(nl) :
                r[i] = IF i <= Len(x) THEN x[i] ELSE nl[i - Len(x)]
      BY <1>2, <1>4, <1>5, ConcatProperties
    <2> QED
      BY <1>4, <2>1
  <1>7. r[Len(r)] = Newline /\ r[1] \in {Space, Newline}
    <2>1. r[Len(x) + 1] = Newline
      BY <1>2, <1>4, <1>6
    <2>2. CASE Len(x) = 0
      BY <1>6, <2>1, <2>2
    <2>3. CASE Len(x) # 0
      <3>1. x # << >>
        BY <2>3, EmptySeq
      <3> QED
        BY <1>2, <1>6, <2>1, <2>3, <3>1
    <2> QED
      BY <2>2, <2>3
  <1>8. PICK e : e = encoded_msg([type |-> ty, args |-> args])
    OBVIOUS
  <1>9. CASE ty = "NONE"
    <2>1. x = << >>
      BY <1>1, <1>9, EncodeEmpty
    <2>2. << >> \o x = x
      BY <1>2, ConcatEmptySeq
    <2>3. e = r
      BY <1>1, <1>3, <1>5, <1>8, <1>9, <2>2 DEF encoded_msg, messageTypeToString
    <2>4. Len(r) = 1 /\ Len(x) = 0 /\ r # << >>
      BY <1>6, <2>1, EmptySeq
    <2>5. type_end(r) = 1 /\ type_start(r) = 1
      BY <1>6, <1>7, <2>4, TypeBounds
    <2>6. SubSeq(r, 1, 0) = << >>
      <3>1. \A m, k \in Int : k < m => SubSeq(r, m, k) = << >>
        BY SubSeqEmpty
      <3> QED
        BY <3>1
    <2>7. stringToMessageType(<< >>) = "NONE"
      BY EmptySeq DEF stringToMessageType
    <2>8. SubSeq(r, type_start(r), type_end(r) - 1) = << >>
      BY <2>5, <2>6
    <2>9. tail(r) = r
      BY <1>6, <2>4, <2>5, SubSeqFull DEF tail
    <2> QED
      BY <1>1, <1>3, <1>5, <1>6, <1>7, <1>8, <1>9, <2>3, <2>4, <2>7, <2>8, <2>9
  <1>10. CASE ty # "NONE"
    <2>1. PICK t : t = <<ty>>
      OBVIOUS
    <2>2. t \in Seq(Character) /\ Len(t) = 1 /\ t[1] = ty
      BY <2>1 DEF Character
    <2>3. e = (t \o x) \o nl
      BY <1>1, <1>3, <1>8, <1>10, <2>1 DEF encoded_msg, messageTypeToString
    <2>4. e = t \o r
      <3>1. (t \o x) \o nl = t \o (x \o nl)
        BY <1>2, <1>4, <2>2, ConcatAssociative
      <3> QED
        BY <1>5, <2>3, <3>1
    <2>5. /\ e \in Seq(Character)
          /\ Len(e) = 1 + Len(r)
          /\ \A i \in 1 .. 1 + Len(r) : e[i] = IF i <= 1 THEN t[i] ELSE r[i - 1]
      <3>1. /\ e \in Seq(Character)
            /\ Len(e) = Len(t) + Len(r)
            /\ \A i \in 1 .. Len(t) + Len(r) :
                  e[i] = IF i <= Len(t) THEN t[i] ELSE r[i - Len(t)]
        BY <1>6, <2>2, <2>4, ConcatProperties
      <3> QED
        BY <2>2, <3>1
    <2>6. e[1] = ty /\ e[2] = r[1] /\ e[Len(e)] = Newline /\ e # << >>
      BY <1>2, <1>6, <1>7, <2>2, <2>5, EmptySeq
    <2>7. ty \notin {Space, Newline}
      BY Marks DEF Plain
    <2>8. type_start(e) = 1
      <3>1. /\ type_start(e) \in 1 .. Len(e)
            /\ \A j \in 1 .. type_start(e) - 1 : e[j] = Space
        BY <2>5, <2>6, TypeBounds
      <3>2. ~ (1 \in 1 .. type_start(e) - 1)
        BY <2>6, <2>7, <3>1
      <3> QED
        BY <1>2, <1>6, <2>5, <3>1, <3>2
    <2>9. type_end(e) = 2
      <3>1. /\ type_end(e) \in 1 .. Len(e)
            /\ e[type_end(e)] \in {Space, Newline}
            /\ \A j \in 1 .. type_end(e) - 1 : e[j] \notin {Space, Newline}
        BY <2>5, <2>6, <2>8, TypeBounds
      <3>2. type_end(e) # 1
        BY <2>6, <2>7, <3>1
      <3>3. ~ (2 \in 1 .. type_end(e) - 1)
        BY <1>7, <2>6, <3>1
      <3> QED
        BY <1>2, <1>6, <2>5, <3>1, <3>2, <3>3
    <2>10. stringToMessageType(SubSeq(e, type_start(e), type_end(e) - 1)) = ty
      <3>1. PICK u : u = SubSeq(e, 1, 1)
        OBVIOUS
      <3>2. \A i \in 1 .. 1 : e[i] \in Character
        BY <2>6 DEF Character
      <3>3. Len(u) = 1 /\ u[1] = e[1]
        BY <3>1, <3>2, SubSeqProperties
      <3>4. stringToMessageType(u) = ty
        BY <2>6, <3>3 DEF stringToMessageType
      <3>5. type_end(e) - 1 = 1
        BY <2>9
      <3> QED
        BY <2>8, <3>1, <3>4, <3>5
    <2>11. tail(e) = r
      <3>1. /\ tail(e) \in Seq(Character)
            /\ Len(tail(e)) = Len(r)
            /\ \A i \in 1 .. Len(r) : tail(e)[i] = r[i]
        <4>1. /\ tail(e) \in Seq(Character)
              /\ Len(tail(e)) = Len(e) - type_end(e) + 1
              /\ \A i \in 1 .. Len(tail(e)) : tail(e)[i] = e[type_end(e) + i - 1]
          BY <2>5, <2>6, TailType
        <4>2. Len(tail(e)) = Len(r) /\ Len(r) \in Nat
          BY <1>2, <1>6, <2>5, <2>9, <4>1
        <4>3. ASSUME NEW i \in 1 .. Len(r) PROVE tail(e)[i] = r[i]
          <5>1. tail(e)[i] = e[i + 1]
            BY <2>9, <4>1, <4>2
          <5>2. i + 1 \in 1 .. 1 + Len(r) /\ ~ (i + 1 <= 1) /\ (i + 1) - 1 = i
            BY <4>2
          <5>3. e[i + 1] = r[(i + 1) - 1]
            BY <2>5, <5>2
          <5> QED
            BY <5>1, <5>2, <5>3
        <4> QED
          BY <4>1, <4>2, <4>3
      <3> QED
        BY <1>6, <3>1, SeqEqual
    <2> QED
      BY <1>1, <1>3, <1>5, <1>6, <1>8, <1>10, <2>5, <2>6, <2>10, <2>11
  <1> QED
    BY <1>9, <1>10

-----------------------------------------------------------------------------
(* decode after encode.                                                      *)

(* A message without a type takes no argument. *)
LEMMA ValidMessage ==
    ASSUME NEW ty \in MessageType, NEW args \in Texts,
           is_valid([type |-> ty, args |-> args])
    PROVE  /\ Len(args) \in 0 .. 2
           /\ ty = "NONE" => args = << >>
  <1>1. Len(args) = ArgumentCount[ty] /\ Len(args) \in Nat
    BY LenProperties DEF is_valid, Texts
  <1>2. ArgumentCount[ty] \in 0 .. 2 /\ (ty = "NONE" => ArgumentCount[ty] = 0)
    BY DEF ArgumentCount, OneArgument, TwoArguments
  <1>3. Len(args) = 0 => args = << >>
    BY EmptySeq DEF Texts
  <1> QED
    BY <1>1, <1>2, <1>3

(* A valid message comes back from its encoding if and only if its arguments *)
(* are words.                                                                *)
LEMMA DecodeOfEncoded ==
    ASSUME NEW ty \in MessageType, NEW args \in Texts,
           is_valid([type |-> ty, args |-> args]),
           encodable([type |-> ty, args |-> args])
    PROVE  decode(encoded_msg([type |-> ty, args |-> args]))
                 = Returns([type |-> ty, args |-> args])
              <=> args \in Seq(Words)
  <1>1. PICK m : m = [type |-> ty, args |-> args]
    OBVIOUS
  <1>2. m.type = ty /\ m.args = args /\ is_valid(m) /\ encodable(m)
    BY <1>1
  <1>3. PICK e : e = encoded_msg(m)
    OBVIOUS
  <1>4. PICK x : x = encoded_args(args)
    OBVIOUS
  <1>5. PICK r : r = x \o <<Newline>>
    OBVIOUS
  <1>6. /\ e \in Seq(Character) /\ e # << >> /\ e[Len(e)] = Newline
        /\ stringToMessageType(SubSeq(e, type_start(e), type_end(e) - 1)) = ty
        /\ tail(e) = r
    BY <1>1, <1>3, <1>4, <1>5, EncodedLine, ValidMessage
  <1>7. ~ (Len(e) > MaxLen)
    <2>1. Len(e) \in Nat /\ MaxLen \in Nat
      BY <1>6, LenProperties, MessageSerializationAssumption
    <2>2. Len(e) <= MaxLen
      BY <1>2, <1>3 DEF encodable
    <2> QED
      BY <2>1, <2>2
  <1>8. PICK scan : scan = scan_args(r)
    OBVIOUS
  <1>9. decode(e) = IF scan.loop = "quoted" /\ Len(e) < MaxLen
                    THEN Throws("out_of_range")
                    ELSE IF is_valid([type |-> ty, args |-> scan.args])
                         THEN Returns([type |-> ty, args |-> scan.args])
                         ELSE Throws("InvalidMessage")
    BY <1>6, <1>7, <1>8 DEF decode
  <1>10. ASSUME args \in Seq(Words) PROVE decode(e) = Returns(m)
    <2>1. scan = [loop |-> "done", args |-> args, arg |-> << >>]
      BY <1>4, <1>5, <1>8, <1>10, ReadMessageArgs
    <2>2. scan.loop # "quoted" /\ scan.args = args
      BY <2>1
    <2> QED
      BY <1>1, <1>2, <1>9, <2>2
  <1>11. ASSUME decode(e) = Returns(m) PROVE args \in Seq(Words)
    <2>1. decode(e).throws = "nothing" /\ decode(e).args = args
      BY <1>2, <1>11 DEF Returns
    <2>2. decode(e) = Returns([type |-> ty, args |-> scan.args])
      BY <1>9, <2>1 DEF Throws
    <2>3. scan.args = args
      BY <2>1, <2>2 DEF Returns
    <2>4. r \in Seq(Character)
      BY <1>6, TailType
    <2>5. args \in Seq(Seq(NotQuote))
      BY <1>8, <2>3, <2>4, ArgsHaveNoQuote
    <2>6. x \in Seq(NotQuote)
      BY <1>4, <2>5, Marks, EncodeOver
    <2>7. <<Newline>> \in Seq(NotQuote)
      BY Marks
    <2>8. r \in Seq(NotQuote)
      BY <1>5, <2>6, <2>7, ConcatProperties
    <2> QED
      BY <1>8, <2>3, <2>8, ArgsWithoutQuotes
  <1> QED
    BY <1>1, <1>3, <1>10, <1>11

(* Arguments that are words one by one. *)
LEMMA ArgsAreWords ==
    ASSUME NEW args \in Texts
    PROVE  args \in Seq(Words) <=> \A i \in 1 .. Len(args) : OneWord(args[i])
  <1>1. \A i \in 1 .. Len(args) : args[i] \in Seq(Character)
    BY ElementOfSeq DEF Texts
  <1>2. \A i \in 1 .. Len(args) : OneWord(args[i]) <=> args[i] \in Words
    BY <1>1, OneWordIsWord
  <1>3. ASSUME args \in Seq(Words) PROVE \A i \in 1 .. Len(args) : args[i] \in Words
    BY <1>3, ElementOfSeq
  <1>4. ASSUME \A i \in 1 .. Len(args) : args[i] \in Words PROVE args \in Seq(Words)
    BY <1>4, SeqOver DEF Texts
  <1> QED
    BY <1>2, <1>3, <1>4

-----------------------------------------------------------------------------
(* The texts of the specification.                                           *)

(* Every text of the specification is a sequence of its characters. *)
LEMMA TextType == Spec => [](text \in Seq(Char))
  <1>1. Init => text \in Seq(Char)
    BY EmptySeq DEF Init
  <1>2. text \in Seq(Char) /\ [Next]_text => (text \in Seq(Char))'
    BY AppendProperties DEF Next
  <1> QED
    BY <1>1, <1>2, PTL DEF Spec

(* A message comes back from decode as encode was given it exactly if its    *)
(* arguments are words.                                                      *)
THEOREM DecodeInverts == Spec => []DecodeInvertsEncode
  <1>1. ASSUME text \in Seq(Char) PROVE DecodeInvertsEncode
    <2> SUFFICES ASSUME NEW m \in Messages, is_valid(m), encodable(m)
                 PROVE  decode(encoded_msg(m)) = Returns(m)
                           <=> \A i \in 1 .. Len(m.args) : OneWord(m.args[i])
      BY DEF DecodeInvertsEncode
    <2>1. text \in Seq(Character) /\ Len(text) \in Nat
      BY <1>1, SeqMonotonic, LenProperties DEF Character
    <2>2. /\ m.type \in MessageType
          /\ m = [type |-> m.type, args |-> m.args]
          /\ \/ m.args = << >>
             \/ m.args = <<text>>
             \/ \E i \in 1 .. Len(text) :
                   m.args = <<SubSeq(text, 1, i), SubSeq(text, i + 1, Len(text))>>
      BY DEF Messages
    <2>3. m.args \in Texts
      <3>1. CASE m.args = << >>
        BY <3>1, EmptySeq DEF Texts
      <3>2. CASE m.args = <<text>>
        BY <2>1, <3>2 DEF Texts
      <3>3. ASSUME NEW i \in 1 .. Len(text),
                   m.args = <<SubSeq(text, 1, i), SubSeq(text, i + 1, Len(text))>>
            PROVE  m.args \in Texts
        <4>1. \A j \in 1 .. Len(text) : text[j] \in Character
          BY <2>1, ElementOfSeq
        <4>2. PICK a : a = SubSeq(text, 1, i)
          OBVIOUS
        <4>3. PICK b : b = SubSeq(text, i + 1, Len(text))
          OBVIOUS
        <4>4. a \in Seq(Character) /\ b \in Seq(Character)
          BY <2>1, <4>1, <4>2, <4>3, SubSeqProperties
        <4>5. m.args = <<a, b>>
          BY <3>3, <4>2, <4>3
        <4> QED
          BY <4>4, <4>5 DEF Texts
      <3> QED
        BY <2>2, <3>1, <3>2, <3>3
    <2>4. decode(encoded_msg(m)) = Returns(m) <=> m.args \in Seq(Words)
      BY <2>2, <2>3, DecodeOfEncoded
    <2> QED
      BY <2>3, <2>4, ArgsAreWords
  <1> QED
    BY <1>1, TextType, PTL

-----------------------------------------------------------------------------
(* How long the canonical encoding is.                                       *)

(* An argument takes its characters and one more. *)
LEMMA EncodeLength ==
    ASSUME NEW args \in Texts, NEW a \in Seq(Character)
    PROVE  /\ Len(encoded_args(args)) \in Nat
           /\ Len(encoded_args(Append(args, a))) = Len(encoded_args(args)) + 1 + Len(a)
  <1>1. PICK x : x = encoded_args(args)
    OBVIOUS
  <1>2. PICK sp : sp = <<Space>>
    OBVIOUS
  <1>3. PICK f : f = x \o sp
    OBVIOUS
  <1>4. x \in Seq(Character) /\ sp \in Seq(Character) /\ Len(sp) = 1 /\ Len(x) \in Nat
    BY <1>1, <1>2, EncodeType, LenProperties DEF Character
  <1>5. f \in Seq(Character) /\ Len(f) = Len(x) + Len(sp)
    BY <1>3, <1>4, ConcatProperties
  <1>6. Len(f \o a) = Len(f) + Len(a)
    BY <1>5, ConcatProperties
  <1>7. encoded_args(Append(args, a)) = f \o a
    BY <1>1, <1>2, <1>3, EncodeAppend
  <1> QED
    BY <1>1, <1>4, <1>5, <1>6, <1>7

(* In what follows a type, every argument took a character of the line       *)
(* besides its own, and so did the first space.                              *)
LEMMA ArgsFitTheLine ==
    ASSUME NEW s \in Seq(Character), s # << >>, s[1] \in {Space, Newline}
    PROVE  /\ Len(encoded_args(scan_args(s).args)) \in Nat
           /\ Len(encoded_args(scan_args(s).args)) + 1 <= Len(s)
  <1> DEFINE size(scan) == Len(encoded_args(scan.args)) + Len(scan.arg) + 1
             T == {t \in Seq(Character) :
                      t # << >> /\ t[1] \in {Space, Newline} => size(scan_args(t)) <= Len(t)}
  <1>1. << >> \in T
    BY EmptySeq
  <1>2. ASSUME NEW t \in Seq(Character), NEW c \in Character, t \in T
        PROVE  Append(t, c) \in T
    <2>1. PICK u : u = Append(t, c)
      OBVIOUS
    <2>2. /\ u \in Seq(Character) /\ Len(u) = Len(t) + 1 /\ Len(t) \in Nat
          /\ \A i \in 1 .. Len(t) : u[i] = t[i]
          /\ u[Len(t) + 1] = c
      BY <2>1, AppendProperties, LenProperties
    <2>3. PICK scan : scan = scan_args(t)
      OBVIOUS
    <2>4. PICK n : n = next_char(scan, c)
      OBVIOUS
    <2>5. scan \in Scan /\ n = scan_args(u)
      BY <2>1, <2>3, <2>4, ScanType, ScanAppend
    <2>6. scan.args \in Texts /\ scan.arg \in Seq(Character) /\ Len(scan.arg) \in Nat
      BY <2>5, LenProperties DEF Scan, Texts
    <2>7. PICK more : more = Append(scan.args, scan.arg)
      OBVIOUS
    <2>8. PICK longer : longer = Append(scan.arg, c)
      OBVIOUS
    <2>9. Turn(scan, c, n, more, longer)
      BY <2>4, <2>5, <2>7, <2>8, NextCharTurn
    <2>10. /\ Len(encoded_args(scan.args)) \in Nat
           /\ Len(encoded_args(more)) = Len(encoded_args(scan.args)) + 1 + Len(scan.arg)
           /\ Len(longer) = Len(scan.arg) + 1
           /\ Len(<< >>) = 0
      <3>1. /\ Len(encoded_args(scan.args)) \in Nat
            /\ Len(encoded_args(more)) = Len(encoded_args(scan.args)) + 1 + Len(scan.arg)
        BY <2>6, <2>7, EncodeLength
      <3>2. Len(longer) = Len(scan.arg) + 1
        BY <2>6, <2>8, AppendProperties
      <3> QED
        BY <3>1, <3>2, EmptySeq
    <2>11. PICK x \in Nat : x = Len(encoded_args(scan.args))
      BY <2>10
    <2>12. PICK y \in Nat : y = Len(scan.arg)
      BY <2>6
    <2>13. ASSUME u[1] \in {Space, Newline}
           PROVE  size(n) <= Len(u)
      <3>1. CASE t = << >>
        <4>1. Len(t) = 0 /\ c \in {Space, Newline} /\ Len(u) = 1
          BY <2>2, <2>13, <3>1, EmptySeq
        <4>2. scan = Start
          BY <2>3, <3>1, ScanEmpty
        <4>3. scan.loop = "words" /\ scan.args = << >> /\ scan.arg = << >>
          BY <4>2 DEF Start
        <4>4. n.args = << >> /\ n.arg = << >>
          BY <2>9, <4>1, <4>3 DEF Turn
        <4>5. Len(encoded_args(<< >>)) = 0
          BY EncodeEmpty, EmptySeq
        <4>6. size(n) = 0 + 0 + 1
          BY <2>10, <4>4, <4>5
        <4> HIDE DEF size
        <4> QED
          BY <4>1, <4>6
      <3>2. CASE t # << >>
        <4>1. Len(t) \in Nat \ {0}
          BY <3>2, EmptySeq
        <4>2. t[1] \in {Space, Newline}
          BY <2>2, <2>13, <4>1
        <4>3. size(scan) <= Len(t)
          <5> HIDE DEF size
          <5> QED
            BY <1>2, <2>3, <3>2, <4>2
        <4>4. x + y + 1 <= Len(t)
          BY <2>11, <2>12, <4>3
        <4>5. n.args = scan.args /\ n.arg = scan.arg => size(n) = x + y + 1
          BY <2>11, <2>12
        <4>6. n.args = more /\ n.arg = << >> => size(n) = (x + 1 + y) + 0 + 1
          BY <2>10, <2>11, <2>12
        <4>7. n.args = scan.args /\ n.arg = << >> => size(n) = x + 0 + 1
          BY <2>10, <2>11
        <4>8. n.args = scan.args /\ n.arg = longer => size(n) = x + (y + 1) + 1
          BY <2>10, <2>11, <2>12
        <4>9. \/ n.args = scan.args /\ n.arg = scan.arg
              \/ n.args = more /\ n.arg = << >>
              \/ n.args = scan.args /\ n.arg = << >>
              \/ n.args = scan.args /\ n.arg = longer
          <5>1. scan.loop \in {"words", "quoted", "done"}
            BY <2>5 DEF Scan
          <5> QED
            BY <2>9, <5>1 DEF Turn
        <4> HIDE DEF size
        <4> QED
          BY <2>2, <4>4, <4>5, <4>6, <4>7, <4>8, <4>9
      <3> QED
        BY <3>1, <3>2
    <2>14. u \in T
      <3> HIDE DEF size
      <3> QED
        BY <2>2, <2>5, <2>13
    <2> QED
      BY <2>1, <2>14
  <1>3. \A t \in Seq(Character) : t \in T
    <2> HIDE DEF T
    <2> QED
      BY <1>1, <1>2, SequenceInduction
  <1>4. size(scan_args(s)) <= Len(s)
    <2> HIDE DEF size
    <2> QED
      BY <1>3
  <1>5. scan_args(s) \in Scan
    BY ScanType
  <1>6. Len(scan_args(s).arg) \in Nat /\ scan_args(s).args \in Texts
    BY <1>5, LenProperties DEF Scan, Texts
  <1>7. Len(encoded_args(scan_args(s).args)) \in Nat /\ Len(s) \in Nat
    BY <1>6, EncodeType, LenProperties
  <1>8. PICK x \in Nat : x = Len(encoded_args(scan_args(s).args))
    BY <1>7
  <1>9. PICK y \in Nat : y = Len(scan_args(s).arg)
    BY <1>6
  <1>10. x + y + 1 <= Len(s)
    BY <1>4, <1>8, <1>9
  <1>11. x + 1 <= Len(s)
    <2> HIDE DEF size
    <2> QED
      BY <1>7, <1>10
  <1> QED
    BY <1>8, <1>11

(* What an accepted line is. *)
LEMMA AcceptedLine ==
    ASSUME NEW s \in Seq(Character), decode(s).throws = "nothing"
    PROVE  /\ s # << >> /\ s[Len(s)] = Newline /\ Len(s) <= MaxLen
           /\ scan_args(tail(s)).loop = "quoted" => Len(s) = MaxLen
           /\ decode(s).type \in MessageType
           /\ decode(s).type = stringToMessageType(SubSeq(s, type_start(s), type_end(s) - 1))
           /\ decode(s).args = scan_args(tail(s)).args
           /\ is_valid([type |-> decode(s).type, args |-> decode(s).args])
           /\ decode(s) = Returns([type |-> decode(s).type, args |-> decode(s).args])
  <1>1. Len(s) \in Nat /\ MaxLen \in Nat
    BY LenProperties, MessageSerializationAssumption
  <1>2. s # << >> /\ s[Len(s)] = Newline /\ ~ (Len(s) > MaxLen)
    BY DEF decode, Throws
  <1>3. PICK scan : scan = scan_args(tail(s))
    OBVIOUS
  <1>4. PICK ty : ty = stringToMessageType(SubSeq(s, type_start(s), type_end(s) - 1))
    OBVIOUS
  <1>5. decode(s) = IF scan.loop = "quoted" /\ Len(s) < MaxLen
                    THEN Throws("out_of_range")
                    ELSE IF is_valid([type |-> ty, args |-> scan.args])
                         THEN Returns([type |-> ty, args |-> scan.args])
                         ELSE Throws("InvalidMessage")
    BY <1>2, <1>3, <1>4 DEF decode
  <1>6. /\ ~ (scan.loop = "quoted" /\ Len(s) < MaxLen)
        /\ is_valid([type |-> ty, args |-> scan.args])
        /\ decode(s) = Returns([type |-> ty, args |-> scan.args])
    BY <1>5 DEF Throws
  <1>7. decode(s).type = ty /\ decode(s).args = scan.args
    BY <1>6 DEF Returns
  <1>8. ty \in MessageType
    BY <1>4 DEF stringToMessageType, MessageType
  <1> QED
    BY <1>1, <1>2, <1>3, <1>4, <1>6, <1>7, <1>8

(* The arguments of a valid message that is no answer in words are words, if *)
(* no quote is in them.                                                      *)
LEMMA ValidArgsAreWords ==
    ASSUME NEW ty \in MessageType \ {"FAILED", "ERROR"}, NEW args \in Seq(Seq(NotQuote)),
           is_valid([type |-> ty, args |-> args])
    PROVE  args \in Seq(Words)
  <1>1. args \in Texts
    <2>1. Seq(NotQuote) \subseteq Seq(Character)
      BY Marks, SeqMonotonic
    <2> QED
      BY <2>1, SeqMonotonic DEF Texts
  <1>2. PICK m : m = [type |-> ty, args |-> args]
    OBVIOUS
  <1>3. m.type = ty /\ m.args = args /\ is_valid(m)
    BY <1>2
  <1>4. ASSUME NEW i \in 1 .. Len(args) PROVE OneWord(args[i])
    <2>1. args[i] \in Seq(NotQuote)
      BY ElementOfSeq
    <2>2. \A j \in 1 .. Len(args[i]) : args[i][j] # Quote
      BY <2>1, ElementOfSeq DEF NotQuote
    <2>3. CASE ty \in {"LOGIN", "CREATE", "SET", "GET"}
      <3>1. identifier_is_valid(args[i])
        BY <1>3, <2>3 DEF is_valid
      <3>2. /\ Space \notin Letter \cup {"digit", "underscore"}
            /\ Newline \notin Letter \cup {"digit", "underscore"}
        BY DEF Letter, MessageType, Space, Newline
      <3>3. \A j \in 1 .. Len(args[i]) : args[i][j] \in Letter \cup {"digit", "underscore"}
        <4>1. Len(args[i]) \in Nat
          BY <2>1, LenProperties
        <4> QED
          BY <3>1, <4>1 DEF identifier_is_valid
      <3> QED
        BY <2>2, <3>1, <3>2, <3>3 DEF OneWord, identifier_is_valid
    <2>4. CASE ty \in {"PUSH", "DATA"}
      <3>1. value_is_valid(args[i])
        BY <1>3, <2>4 DEF is_valid
      <3> QED
        BY <2>2, <3>1 DEF OneWord, value_is_valid
    <2>5. ty \in {"LOGIN", "CREATE", "SET", "GET", "PUSH", "DATA"}
      <3>1. Len(args) = ArgumentCount[ty] /\ Len(args) # 0
        <4>1. Len(args) \in Nat
          BY <1>1, LenProperties DEF Texts
        <4> QED
          BY <1>3, <4>1 DEF is_valid
      <3> QED
        BY <3>1 DEF ArgumentCount, OneArgument, TwoArguments
    <2> QED
      BY <2>3, <2>4, <2>5
  <1> QED
    BY <1>1, <1>4, ArgsAreWords

(* An accepted request or DATA message is the message of its canonical       *)
(* encoding, which is no longer than a line may be, and so is the DATA       *)
(* message with a value accepted in a PUSH.                                  *)
THEOREM AcceptedLinesCanonical == Spec => []AcceptedLinesAreCanonical
  <1>1. ASSUME text \in Seq(Char) PROVE AcceptedLinesAreCanonical
    <2> SUFFICES ASSUME Accepted, decoded.type \notin {"FAILED", "ERROR"},
                        NEW ty \in {decoded.type} \cup
                                   (IF decoded.type = "PUSH" THEN {"DATA"} ELSE {})
                 PROVE  LET m == [type |-> ty, args |-> decoded.args]
                        IN  encodable(m) /\ decode(encoded_msg(m)) = Returns(m)
      BY DEF AcceptedLinesAreCanonical
    <2>1. PICK s : s = text
      OBVIOUS
    <2>2. s \in Seq(Character) /\ decoded = decode(s) /\ decode(s).throws = "nothing"
      BY <1>1, <2>1, SeqMonotonic DEF Character, Accepted, decoded
    <2>3. PICK args : args = decode(s).args
      OBVIOUS
    <2>4. PICK t : t = tail(s)
      OBVIOUS
    <2>5. /\ s # << >> /\ s[Len(s)] = Newline /\ Len(s) <= MaxLen
          /\ Len(s) \in Nat \ {0} /\ MaxLen \in Nat
      BY <2>2, AcceptedLine, EmptySeq, MessageSerializationAssumption
    <2>6. /\ t \in Seq(Character) /\ t # << >> /\ t[1] \in {Space, Newline}
          /\ Len(t) = Len(s) - type_end(s) + 1
      BY <2>2, <2>4, <2>5, TailType, EmptySeq
    <2>7. args = scan_args(t).args /\ args \in Seq(Seq(NotQuote)) /\ args \in Texts
      <3>1. args = scan_args(t).args
        BY <2>2, <2>3, <2>4, AcceptedLine
      <3>2. args \in Seq(Seq(NotQuote))
        BY <2>6, <3>1, ArgsHaveNoQuote
      <3>3. args \in Texts
        BY <2>6, <3>1, ScanType DEF Scan, Texts
      <3> QED
        BY <3>1, <3>2, <3>3
    <2>8. PICK was : was = decode(s).type
      OBVIOUS
    <2>9. /\ was \in MessageType \ {"FAILED", "ERROR"}
          /\ is_valid([type |-> was, args |-> args])
          /\ was = stringToMessageType(SubSeq(s, type_start(s), type_end(s) - 1))
      BY <2>2, <2>3, <2>8, AcceptedLine
    <2>10. args \in Seq(Words)
      BY <2>7, <2>9, ValidArgsAreWords
    <2>11. ty = was \/ (was = "PUSH" /\ ty = "DATA")
      BY <2>2, <2>8
    <2>12. ty \in MessageType /\ is_valid([type |-> ty, args |-> args])
      <3>1. CASE ty = was
        BY <2>9, <3>1
      <3>2. CASE was = "PUSH" /\ ty = "DATA"
        <4>1. PICK m : m = [type |-> was, args |-> args]
          OBVIOUS
        <4>2. PICK d : d = [type |-> ty, args |-> args]
          OBVIOUS
        <4>3. /\ m.type = "PUSH" /\ m.args = args
              /\ d.type = "DATA" /\ d.args = args
          BY <3>2, <4>1, <4>2
        <4>4. /\ Len(args) = ArgumentCount["PUSH"]
              /\ \A i \in 1 .. Len(args) : value_is_valid(args[i])
          BY <2>9, <4>1, <4>3 DEF is_valid
        <4>5. ArgumentCount["PUSH"] = ArgumentCount["DATA"]
          BY DEF ArgumentCount, MessageType, OneArgument, TwoArguments
        <4>6. is_valid(d)
          BY <4>3, <4>4, <4>5 DEF is_valid
        <4> QED
          BY <3>2, <4>2, <4>6 DEF MessageType
      <3> QED
        BY <2>11, <3>1, <3>2
    <2>13. was = "NONE" <=> ty = "NONE"
      BY <2>11
    <2>14. ty # "NONE" => type_end(s) >= 2
      <3>1. type_end(s) \in Nat /\ type_start(s) \in Nat \ {0}
        BY <2>2, <2>5, TypeBounds
      <3>2. type_end(s) = 1 => SubSeq(s, type_start(s), type_end(s) - 1) = << >>
        <4>1. \A m, k \in Int : k < m => SubSeq(s, m, k) = << >>
          BY SubSeqEmpty
        <4> QED
          BY <3>1, <4>1
      <3>3. stringToMessageType(<< >>) = "NONE"
        BY EmptySeq DEF stringToMessageType
      <3>4. type_end(s) >= 1
        BY <2>2, <2>5, TypeBounds
      <3>5. type_end(s) = 1 => was = "NONE"
        BY <2>9, <3>2, <3>3
      <3> QED
        BY <2>13, <3>1, <3>4, <3>5
    <2>15. PICK m : m = [type |-> ty, args |-> args]
      OBVIOUS
    <2>16. encodable(m)
      <3>1. PICK x : x = Len(encoded_args(args))
        OBVIOUS
      <3>2. x \in Nat /\ x + 1 <= Len(t)
        BY <2>6, <2>7, <3>1, ArgsFitTheLine
      <3>3. ty = "NONE" => args = << >> /\ x = 0
        BY <2>7, <2>12, <3>1, ValidMessage, EncodeEmpty, EmptySeq
      <3>4. Len(encoded_msg(m)) = x + (IF ty = "NONE" THEN 1 ELSE 2)
        BY <2>7, <2>12, <2>15, <3>1, <3>3, EncodedLine
      <3>5. type_end(s) \in Nat
        BY <2>2, <2>5, TypeBounds
      <3>6. Len(encoded_msg(m)) <= MaxLen
        BY <2>5, <2>6, <2>14, <3>2, <3>3, <3>4, <3>5
      <3> QED
        BY <3>6 DEF encodable
    <2>17. decode(encoded_msg(m)) = Returns(m)
      BY <2>7, <2>10, <2>12, <2>15, <2>16, DecodeOfEncoded
    <2> QED
      BY <2>2, <2>3, <2>15, <2>16, <2>17
  <1> QED
    BY <1>1, TextType, PTL

-----------------------------------------------------------------------------
(* Quotes: which characters of a line are inside them.                       *)

Even(s) == Cardinality(Quotes(s)) % 2 = 0

(* u is s and one character more. *)
Extends(s, u) ==
    /\ u \in Seq(Character)
    /\ Len(u) = Len(s) + 1
    /\ \A i \in 1 .. Len(s) : u[i] = s[i]

(* Appending a character is an extension. *)
LEMMA AppendExtends ==
    ASSUME NEW s \in Seq(Character), NEW c \in Character
    PROVE  /\ Extends(s, Append(s, c))
           /\ Append(s, c)[Len(s) + 1] = c
  <1>1. PICK u : u = Append(s, c)
    OBVIOUS
  <1>2. Extends(s, u) /\ u[Len(s) + 1] = c
    BY <1>1, AppendProperties DEF Extends
  <1> QED
    BY <1>1, <1>2

(* The quotes of a line are finitely many. *)
LEMMA QuotesFinite ==
    ASSUME NEW s \in Seq(Character)
    PROVE  IsFiniteSet(Quotes(s)) /\ Cardinality(Quotes(s)) \in Nat
  <1>1. Len(s) \in Nat
    BY LenProperties
  <1>2. IsFiniteSet(1 .. Len(s)) /\ Quotes(s) \in SUBSET (1 .. Len(s))
    BY <1>1, FS_Interval DEF Quotes
  <1>3. IsFiniteSet(Quotes(s))
    BY <1>2, FS_Subset
  <1> QED
    BY <1>3, FS_CardinalityType

(* One character more: a quote changes what is inside quotes from there on,  *)
(* and nothing changes what was before.                                      *)
LEMMA ExtendQuotes ==
    ASSUME NEW s \in Seq(Character), NEW u, Extends(s, u)
    PROVE  /\ Quotes(u) = Quotes(s) \cup (IF u[Len(u)] = Quote THEN {Len(u)} ELSE {})
           /\ Unquoted(u) = Unquoted(s) \cup (IF Even(s) THEN {Len(u)} ELSE {})
           /\ Even(u) <=> (Even(s) <=> u[Len(u)] # Quote)
           /\ Len(u) \notin Quotes(s) /\ Len(u) \notin Unquoted(s)
  <1>1. /\ Len(s) \in Nat /\ Len(u) = Len(s) + 1
        /\ \A i \in 1 .. Len(s) : u[i] = s[i]
    BY LenProperties DEF Extends
  <1>2. Quotes(u) = Quotes(s) \cup (IF u[Len(u)] = Quote THEN {Len(u)} ELSE {})
    BY <1>1 DEF Quotes
  <1>3. Len(u) \notin Quotes(s) /\ Len(u) \notin Unquoted(s)
    BY <1>1 DEF Quotes, Unquoted
  <1> DEFINE before(t, i) == {j \in 1 .. i - 1 : t[j] = Quote}
  <1>4. ASSUME NEW i \in 1 .. Len(s) PROVE before(u, i) = before(s, i)
    BY <1>1
  <1>5. before(u, Len(u)) = Quotes(s)
    BY <1>1 DEF Quotes
  <1>6. \A i : i \in Unquoted(u) <=> i \in 1 .. Len(u) /\ Cardinality(before(u, i)) % 2 = 0
    BY DEF Unquoted
  <1>7. \A i : i \in Unquoted(s) <=> i \in 1 .. Len(s) /\ Cardinality(before(s, i)) % 2 = 0
    BY DEF Unquoted
  <1>8. Unquoted(u) = Unquoted(s) \cup (IF Even(s) THEN {Len(u)} ELSE {})
    <2> HIDE DEF before
    <2>1. Len(u) \in Unquoted(u) <=> Even(s)
      BY <1>1, <1>5, <1>6 DEF Even
    <2>2. ASSUME NEW i \in 1 .. Len(s) PROVE i \in Unquoted(u) <=> i \in Unquoted(s)
      BY <1>1, <1>4, <1>6, <1>7
    <2>3. ASSUME NEW i PROVE i \in Unquoted(u) <=> i \in Unquoted(s) \/ (Even(s) /\ i = Len(u))
      <3>1. CASE i \in 1 .. Len(s)
        BY <1>1, <2>2, <3>1
      <3>2. CASE i = Len(u)
        BY <1>3, <2>1, <3>2
      <3>3. CASE i \notin 1 .. Len(s) /\ i # Len(u)
        BY <1>1, <1>6, <1>7, <3>3
      <3> QED
        BY <3>1, <3>2, <3>3
    <2> QED
      BY <2>3
  <1>9. Even(u) <=> (Even(s) <=> u[Len(u)] # Quote)
    <2>1. PICK k \in Nat : k = Cardinality(Quotes(s))
      BY QuotesFinite
    <2>2. Cardinality(Quotes(u)) = IF u[Len(u)] = Quote THEN k + 1 ELSE k
      <3>1. CASE u[Len(u)] = Quote
        BY <1>2, <1>3, <2>1, <3>1, QuotesFinite, FS_AddElement
      <3>2. CASE u[Len(u)] # Quote
        BY <1>2, <2>1, <3>2
      <3> QED
        BY <3>1, <3>2
    <2>3. (k + 1) % 2 = 0 <=> k % 2 # 0
      OBVIOUS
    <2> QED
      BY <2>1, <2>2, <2>3 DEF Even
  <1> QED
    BY <1>2, <1>3, <1>8, <1>9

(* The loop is done exactly if there was a newline outside quotes; before,   *)
(* it is in its inner loop exactly after an odd number of quotes.            *)
LEMMA LoopByQuotes ==
    ASSUME NEW s \in Seq(Character)
    PROVE  /\ scan_args(s).loop = "done" <=> \E i \in Unquoted(s) : s[i] = Newline
           /\ scan_args(s).loop = "words" => Even(s)
           /\ scan_args(s).loop = "quoted" => ~ Even(s)
  <1> DEFINE P(t, loop) ==
                /\ loop = "done" <=> \E i \in Unquoted(t) : t[i] = Newline
                /\ loop = "words" => Even(t)
                /\ loop = "quoted" => ~ Even(t)
             T == {t \in Seq(Character) : P(t, scan_args(t).loop)}
  <1>1. << >> \in T
    <2>1. PICK t : t = << >>
      OBVIOUS
    <2>2. t \in Seq(Character) /\ Len(t) = 0 /\ scan_args(t).loop = "words"
      BY <2>1, EmptySeq, ScanEmpty DEF Start
    <2>3. Unquoted(t) = {} /\ Quotes(t) = {}
      BY <2>2 DEF Unquoted, Quotes
    <2>4. Even(t)
      BY <2>3, FS_EmptySet DEF Even
    <2>5. P(t, "words")
      BY <2>3, <2>4
    <2> QED
      BY <2>1, <2>2, <2>5
  <1>2. ASSUME NEW t \in Seq(Character), NEW c \in Character, t \in T
        PROVE  Append(t, c) \in T
    <2>1. PICK u : u = Append(t, c)
      OBVIOUS
    <2>2. Extends(t, u) /\ u[Len(t) + 1] = c
      BY <2>1, AppendExtends
    <2>3. /\ u \in Seq(Character) /\ Len(u) = Len(t) + 1 /\ u[Len(u)] = c
          /\ \A i \in 1 .. Len(t) : u[i] = t[i]
      BY <2>2 DEF Extends
    <2>4. PICK scan : scan = scan_args(t)
      OBVIOUS
    <2>5. PICK n : n = scan_args(u)
      OBVIOUS
    <2>6. scan \in Scan /\ n = next_char(scan, c)
      BY <2>1, <2>4, <2>5, ScanType, ScanAppend
    <2>7. PICK more, longer : Turn(scan, c, n, more, longer)
      BY <2>6, NextCharTurn
    <2>8. scan.loop \in {"words", "quoted", "done"}
      BY <2>6 DEF Scan
    <2>9. P(t, scan.loop)
      BY <1>2, <2>4
    <2>10. /\ Unquoted(u) = Unquoted(t) \cup (IF Even(t) THEN {Len(u)} ELSE {})
           /\ Even(u) <=> (Even(t) <=> c # Quote)
      BY <2>2, <2>3, ExtendQuotes
    <2>11. \A i \in Unquoted(t) : u[i] = t[i]
      BY <2>3 DEF Unquoted
    <2>12. (\E i \in Unquoted(u) : u[i] = Newline)
              <=> \/ \E i \in Unquoted(t) : t[i] = Newline
                  \/ Even(t) /\ c = Newline
      BY <2>3, <2>10, <2>11
    <2>13. P(u, n.loop)
      <3>1. CASE scan.loop = "done"
        BY <2>7, <2>9, <2>12, <3>1 DEF Turn
      <3>2. CASE scan.loop = "words"
        BY <2>7, <2>9, <2>10, <2>12, <3>2, Marks DEF Turn
      <3>3. CASE scan.loop = "quoted"
        BY <2>7, <2>9, <2>10, <2>12, <3>3, Marks DEF Turn
      <3> QED
        BY <2>8, <3>1, <3>2, <3>3
    <2>14. u \in T
      <3> HIDE DEF P
      <3> QED
        BY <2>3, <2>5, <2>13
    <2> QED
      BY <2>1, <2>14
  <1>3. \A t \in Seq(Character) : t \in T
    <2> HIDE DEF T
    <2> QED
      BY <1>1, <1>2, SequenceInduction
  <1>4. P(s, scan_args(s).loop)
    <2> HIDE DEF P
    <2> QED
      BY <1>3
  <1> QED
    BY <1>4

(* What follows a type is read to the end in the inner loop exactly if no    *)
(* newline of it is outside quotes.                                          *)
LEMMA QuotedAtTheEnd ==
    ASSUME NEW s \in Seq(Character), s # << >>, s[Len(s)] = Newline
    PROVE  scan_args(s).loop = "quoted" <=> \A i \in Unquoted(s) : s[i] # Newline
  <1>1. Len(s) \in Nat \ {0}
    BY EmptySeq
  <1>2. scan_args(s).loop \in {"words", "quoted", "done"}
    BY ScanType DEF Scan
  <1>3. ASSUME scan_args(s).loop = "words" PROVE Len(s) \in Unquoted(s)
    <2> DEFINE before(i) == {j \in 1 .. i - 1 : s[j] = Quote}
    <2>1. before(Len(s)) = Quotes(s)
      BY <1>1, Marks DEF Quotes
    <2>2. Cardinality(Quotes(s)) % 2 = 0
      BY <1>3, LoopByQuotes DEF Even
    <2>3. \A i \in 1 .. Len(s) : Cardinality(before(i)) % 2 = 0 => i \in Unquoted(s)
      BY DEF Unquoted
    <2> HIDE DEF before
    <2> QED
      BY <1>1, <2>1, <2>2, <2>3
  <1> QED
    BY <1>2, <1>3, LoopByQuotes

(* Where decode reads past the end of its text: there is none, or every      *)
(* newline after the type is inside quotes and the line is shorter than a    *)
(* line may be.                                                              *)
RunsOffOnOpenQuote ==
    decoded.throws = "out_of_range" <=>
        \/ text = << >>
        \/ /\ Len(text) < MaxLen
           /\ text[Len(text)] = Newline
           /\ OpenQuote

(* The extent of what MalformedLinesAreInvalid finds: decode throws          *)
(* std::out_of_range on these texts and no others.                           *)
THEOREM RunsOff == Spec => []RunsOffOnOpenQuote
  <1>1. ASSUME text \in Seq(Char) PROVE RunsOffOnOpenQuote
    <2>1. PICK s : s = text
      OBVIOUS
    <2>2. s \in Seq(Character) /\ decoded = decode(s)
      BY <1>1, <2>1, SeqMonotonic DEF Character, decoded
    <2>3. Len(s) \in Nat /\ MaxLen \in Nat \ {0}
      BY <2>2, LenProperties, MessageSerializationAssumption
    <2>4. decode(s).throws = "out_of_range" <=>
             \/ s = << >>
             \/ /\ Len(s) < MaxLen
                /\ s[Len(s)] = Newline
                /\ \A i \in Unquoted(tail(s)) : tail(s)[i] # Newline
      <3>1. CASE s = << >>
        <4>1. ~ (Len(s) > MaxLen)
          BY <2>3, <3>1, EmptySeq
        <4> QED
          BY <3>1, <4>1 DEF decode, Throws
      <3>2. CASE Len(s) > MaxLen
        <4>1. s # << >> /\ ~ (Len(s) < MaxLen)
          BY <2>3, <3>2, EmptySeq
        <4> QED
          BY <3>2, <4>1 DEF decode, Throws
      <3>3. CASE s # << >> /\ ~ (Len(s) > MaxLen) /\ s[Len(s)] # Newline
        BY <3>3 DEF decode, Throws
      <3>4. CASE s # << >> /\ ~ (Len(s) > MaxLen) /\ s[Len(s)] = Newline
        <4>1. PICK scan : scan = scan_args(tail(s))
          OBVIOUS
        <4>2. PICK m : m = [type |-> stringToMessageType(
                                        SubSeq(s, type_start(s), type_end(s) - 1)),
                            args |-> scan.args]
          OBVIOUS
        <4>3. decode(s) = IF scan.loop = "quoted" /\ Len(s) < MaxLen
                          THEN Throws("out_of_range")
                          ELSE IF is_valid(m) THEN Returns(m) ELSE Throws("InvalidMessage")
          BY <3>4, <4>1, <4>2 DEF decode
        <4>4. decode(s).throws = "out_of_range" <=> scan.loop = "quoted" /\ Len(s) < MaxLen
          BY <4>3 DEF Throws, Returns
        <4>5. PICK t : t = tail(s)
          OBVIOUS
        <4>6. t \in Seq(Character) /\ t # << >> /\ t[Len(t)] = Newline
          BY <2>2, <3>4, <4>5, TailType, EmptySeq
        <4>7. scan.loop = "quoted" <=> \A i \in Unquoted(t) : t[i] # Newline
          BY <4>1, <4>5, <4>6, QuotedAtTheEnd
        <4> QED
          BY <3>4, <4>4, <4>5, <4>7
      <3> QED
        BY <3>1, <3>2, <3>3, <3>4
    <2> QED
      BY <2>1, <2>2, <2>4 DEF RunsOffOnOpenQuote, OpenQuote
  <1> QED
    BY <1>1, TextType, PTL

(* decode never reads past the end of a line whose quotes are closed, nor    *)
(* throws anything but InvalidMessage on it.                                 *)
THEOREM ClosedQuotesRead == Spec => []ClosedQuotesAreAnswered
  <1>1. decoded.throws \in {"nothing", "InvalidMessage", "out_of_range"}
    BY DEF decoded, decode, Throws, Returns
  <1>2. RunsOffOnOpenQuote => ClosedQuotesAreAnswered
    BY <1>1 DEF RunsOffOnOpenQuote, ClosedQuotesAreAnswered
  <1> QED
    BY <1>2, RunsOff, PTL

-----------------------------------------------------------------------------
(* How many arguments there are.                                             *)

(* The characters before position e that belong to words outside quotes, the *)
(* first ones of those words, the quotes that open, and those that are       *)
(* followed by another.                                                      *)
WordChars(s, e) == {i \in Unquoted(s) : i < e /\ s[i] \notin {Space, Quote}}

WordStarts(s, e) == {i \in WordChars(s, e) : i - 1 \notin WordChars(s, e)}

Openings(s, e) == {i \in Unquoted(s) : i < e /\ s[i] = Quote}

Closed(s, e) == {i \in Openings(s, e) : \E j \in Quotes(s) : j > i}

(* One character more, outside quotes or inside. *)
LEMMA ExtendWords ==
    ASSUME NEW s \in Seq(Character), NEW u, Extends(s, u)
    PROVE  /\ \A e \in 0 .. Len(u) : /\ WordChars(u, e) = WordChars(s, e)
                                     /\ WordStarts(u, e) = WordStarts(s, e)
                                     /\ Openings(u, e) = Openings(s, e)
           /\ WordChars(u, Len(u) + 1) =
                 WordChars(s, Len(u)) \cup
                    (IF Even(s) /\ u[Len(u)] \notin {Space, Quote} THEN {Len(u)} ELSE {})
           /\ Openings(u, Len(u) + 1) =
                 Openings(s, Len(u)) \cup
                    (IF Even(s) /\ u[Len(u)] = Quote THEN {Len(u)} ELSE {})
           /\ \A e : WordChars(s, e) \subseteq 1 .. Len(s) /\ Openings(s, e) \subseteq 1 .. Len(s)
  <1>1. /\ Len(s) \in Nat /\ Len(u) = Len(s) + 1
        /\ \A i \in 1 .. Len(s) : u[i] = s[i]
    BY LenProperties DEF Extends
  <1>2. Unquoted(u) = Unquoted(s) \cup (IF Even(s) THEN {Len(u)} ELSE {})
    BY ExtendQuotes
  <1>3. Unquoted(s) \subseteq 1 .. Len(s)
    BY DEF Unquoted
  <1>4. ASSUME NEW e \in 0 .. Len(u)
        PROVE  WordChars(u, e) = WordChars(s, e) /\ Openings(u, e) = Openings(s, e)
    BY <1>1, <1>2, <1>3 DEF WordChars, Openings
  <1>5. \A e \in 0 .. Len(u) : WordStarts(u, e) = WordStarts(s, e)
    BY <1>4 DEF WordStarts
  <1>6. WordChars(u, Len(u) + 1) =
           WordChars(s, Len(u)) \cup
              (IF Even(s) /\ u[Len(u)] \notin {Space, Quote} THEN {Len(u)} ELSE {})
    BY <1>1, <1>2, <1>3 DEF WordChars
  <1>7. Openings(u, Len(u) + 1) =
           Openings(s, Len(u)) \cup
              (IF Even(s) /\ u[Len(u)] = Quote THEN {Len(u)} ELSE {})
    BY <1>1, <1>2, <1>3 DEF Openings
  <1>8. \A e : WordChars(s, e) \subseteq 1 .. Len(s) /\ Openings(s, e) \subseteq 1 .. Len(s)
    BY <1>3 DEF WordChars, Openings
  <1> QED
    BY <1>4, <1>5, <1>6, <1>7, <1>8

(* There are finitely many words and quotes. *)
LEMMA WordsFinite ==
    ASSUME NEW s \in Seq(Character), NEW e
    PROVE  /\ IsFiniteSet(WordStarts(s, e)) /\ Cardinality(WordStarts(s, e)) \in Nat
           /\ IsFiniteSet(Openings(s, e)) /\ Cardinality(Openings(s, e)) \in Nat
           /\ IsFiniteSet(Closed(s, e)) /\ Cardinality(Closed(s, e)) \in Nat
  <1>1. Len(s) \in Nat
    BY LenProperties
  <1>2. /\ IsFiniteSet(1 .. Len(s))
        /\ WordStarts(s, e) \in SUBSET (1 .. Len(s))
        /\ Openings(s, e) \in SUBSET (1 .. Len(s))
        /\ Closed(s, e) \in SUBSET (1 .. Len(s))
    BY <1>1, FS_Interval DEF WordStarts, WordChars, Closed, Openings, Unquoted
  <1>3. IsFiniteSet(WordStarts(s, e)) /\ IsFiniteSet(Openings(s, e)) /\ IsFiniteSet(Closed(s, e))
    BY <1>2, FS_Subset
  <1> QED
    BY <1>3, FS_CardinalityType

(***************************************************************************)
(* The arguments read so far: the loop has pushed, or has in arg, one for  *)
(* each word that started and each quote that was closed.  In the inner    *)
(* loop the last opening quote waits for its other.  When the loop is done *)
(* only what is before the newline counts.                                 *)
(***************************************************************************)
Counted(s, scan) ==
    LET e == Len(s) + 1
    IN  /\ scan.loop = "words" =>
              /\ Closed(s, e) = Openings(s, e)
              /\ scan.arg # << >> <=> Len(s) \in WordChars(s, e)
              /\ Len(scan.args) + (IF scan.arg = << >> THEN 0 ELSE 1) =
                    Cardinality(WordStarts(s, e)) + Cardinality(Closed(s, e))
        /\ scan.loop = "quoted" =>
              /\ \E q \in Openings(s, e) : Closed(s, e) = Openings(s, e) \ {q}
              /\ Len(scan.args) = Cardinality(WordStarts(s, e)) + Cardinality(Closed(s, e))
        /\ scan.loop = "done" =>
              \E f \in Unquoted(s) :
                 /\ s[f] = Newline
                 /\ \A j \in Unquoted(s) : s[j] = Newline => f <= j
                 /\ Closed(s, f) = Openings(s, f)
                 /\ Len(scan.args) = Cardinality(WordStarts(s, f)) + Cardinality(Closed(s, f))

(* scan is what the loop makes of s. *)
Scans(s, scan) == scan \in Scan /\ scan = scan_args(s)

(* A turn of the loop keeps the count. *)
LEMMA CountedStep ==
    ASSUME NEW s \in Seq(Character), NEW u, Extends(s, u),
           NEW scan, Scans(s, scan), Counted(s, scan),
           NEW n, NEW more, NEW longer, Turn(scan, u[Len(u)], n, more, longer),
           Len(more) = Len(scan.args) + 1, longer # << >>
    PROVE  Counted(u, n)
  <1> DEFINE c == u[Len(u)]
             L == Len(u)
  <1>1. /\ Len(s) \in Nat /\ L \in Nat /\ L = Len(s) + 1 /\ u \in Seq(Character)
        /\ \A i \in 1 .. Len(s) : u[i] = s[i]
    BY LenProperties DEF Extends
  <1>2. /\ Quotes(u) = Quotes(s) \cup (IF c = Quote THEN {L} ELSE {})
        /\ Unquoted(u) = Unquoted(s) \cup (IF Even(s) THEN {L} ELSE {})
        /\ Quotes(s) \subseteq 1 .. Len(s) /\ Unquoted(s) \subseteq 1 .. Len(s)
    BY ExtendQuotes DEF Quotes, Unquoted
  <1>3. /\ \A e \in 0 .. L : /\ WordChars(u, e) = WordChars(s, e)
                             /\ WordStarts(u, e) = WordStarts(s, e)
                             /\ Openings(u, e) = Openings(s, e)
        /\ WordChars(u, L + 1) =
              WordChars(s, L) \cup (IF Even(s) /\ c \notin {Space, Quote} THEN {L} ELSE {})
        /\ Openings(u, L + 1) =
              Openings(s, L) \cup (IF Even(s) /\ c = Quote THEN {L} ELSE {})
        /\ \A e : WordChars(s, e) \subseteq 1 .. Len(s) /\ Openings(s, e) \subseteq 1 .. Len(s)
    BY ExtendWords
  <1>4. /\ scan.loop = "done" <=> \E i \in Unquoted(s) : s[i] = Newline
        /\ scan.loop = "words" => Even(s)
        /\ scan.loop = "quoted" => ~ Even(s)
    BY LoopByQuotes DEF Scans
  <1>5. Len(scan.args) \in Nat /\ scan.loop \in {"words", "quoted", "done"}
    BY LenProperties DEF Scans, Scan
  <1>6. /\ Cardinality(WordStarts(s, L)) \in Nat
        /\ Cardinality(Closed(s, L)) \in Nat
    BY WordsFinite
  <1>7. Space # Newline /\ Space # Quote /\ Newline # Quote
    BY Marks
  <1>8. CASE scan.loop = "words"
    <2>1. /\ Even(s) /\ Closed(s, L) = Openings(s, L)
          /\ scan.arg # << >> <=> Len(s) \in WordChars(s, L)
          /\ Len(scan.args) + (IF scan.arg = << >> THEN 0 ELSE 1) =
                Cardinality(WordStarts(s, L)) + Cardinality(Closed(s, L))
      BY <1>1, <1>4, <1>8 DEF Counted
    <2>2. ASSUME c \in {Space, Newline, Quote}
          PROVE  /\ n.arg = << >>
                 /\ Len(n.args) = Cardinality(WordStarts(s, L)) + Cardinality(Closed(s, L))
      <3>1. n.arg = << >> /\ n.args = (IF scan.arg = << >> THEN scan.args ELSE more)
        BY <1>8, <2>2 DEF Turn
      <3>2. Len(more) = Len(scan.args) + 1
        OBVIOUS
      <3>3. CASE scan.arg = << >>
        <4>1. n.args = scan.args
          BY <3>1, <3>3
        <4>2. Len(scan.args) + 0 =
                 Cardinality(WordStarts(s, L)) + Cardinality(Closed(s, L))
          BY <2>1, <3>3
        <4> HIDE DEF L
        <4> QED
          BY <1>5, <3>1, <4>1, <4>2
      <3>4. CASE scan.arg # << >>
        <4>1. n.args = more
          BY <3>1, <3>4
        <4>2. Len(scan.args) + 1 =
                 Cardinality(WordStarts(s, L)) + Cardinality(Closed(s, L))
          BY <2>1, <3>4
        <4> HIDE DEF L
        <4> QED
          BY <3>1, <3>2, <4>1, <4>2
      <3> QED
        BY <3>3, <3>4
    <2>3. CASE c = Space
      <3>1. n.loop = "words"
        BY <1>7, <1>8, <2>3 DEF Turn
      <3>2. /\ WordChars(u, L + 1) = WordChars(s, L)
            /\ Openings(u, L + 1) = Openings(s, L)
            /\ Quotes(u) = Quotes(s)
        BY <1>2, <1>3, <1>7, <2>3
      <3>3. WordStarts(u, L + 1) = WordStarts(s, L) /\ Closed(u, L + 1) = Closed(s, L)
        BY <3>2 DEF WordStarts, Closed
      <3>4. L \notin WordChars(u, L + 1)
        BY <1>1, <1>3, <3>2
      <3> HIDE DEF L
      <3>5. Closed(u, L + 1) = Openings(u, L + 1)
        BY <2>1, <3>2, <3>3
      <3>6. Len(n.args) + 0 = Cardinality(WordStarts(u, L + 1)) + Cardinality(Closed(u, L + 1))
        BY <1>6, <2>2, <2>3, <3>3
      <3> USE DEF L
      <3> QED
        BY <2>2, <2>3, <3>1, <3>4, <3>5, <3>6 DEF Counted
    <2>4. CASE c = Newline
      <3>1. n.loop = "done"
        BY <1>7, <1>8, <2>4 DEF Turn
      <3>2. /\ L \in 0 .. L /\ Quotes(u) = Quotes(s)
            /\ WordStarts(u, L) = WordStarts(s, L)
            /\ Openings(u, L) = Openings(s, L)
        BY <1>1, <1>2, <1>3, <1>7, <2>4
      <3>3. Closed(u, L) = Closed(s, L)
        BY <3>2 DEF Closed
      <3>4. /\ L \in Unquoted(u) /\ u[L] = Newline
            /\ \A j \in Unquoted(u) : u[j] = Newline => L <= j
        BY <1>1, <1>2, <1>4, <1>8, <2>1, <2>4
      <3>5. Closed(u, L) = Openings(u, L)
        BY <2>1, <3>2, <3>3
      <3>6. Len(n.args) = Cardinality(WordStarts(u, L)) + Cardinality(Closed(u, L))
        BY <2>2, <2>4, <3>2, <3>3
      <3> QED
        BY <3>1, <3>4, <3>5, <3>6 DEF Counted
    <2>5. CASE c = Quote
      <3>1. n.loop = "quoted"
        BY <1>7, <1>8, <2>5 DEF Turn
      <3>2. /\ WordChars(u, L + 1) = WordChars(s, L)
            /\ Openings(u, L + 1) = Openings(s, L) \cup {L}
            /\ Quotes(u) = Quotes(s) \cup {L}
        BY <1>2, <1>3, <1>7, <2>1, <2>5
      <3>3. WordStarts(u, L + 1) = WordStarts(s, L)
        BY <3>2 DEF WordStarts
      <3>4. \A i \in Openings(s, L) : L > i
        BY <1>1, <1>3
      <3>5. \A j \in Quotes(u) : ~ (j > L)
        BY <1>1, <1>2, <3>2
      <3>6. L \notin Openings(s, L)
        BY <1>1, <1>3
      <3>7. Closed(u, L + 1) = Openings(s, L)
        <4>1. \A i : i \in Closed(u, L + 1) <=>
                 i \in Openings(u, L + 1) /\ \E j \in Quotes(u) : j > i
          BY DEF Closed
        <4> HIDE DEF L
        <4>2. L \in Quotes(u)
          BY <3>2
        <4> QED
          BY <3>2, <3>4, <3>5, <3>6, <4>1, <4>2
      <3>8. \E q \in Openings(u, L + 1) : Closed(u, L + 1) = Openings(u, L + 1) \ {q}
        BY <3>2, <3>6, <3>7
      <3>9. Len(n.args) = Cardinality(WordStarts(u, L + 1)) + Cardinality(Closed(u, L + 1))
        BY <2>1, <2>2, <2>5, <3>3, <3>7
      <3> QED
        BY <3>1, <3>8, <3>9 DEF Counted
    <2>6. CASE c \notin {Space, Newline, Quote}
      <3>1. n.loop = "words" /\ n.args = scan.args /\ n.arg # << >>
        BY <1>8, <2>6 DEF Turn
      <3>2. /\ WordChars(u, L + 1) = WordChars(s, L) \cup {L}
            /\ Openings(u, L + 1) = Openings(s, L)
            /\ Quotes(u) = Quotes(s)
        BY <1>2, <1>3, <2>1, <2>6
      <3>3. Closed(u, L + 1) = Closed(s, L)
        BY <3>2 DEF Closed
      <3>4. /\ WordStarts(u, L + 1) =
                  WordStarts(s, L) \cup (IF scan.arg # << >> THEN {} ELSE {L})
            /\ L \notin WordStarts(s, L)
        <4>1. /\ L - 1 = Len(s) /\ L \notin WordChars(s, L)
              /\ \A i \in WordChars(s, L) : i - 1 # L
          BY <1>1, <1>3
        <4>2. \A i : i \in WordStarts(u, L + 1) <=>
                 i \in WordChars(u, L + 1) /\ i - 1 \notin WordChars(u, L + 1)
          BY DEF WordStarts
        <4>3. \A i : i \in WordStarts(s, L) <=>
                 i \in WordChars(s, L) /\ i - 1 \notin WordChars(s, L)
          BY DEF WordStarts
        <4>4. L - 1 # L
          BY <1>1
        <4> HIDE DEF L
        <4> QED
          BY <2>1, <3>2, <4>1, <4>2, <4>3, <4>4
      <3>5. Cardinality(WordStarts(u, L + 1)) =
               Cardinality(WordStarts(s, L)) + (IF scan.arg # << >> THEN 0 ELSE 1)
        <4>1. CASE scan.arg # << >>
          <5>1. WordStarts(u, L + 1) = WordStarts(s, L)
            BY <3>4, <4>1
          <5> HIDE DEF L
          <5> QED
            BY <1>6, <4>1, <5>1
        <4>2. CASE scan.arg = << >>
          BY <3>4, <4>2, WordsFinite, FS_AddElement
        <4> QED
          BY <4>1, <4>2
      <3>6. L \in WordChars(u, L + 1) /\ Closed(u, L + 1) = Openings(u, L + 1)
        BY <2>1, <3>2, <3>3
      <3>7. Len(n.args) + 1 =
               Cardinality(WordStarts(u, L + 1)) + Cardinality(Closed(u, L + 1))
        <4>1. Cardinality(Closed(u, L + 1)) = Cardinality(Closed(s, L))
          BY <3>3
        <4>2. CASE scan.arg = << >>
          <5>1. /\ Len(scan.args) + 0 =
                      Cardinality(WordStarts(s, L)) + Cardinality(Closed(s, L))
                /\ Cardinality(WordStarts(u, L + 1)) = Cardinality(WordStarts(s, L)) + 1
            BY <2>1, <3>5, <4>2
          <5> HIDE DEF L
          <5> QED
            BY <1>5, <1>6, <3>1, <4>1, <5>1
        <4>3. CASE scan.arg # << >>
          <5>1. /\ Len(scan.args) + 1 =
                      Cardinality(WordStarts(s, L)) + Cardinality(Closed(s, L))
                /\ Cardinality(WordStarts(u, L + 1)) = Cardinality(WordStarts(s, L)) + 0
            BY <2>1, <3>5, <4>3
          <5> HIDE DEF L
          <5> QED
            BY <1>5, <1>6, <3>1, <4>1, <5>1
        <4> QED
          BY <4>2, <4>3
      <3> QED
        BY <3>1, <3>6, <3>7 DEF Counted
    <2> QED
      BY <2>3, <2>4, <2>5, <2>6
  <1>9. CASE scan.loop = "quoted"
    <2>1. /\ ~ Even(s)
          /\ \E q \in Openings(s, L) : Closed(s, L) = Openings(s, L) \ {q}
          /\ Len(scan.args) = Cardinality(WordStarts(s, L)) + Cardinality(Closed(s, L))
      BY <1>1, <1>4, <1>9 DEF Counted
    <2>2. /\ WordChars(u, L + 1) = WordChars(s, L)
          /\ Openings(u, L + 1) = Openings(s, L)
      BY <1>3, <2>1
    <2>3. WordStarts(u, L + 1) = WordStarts(s, L)
      BY <2>2 DEF WordStarts
    <2>4. CASE c = Quote
      <3>1. n.loop = "words" /\ n.args = more /\ n.arg = << >>
        BY <1>9, <2>4 DEF Turn
      <3>2. L \in Quotes(u)
        BY <1>2, <2>4
      <3>3. \A i \in Openings(s, L) : L > i
        BY <1>1, <1>3
      <3>4. Closed(u, L + 1) = Openings(s, L)
        <4>1. \A i : i \in Closed(u, L + 1) <=>
                 i \in Openings(u, L + 1) /\ \E j \in Quotes(u) : j > i
          BY DEF Closed
        <4> HIDE DEF L
        <4> QED
          BY <2>2, <3>2, <3>3, <4>1
      <3>5. Cardinality(Openings(s, L)) = Cardinality(Closed(s, L)) + 1
        <4>1. PICK q \in Openings(s, L) : Closed(s, L) = Openings(s, L) \ {q}
          BY <2>1
        <4>2. /\ Cardinality(Openings(s, L)) \in Nat
              /\ Cardinality(Openings(s, L) \ {q}) = Cardinality(Openings(s, L)) - 1
          BY WordsFinite, FS_RemoveElement
        <4> HIDE DEF L
        <4> QED
          BY <4>1, <4>2
      <3>6. L \notin WordChars(u, L + 1)
        BY <1>1, <1>3, <2>2
      <3>7. Len(n.args) + 0 =
               Cardinality(WordStarts(u, L + 1)) + Cardinality(Closed(u, L + 1))
        <4>1. Cardinality(Closed(u, L + 1)) = Cardinality(Closed(s, L)) + 1
          BY <3>4, <3>5
        <4> HIDE DEF L
        <4> QED
          BY <1>5, <1>6, <2>1, <2>3, <3>1, <4>1
      <3> QED
        BY <2>2, <3>1, <3>4, <3>6, <3>7 DEF Counted
    <2>5. CASE c # Quote
      <3>1. n.loop = "quoted" /\ n.args = scan.args
        BY <1>9, <2>5 DEF Turn
      <3>2. Closed(u, L + 1) = Closed(s, L)
        <4>1. Quotes(u) = Quotes(s)
          BY <1>2, <2>5
        <4> QED
          BY <2>2, <4>1 DEF Closed
      <3>3. \E q \in Openings(u, L + 1) : Closed(u, L + 1) = Openings(u, L + 1) \ {q}
        BY <2>1, <2>2, <3>2
      <3>4. Len(n.args) = Cardinality(WordStarts(u, L + 1)) + Cardinality(Closed(u, L + 1))
        BY <2>1, <2>3, <3>1, <3>2
      <3> QED
        BY <3>1, <3>3, <3>4 DEF Counted
    <2> QED
      BY <2>4, <2>5
  <1>10. CASE scan.loop = "done"
    <2>1. n = scan
      BY <1>10 DEF Turn
    <2>2. PICK f \in Unquoted(s) :
             /\ s[f] = Newline
             /\ \A j \in Unquoted(s) : s[j] = Newline => f <= j
             /\ Closed(s, f) = Openings(s, f)
             /\ Len(scan.args) = Cardinality(WordStarts(s, f)) + Cardinality(Closed(s, f))
      BY <1>10 DEF Counted
    <2>3. f \in 1 .. Len(s) /\ f \in 0 .. L
      BY <1>1, <1>2
    <2>4. /\ f \in Unquoted(u) /\ u[f] = Newline
          /\ \A j \in Unquoted(u) : u[j] = Newline => f <= j
      BY <1>1, <1>2, <2>2, <2>3
    <2>5. WordStarts(u, f) = WordStarts(s, f) /\ Openings(u, f) = Openings(s, f)
      BY <1>3, <2>3
    <2>6. Closed(u, f) = Openings(u, f) /\ Closed(u, f) = Closed(s, f)
      BY <1>2, <2>2, <2>5 DEF Closed
    <2>7. Len(scan.args) = Cardinality(WordStarts(u, f)) + Cardinality(Closed(u, f))
      BY <2>2, <2>5, <2>6
    <2> QED
      BY <1>10, <2>1, <2>4, <2>6, <2>7 DEF Counted
  <1> QED
    BY <1>5, <1>8, <1>9, <1>10

(* What the loop has read is counted, whatever the text. *)
LEMMA CountedArgs ==
    ASSUME NEW s \in Seq(Character)
    PROVE  Counted(s, scan_args(s))
  <1> DEFINE T == {t \in Seq(Character) : Counted(t, scan_args(t))}
  <1>1. << >> \in T
    <2>1. PICK t : t = << >>
      OBVIOUS
    <2>2. /\ t \in Seq(Character) /\ Len(t) = 0
          /\ scan_args(t) = Start
      BY <2>1, EmptySeq, ScanEmpty
    <2>3. PICK scan : scan = scan_args(t)
      OBVIOUS
    <2>4. scan.loop = "words" /\ scan.arg = << >> /\ Len(scan.args) = 0
      BY <2>2, <2>3, EmptySeq DEF Start
    <2>5. /\ \A e : WordChars(t, e) = {} /\ Openings(t, e) = {}
          /\ Len(t) + 1 = 1
      BY <2>2 DEF WordChars, Openings, Unquoted
    <2>6. WordStarts(t, 1) = {} /\ Closed(t, 1) = {}
      BY <2>5 DEF WordStarts, Closed
    <2>7. Cardinality({}) = 0
      BY FS_EmptySet
    <2>8. Counted(t, scan)
      <3>1. Closed(t, 1) = Openings(t, 1) /\ Len(t) \notin WordChars(t, 1)
        BY <2>5, <2>6
      <3>2. Len(scan.args) + 0 = Cardinality(WordStarts(t, 1)) + Cardinality(Closed(t, 1))
        BY <2>4, <2>6, <2>7
      <3> QED
        BY <2>4, <2>5, <3>1, <3>2 DEF Counted
    <2> QED
      BY <2>1, <2>2, <2>3, <2>8
  <1>2. ASSUME NEW t \in Seq(Character), NEW c \in Character, t \in T
        PROVE  Append(t, c) \in T
    <2>1. PICK u : u = Append(t, c)
      OBVIOUS
    <2>2. Extends(t, u) /\ u[Len(t) + 1] = c
      BY <2>1, AppendExtends
    <2>3. u \in Seq(Character) /\ u[Len(u)] = c
      BY <2>2 DEF Extends
    <2>4. PICK scan : scan = scan_args(t)
      OBVIOUS
    <2>5. PICK n : n = scan_args(u)
      OBVIOUS
    <2>6. scan \in Scan /\ n = next_char(scan, c)
      BY <2>1, <2>4, <2>5, ScanType, ScanAppend
    <2>7. scan.args \in Seq(Seq(Character)) /\ scan.arg \in Seq(Character)
      BY <2>6 DEF Scan
    <2>8. PICK more : more = Append(scan.args, scan.arg)
      OBVIOUS
    <2>9. PICK longer : longer = Append(scan.arg, c)
      OBVIOUS
    <2>10. Len(more) = Len(scan.args) + 1
      BY <2>7, <2>8, AppendProperties
    <2>11. longer # << >>
      BY <2>7, <2>9, AppendProperties
    <2>12. Turn(scan, u[Len(u)], n, more, longer)
      BY <2>3, <2>6, <2>8, <2>9, NextCharTurn
    <2>13. Scans(t, scan) /\ Counted(t, scan)
      BY <1>2, <2>4, <2>6 DEF Scans
    <2>14. Counted(u, n)
      BY <2>2, <2>10, <2>11, <2>12, <2>13, CountedStep
    <2> QED
      BY <2>1, <2>3, <2>5, <2>14
  <1>3. \A t \in Seq(Character) : t \in T
    <2> HIDE DEF T
    <2> QED
      BY <1>1, <1>2, SequenceInduction
  <1> QED
    BY <1>3

(* The arguments of an accepted line are as many as its words outside quotes *)
(* and its closed pairs of quotes, up to the newline that ends the message.  *)
THEOREM ArgumentsCounted == Spec => []ArgumentsAreWordsAndQuotes
  <1>1. ASSUME text \in Seq(Char), Accepted PROVE ArgumentsAreWordsAndQuotes
    <2>1. PICK x : x = text
      OBVIOUS
    <2>2. x \in Seq(Character) /\ decoded = decode(x) /\ decode(x).throws = "nothing"
      BY <1>1, <2>1, SeqMonotonic DEF Character, decoded, Accepted
    <2>3. /\ x # << >> /\ x[Len(x)] = Newline
          /\ decode(x).args = scan_args(tail(x)).args
      BY <2>2, AcceptedLine
    <2>4. PICK s : s = tail(x)
      OBVIOUS
    <2>5. /\ s \in Seq(Character) /\ Len(s) \in Nat \ {0} /\ s # << >>
          /\ s[Len(s)] = Newline
      BY <2>2, <2>3, <2>4, TailType, EmptySeq
    <2>6. PICK scan : scan = scan_args(s)
      OBVIOUS
    <2>7. scan \in Scan /\ Counted(s, scan)
      BY <2>5, <2>6, ScanType, CountedArgs
    <2>8. scan.loop \in {"words", "quoted", "done"}
      BY <2>7 DEF Scan
    <2>9. /\ scan.loop = "quoted" <=> \A i \in Unquoted(s) : s[i] # Newline
          /\ scan.loop = "done" <=> \E i \in Unquoted(s) : s[i] = Newline
      BY <2>5, <2>6, LoopByQuotes, QuotedAtTheEnd
    <2> DEFINE Ends(i) == /\ i \in Unquoted(s) => s[i] = Newline
                          /\ \A j \in Unquoted(s) : s[j] = Newline => i <= j
               end == CHOOSE i \in Unquoted(s) \cup {Len(s) + 1} : Ends(i)
    <2>10. Len(s) + 1 \notin Unquoted(s) /\ Unquoted(s) \subseteq 1 .. Len(s)
      BY <2>5 DEF Unquoted
    <2>11. Len(scan.args) = Cardinality(WordStarts(s, end)) + Cardinality(Closed(s, end))
      <3>1. CASE scan.loop = "quoted"
        <4>1. Ends(Len(s) + 1)
          BY <2>9, <2>10, <3>1
        <4>2. ASSUME NEW i \in Unquoted(s) \cup {Len(s) + 1}, Ends(i)
              PROVE  i = Len(s) + 1
          BY <2>9, <3>1, <4>2
        <4>3. end = Len(s) + 1
          <5> HIDE DEF Ends
          <5> QED
            BY <4>1, <4>2
        <4>4. Len(scan.args) = Cardinality(WordStarts(s, Len(s) + 1))
                                  + Cardinality(Closed(s, Len(s) + 1))
          BY <2>7, <3>1 DEF Counted
        <4> HIDE DEF end
        <4> QED
          BY <4>3, <4>4
      <3>2. CASE scan.loop = "done"
        <4>1. PICK f \in Unquoted(s) :
                 /\ s[f] = Newline
                 /\ \A j \in Unquoted(s) : s[j] = Newline => f <= j
                 /\ Closed(s, f) = Openings(s, f)
                 /\ Len(scan.args) = Cardinality(WordStarts(s, f)) + Cardinality(Closed(s, f))
          BY <2>7, <3>2 DEF Counted
        <4>2. Ends(f)
          BY <4>1
        <4>3. ASSUME NEW i \in Unquoted(s) \cup {Len(s) + 1}, Ends(i)
              PROVE  i = f
          <5>1. i <= f
            BY <4>1, <4>3
          <5>2. f <= i
            BY <2>5, <2>10, <4>1, <4>3
          <5>3. f \in Nat /\ i \in Nat
            BY <2>5, <2>10
          <5> QED
            BY <5>1, <5>2, <5>3
        <4>4. end = f
          <5> HIDE DEF Ends
          <5> QED
            BY <4>2, <4>3
        <4> HIDE DEF end
        <4> QED
          BY <4>1, <4>4
      <3> QED
        BY <2>8, <2>9, <3>1, <3>2
    <2>12. decoded.args = scan.args /\ tail(text) = s
      BY <2>1, <2>2, <2>3, <2>4, <2>6
    <2> QED
      BY <2>11, <2>12
      DEF ArgumentsAreWordsAndQuotes, WordStarts, WordChars, Closed, Openings
  <1>2. ASSUME text \in Seq(Char) PROVE ArgumentsAreWordsAndQuotes
    BY <1>1, <1>2 DEF ArgumentsAreWordsAndQuotes
  <1> QED
    BY <1>2, TextType, PTL

-----------------------------------------------------------------------------
(* One message is one line.                                                  *)

(* A valid message other than FAILED and ERROR has no newline in its         *)
(* arguments.                                                                *)
LEMMA ValidArgsHaveNoNewline ==
    ASSUME NEW ty \in MessageType \ {"FAILED", "ERROR"}, NEW args \in Texts,
           is_valid([type |-> ty, args |-> args])
    PROVE  \A i \in 1 .. Len(args) : \A j \in 1 .. Len(args[i]) : args[i][j] # Newline
  <1>1. PICK m : m = [type |-> ty, args |-> args]
    OBVIOUS
  <1>2. m.type = ty /\ m.args = args /\ is_valid(m)
    BY <1>1
  <1>3. Len(args) = ArgumentCount[ty]
    BY <1>2 DEF is_valid
  <1>4. ASSUME NEW i \in 1 .. Len(args) PROVE \A j \in 1 .. Len(args[i]) : args[i][j] # Newline
    <2>1. ArgumentCount[ty] # 0
      BY <1>3, <1>4
    <2>2. ty \in {"LOGIN", "CREATE", "SET", "GET"} \cup {"PUSH", "DATA"}
      BY <2>1 DEF ArgumentCount, OneArgument, TwoArguments
    <2>3. CASE ty \in {"LOGIN", "CREATE", "SET", "GET"}
      <3>1. identifier_is_valid(args[i])
        BY <1>2, <2>3 DEF is_valid
      <3>2. PICK a : a = args[i]
        OBVIOUS
      <3>3. /\ a[1] \in Letter
            /\ \A j \in 2 .. Len(a) : a[j] \in Letter \cup {"digit", "underscore"}
        BY <3>1, <3>2 DEF identifier_is_valid
      <3>4. Newline \notin Letter \cup {"digit", "underscore"}
        BY DEF Letter, MessageType, Newline
      <3>5. Len(a) \in Nat
        BY <3>2, LenProperties, ElementOfSeq DEF Texts
      <3>6. \A j \in 1 .. Len(a) : a[j] # Newline
        BY <3>3, <3>4, <3>5
      <3> QED
        BY <3>2, <3>6
    <2>4. CASE ty \in {"PUSH", "DATA"}
      BY <1>2, <2>4 DEF is_valid, value_is_valid
    <2> QED
      BY <2>2, <2>3, <2>4
  <1> QED
    BY <1>4

(* What the readers on both sides rely on: encode ends every message in the  *)
(* only newline it has, provided the texts of FAILED and ERROR, which the    *)
(* server writes, have none.                                                 *)
THEOREM OneMessageOneLine ==
    ASSUME NEW ty \in MessageType, NEW args \in Texts,
           is_valid([type |-> ty, args |-> args]),
           ty \in {"FAILED", "ERROR"} =>
              \A i \in 1 .. Len(args) : \A j \in 1 .. Len(args[i]) : args[i][j] # Newline
    PROVE  LET e == encoded_msg([type |-> ty, args |-> args])
           IN  \A i \in 1 .. Len(e) : e[i] = Newline <=> i = Len(e)
  <1> DEFINE D == Character \ {Newline}
  <1>1. \A i \in 1 .. Len(args) : \A j \in 1 .. Len(args[i]) : args[i][j] # Newline
    BY ValidArgsHaveNoNewline
  <1>2. args \in Seq(Seq(D))
    <2>1. ASSUME NEW i \in 1 .. Len(args) PROVE args[i] \in Seq(D)
      <3>1. PICK a : a = args[i]
        OBVIOUS
      <3>2. a \in Seq(Character)
        BY <3>1, ElementOfSeq DEF Texts
      <3>3. \A j \in 1 .. Len(a) : a[j] \in D
        BY <1>1, <2>1, <3>1, <3>2, ElementOfSeq
      <3>4. a \in Seq(D)
        <4> HIDE DEF D
        <4> QED
          BY <3>2, <3>3, SeqOver
      <3> QED
        BY <3>1, <3>4
    <2> HIDE DEF D
    <2> QED
      BY <2>1, SeqOver DEF Texts
  <1>3. PICK x : x = encoded_args(args)
    OBVIOUS
  <1>4. x \in Seq(D)
    <2>1. D \subseteq Character /\ Space \in D
      BY Marks DEF Character
    <2> HIDE DEF D
    <2> QED
      BY <1>2, <1>3, <2>1, EncodeOver
  <1>5. PICK t : t = messageTypeToString(ty)
    OBVIOUS
  <1>6. t \in Seq(D)
    <2>1. ty \in D
      BY Marks DEF Plain
    <2> HIDE DEF D
    <2> QED
      BY <1>5, <2>1, EmptySeq DEF messageTypeToString
  <1>7. PICK y : y = t \o x
    OBVIOUS
  <1>8. y \in Seq(D) /\ Len(y) \in Nat /\ \A i \in 1 .. Len(y) : y[i] # Newline
    <2>1. y \in Seq(D)
      <3> HIDE DEF D
      <3> QED
        BY <1>4, <1>6, <1>7, ConcatProperties
    <2>2. Len(y) \in Nat /\ \A i \in 1 .. Len(y) : y[i] \in D
      <3> HIDE DEF D
      <3> QED
        BY <2>1, LenProperties, ElementOfSeq
    <2> QED
      BY <2>1, <2>2
  <1>9. PICK e : e = Append(y, Newline)
    OBVIOUS
  <1>10. e = encoded_msg([type |-> ty, args |-> args])
    <2>1. encoded_msg([type |-> ty, args |-> args]) = y \o <<Newline>>
      BY <1>3, <1>5, <1>7 DEF encoded_msg
    <2>2. y \in Seq(Character) /\ Newline \in Character
      BY <1>8, SeqMonotonic DEF Character
    <2>3. Append(y, Newline) = y \o <<Newline>>
      BY <2>2, AppendIsConcat
    <2> QED
      BY <1>9, <2>1, <2>3
  <1>11. /\ Len(e) = Len(y) + 1 /\ e[Len(y) + 1] = Newline
         /\ \A i \in 1 .. Len(y) : e[i] = y[i]
    <2>1. y \in Seq(Character) /\ Newline \in Character
      BY <1>8, SeqMonotonic DEF Character
    <2> QED
      BY <1>9, <2>1, AppendProperties
  <1>12. \A i \in 1 .. Len(e) : e[i] = Newline <=> i = Len(e)
    BY <1>8, <1>11
  <1> QED
    BY <1>10, <1>12
=============================================================================
