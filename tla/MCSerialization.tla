-------------------------- MODULE MCSerialization --------------------------
(***************************************************************************)
(* Every text over Char of up to MaxLen + 1 characters, read in two ways:  *)
(* as a line that decode is given, and as the arguments of a message that  *)
(* encode is given.                                                        *)
(***************************************************************************)
EXTENDS MessageSerialization, FiniteSets

VARIABLE text

Init == text = <<>>

Next ==
    /\ Len(text) <= MaxLen
    /\ \E c \in Char : text' = Append(text, c)

Spec == Init /\ [][Next]_text

-----------------------------------------------------------------------------
(* What decode makes of text. *)
decoded == decode(text)

Accepted == decoded.throws = "nothing"

(* The messages whose arguments, put together, are text. *)
Messages ==
    [type : Char \cap MessageType,
     args : {<<>>, <<text>>} \cup
            {<<SubSeq(text, 1, i), SubSeq(text, i + 1, Len(text))>> :
                i \in 1 .. Len(text)}]

(* A word decode reads back as one argument. *)
OneWord(s) == s # <<>> /\ \A i \in 1 .. Len(s) : s[i] \notin {Space, Newline, Quote}

(* The characters that have an even number of quotes before them. *)
Unquoted(s) ==
    {i \in 1 .. Len(s) : Cardinality({j \in 1 .. i - 1 : s[j] = Quote}) % 2 = 0}

Quotes(s) == {i \in 1 .. Len(s) : s[i] = Quote}

(* decode inverts encode on the messages that keep to the format, and on no  *)
(* others: a valid message comes back as it was exactly if no argument is    *)
(* empty or has a space, a newline or a quote in it.                         *)
DecodeInvertsEncode ==
    \A m \in Messages :
        is_valid(m) /\ encodable(m) =>
            (decode(encoded_msg(m)) = Returns(m)
                <=> \A i \in 1 .. Len(m.args) : OneWord(m.args[i]))

(* A request or DATA message however oddly written (runs of spaces, quotes)  *)
(* is the message of its canonical encoding, which fits MAX_ENCODED_LEN; and *)
(* a value the server accepts in a PUSH it can send back in a DATA message,  *)
(* where the client reads the same value.                                    *)
AcceptedLinesAreCanonical ==
    Accepted /\ decoded.type \notin {"FAILED", "ERROR"} =>
        \A ty \in {decoded.type} \cup
                  (IF decoded.type = "PUSH" THEN {"DATA"} ELSE {}) :
            LET m == [type |-> ty, args |-> decoded.args]
            IN  encodable(m) /\ decode(encoded_msg(m)) = Returns(m)

(* Every newline after the type is inside quotes. *)
OpenQuote == \A i \in Unquoted(tail(text)) : tail(text)[i] # Newline

(* decode stays within a line whose quotes are closed: the text of an        *)
(* argument, whatever it is and wherever its quotes are, never makes the     *)
(* loops run past the newline that ends the message (std::out_of_range is an *)
(* exception no handler of the server matches).                              *)
ClosedQuotesAreAnswered ==
    text # <<>> /\ (text[Len(text)] = Newline => ~OpenQuote)
        => decoded.throws \in {"nothing", "InvalidMessage"}

(* The lines of rio_readlineb: one newline, at the end. *)
IsLine == text # <<>> /\ \A i \in 1 .. Len(text) : text[i] = Newline <=> i = Len(text)

(* What exceptions.h:6-8 says of InvalidMessage: a line of a wrong format is *)
(* one, so no line makes decode throw anything else, and a quote that is not *)
(* closed is refused.  The code does neither: it reads past the end of such  *)
(* a line or, if the line is as long as a line may be, drops the text and    *)
(* may accept the rest.                                                      *)
MalformedLinesAreInvalid ==
    IsLine =>
        /\ decoded.throws \in {"nothing", "InvalidMessage"}
        /\ OpenQuote => decoded.throws = "InvalidMessage"

(* Each argument comes from one place of the line: a pair of quotes makes    *)
(* one, even with nothing in between, and so does each unquoted run of       *)
(* characters, wherever a quote, a space or the end of the line cuts it.     *)
ArgumentsAreWordsAndQuotes ==
    Accepted =>
        LET s == tail(text)
            end == CHOOSE i \in Unquoted(s) \cup {Len(s) + 1} :
                       /\ i \in Unquoted(s) => s[i] = Newline
                       /\ \A j \in Unquoted(s) : s[j] = Newline => i <= j
            word == {i \in Unquoted(s) : i < end /\ s[i] \notin {Space, Quote}}
            opening == {i \in Unquoted(s) : i < end /\ s[i] = Quote}
        IN  Len(decoded.args) =
                Cardinality({i \in word : i - 1 \notin word})
                  + Cardinality({i \in opening : \E j \in Quotes(s) : j > i})
=============================================================================
