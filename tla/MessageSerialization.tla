------------------------ MODULE MessageSerialization ------------------------
(***************************************************************************)
(* MessageSerialization::encode and decode, and the rules of Message that  *)
(* decode applies, on text: sequences of characters.                       *)
(*                                                                         *)
(* Characters are told apart as far as the code does: the space, the       *)
(* newline, the quote, and members of a class of the others.  The command  *)
(* words are characters as well, made of letters: PUSH stands for the four *)
(* letters wherever it occurs, and a word is a command only if it is that  *)
(* character and no other.                                                 *)
(***************************************************************************)
EXTENDS Protocol, Integers, Sequences

CONSTANTS
    Char,     \* the characters of a run
    MaxLen    \* Message::MAX_ENCODED_LEN

Space == "space"
Newline == "newline"
Quote == "quote"

ASSUME MessageSerializationAssumption ==
    /\ Char \subseteq MessageType \cup
          {Space, Newline, Quote, "letter", "@", "digit", "underscore", "tab",
           "punctuation"}
    /\ MaxLen \in Nat \ {0}

-----------------------------------------------------------------------------
(* Message::is_valid.                                                        *)

(* identifier_is_valid tests for 64..90, which takes '@' for a letter. *)
Letter == (MessageType \ {"NONE"}) \cup {"letter", "@"}

identifier_is_valid(s) ==
    /\ s # <<>>
    /\ s[1] \in Letter
    /\ \A i \in 2 .. Len(s) : s[i] \in Letter \cup {"digit", "underscore"}

(* A plausible slip: only the length is tested. *)
value_is_not_empty(s) == s # <<>>

value_is_valid(s) ==
    /\ s # <<>>
    /\ \A i \in 1 .. Len(s) : s[i] \notin {Space, Newline, "tab"}

(* The first and the last character are not looked at: the text is taken to  *)
(* be inside its quotes.                                                     *)
quoted_text_is_valid(s) == \A i \in 2 .. Len(s) - 1 : s[i] # Quote

is_valid(m) ==
    /\ Len(m.args) = ArgumentCount[m.type]
    /\ \A i \in 1 .. Len(m.args) :
          /\ m.type \in {"LOGIN", "CREATE", "SET", "GET"}
                => identifier_is_valid(m.args[i])
          /\ m.type \in {"PUSH", "DATA"} => value_is_valid(m.args[i])
          /\ m.type \in {"FAILED", "ERROR"} => quoted_text_is_valid(m.args[i])

-----------------------------------------------------------------------------
(* encode.                                                                   *)

messageTypeToString(type) == IF type = "NONE" THEN <<>> ELSE <<type>>

(* Arguments are written as they are: text is not put in quotes. *)
encoded_args(args) ==
    LET written[i \in 0 .. Len(args)] ==
            IF i = 0 THEN <<>> ELSE written[i - 1] \o <<Space>> \o args[i]
    IN  written[Len(args)]

encoded_msg(m) ==
    messageTypeToString(m.type) \o encoded_args(m.args) \o <<Newline>>

(* A plausible slip: the newline that ends the message is not counted. *)
encodable_without_newline(m) == Len(encoded_msg(m)) <= MaxLen + 1

(* Otherwise encode throws InvalidMessage. *)
encodable(m) == Len(encoded_msg(m)) <= MaxLen

-----------------------------------------------------------------------------
(* decode.                                                                   *)

stringToMessageType(s) ==
    IF Len(s) = 1 /\ s[1] \in MessageType THEN s[1] ELSE "NONE"

(***************************************************************************)
(* The loop over the arguments, a character at a time: args and arg as in  *)
(* the code, in "words" or "quoted" according to which of the two loops    *)
(* it is in, "done" at the newline that ends the message.                  *)
(***************************************************************************)
push_arg(scan) ==
    IF scan.arg = <<>> THEN scan
                       ELSE [scan EXCEPT !.args = Append(@, scan.arg), !.arg = <<>>]

(* A plausible slip: a quote does not end the word before it. *)
open_quote_in_word(scan) == [scan EXCEPT !.loop = "quoted"]

open_quote(scan) == [push_arg(scan) EXCEPT !.loop = "quoted"]

(* A plausible slip: the inner loop goes on after the closing quote. *)
close_quote_without_break(scan) ==
    [loop |-> "quoted", args |-> Append(scan.args, scan.arg), arg |-> <<>>]

close_quote(scan) ==
    [loop |-> "words", args |-> Append(scan.args, scan.arg), arg |-> <<>>]

next_char(scan, c) ==
    CASE scan.loop = "done" -> scan
      [] scan.loop = "words" /\ c = Space -> push_arg(scan)
      [] scan.loop = "words" /\ c = Newline -> [push_arg(scan) EXCEPT !.loop = "done"]
      [] scan.loop = "words" /\ c = Quote -> open_quote(scan)
      [] scan.loop = "quoted" /\ c = Quote -> close_quote(scan)
      [] OTHER -> [scan EXCEPT !.arg = Append(@, c)]

scan_args(text) ==
    LET scanned[i \in 0 .. Len(text)] ==
            IF i = 0 THEN [loop |-> "words", args |-> <<>>, arg |-> <<>>]
                     ELSE next_char(scanned[i - 1], text[i])
    IN  scanned[Len(text)]

(* Where the message type starts and where it ends. *)
type_start(line) ==
    CHOOSE i \in 1 .. Len(line) :
        line[i] # Space /\ \A j \in 1 .. i - 1 : line[j] = Space

type_end(line) ==
    CHOOSE i \in type_start(line) .. Len(line) :
        /\ line[i] \in {Space, Newline}
        /\ \A j \in type_start(line) .. i - 1 : line[j] \notin {Space, Newline}

(* What follows the type. *)
tail(line) == SubSeq(line, type_end(line), Len(line))

(* The exceptions: out_of_range is thrown by at() and caught by nobody in    *)
(* the server.                                                               *)
Throws(exception) == [throws |-> exception, type |-> "NONE", args |-> <<>>]

Returns(m) == [throws |-> "nothing", type |-> m.type, args |-> m.args]

(***************************************************************************)
(* A line of exactly MaxLen characters ends the loops by their own bound,  *)
(* so there an unterminated quote is no error: its text is dropped.        *)
(***************************************************************************)
decode(line) ==
    IF Len(line) > MaxLen THEN Throws("InvalidMessage")
    ELSE IF line = <<>> THEN Throws("out_of_range")
    ELSE IF line[Len(line)] # Newline THEN Throws("InvalidMessage")
    ELSE LET scan == scan_args(tail(line))
             m == [type |-> stringToMessageType(
                               SubSeq(line, type_start(line), type_end(line) - 1)),
                   args |-> scan.args]
         IN  IF scan.loop = "quoted" /\ Len(line) < MaxLen
             THEN Throws("out_of_range")
             ELSE IF is_valid(m) THEN Returns(m) ELSE Throws("InvalidMessage")
=============================================================================
