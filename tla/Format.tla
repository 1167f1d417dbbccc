------------------------------- MODULE Format -------------------------------
(***************************************************************************)
(* The format interpreter of kprintf (src/serial.c) with the conversion of *)
(* numbers it calls, and the glyphs of the screen font for what it prints. *)
(* fkprintf (src/fb.c) is the same interpreter, statement for statement,   *)
(* with fkputc for put_char.                                               *)
(*                                                                         *)
(* A character is a string of length one, or its name: the control         *)
(* characters and the grave accent have one.  An argument is a machine     *)
(* word, which has WORD values (2^64 in the code), a character, or a text, *)
(* which may be NULL.                                                      *)
(***************************************************************************)
EXTENDS Integers, Sequences, SequencesExt

CONSTANTS
  WORD,
  Calls       \* sequences of pieces: the part of a format, its arguments and
              \* what should come of it

NUL  == "NUL"
NULL == <<NUL, NUL>>       \* the null pointer, as an argument

(***************************************************************************)
(* The characters in the order of the font, which has one bitmap for each. *)
(***************************************************************************)
Controls == {NUL, "SOH", "STX", "ETX", "EOT", "ENQ", "ACK", "BEL", "BS", "HT",
             "LF", "VT", "FF", "CR", "SO", "SI", "DLE", "DC1", "DC2", "DC3",
             "DC4", "NAK", "SYN", "ETB", "CAN", "EM", "SUB", "ESC", "FS", "GS",
             "RS", "US"}
Blank    == {" "}
Signs    == {"!", "\"", "#", "$", "%", "&", "'", "(", ")", "*", "+", ",", "-",
             ".", "/"}
Digits   == {"0", "1", "2", "3", "4", "5", "6", "7", "8", "9"}
Colons   == {":", ";", "<", "=", ">", "?", "@"}
Capitals == {"A", "B", "C", "D", "E", "F", "G", "H", "I", "J", "K", "L",
             "M", "N", "O", "P", "Q", "R", "S", "T", "U", "V", "W", "X",
             "Y", "Z"}
Brackets == {"[", "\\", "]", "^", "_", "GRAVE"}
Letters  == {"a", "b", "c", "d", "e", "f", "g", "h", "i", "j", "k", "l",
             "m", "n", "o", "p", "q", "r", "s", "t", "u", "v", "w", "x",
             "y", "z"}
Braces   == {"{", "|", "}", "~"}
Delete   == {"DEL"}

Chars == UNION {Controls, Blank, Signs, Digits, Colons, Capitals, Brackets,
                Letters, Braces, Delete}

(***************************************************************************)
(* A bitmap by which others are equal to it: the control characters have   *)
(* one box, space has no ink, and all the others have a shape of their own.*)
(***************************************************************************)
ascii_font == [c \in Chars |-> IF c \in Controls \cup Delete THEN "box"
                               ELSE IF c \in Blank THEN "empty" ELSE c]

(* The characters that can be told from every other by their glyph. *)
Legible == {c \in Chars : \A d \in Chars : ascii_font[d] = ascii_font[c] => d = c}

(* What can be read off the screen: these, and a line feed by what it does. *)
Visible(c) == c \in Legible \cup {"LF"}

AllVisible(s) == \A j \in 1 .. Len(s) : Visible(s[j])

(* Digits are looked up by their value; rem > 9 gives a letter. *)
Numerals == <<"0", "1", "2", "3", "4", "5", "6", "7", "8", "9",
              "a", "b", "c", "d", "e", "f">>

(* s is n in positional notation, read from left to right, in base b. *)
Positional(s, n, b) ==
  /\ s # <<>>
  /\ Len(s) > 1 => s[1] # "0"
  /\ \A k \in DOMAIN s : \E d \in 1 .. b : s[k] = Numerals[d]
  /\ n = FoldLeft(LAMBDA v, c : v * b + (CHOOSE k \in 0 .. 15 : Numerals[k + 1] = c), 0, s)

(***************************************************************************)
(* What the parts a format is made of stand for: themselves, or what the   *)
(* conversion says of the argument.  p is a part, its arguments and what   *)
(* should come of it.                                                      *)
(***************************************************************************)
Itself(p) == p.args = <<>> /\ p.text = p.format

PlainText(p) == Itself(p) /\ \A k \in DOMAIN p.format : p.format[k] # "%"

Of(p, S) == Len(p.format) = 2 /\ p.format[1] = "%" /\ p.format[2] \in S

PercentSign(p) == Of(p, {"%"}) /\ p.args = <<>> /\ p.text = <<"%">>

OneArgument(p, S) == Of(p, S) /\ Len(p.args) = 1 /\ p.args = <<p.args[1]>>

Character(p) ==
  OneArgument(p, {"c"}) /\ p.text = <<p.args[1]>> /\ Visible(p.args[1])

String(p) ==
  /\ OneArgument(p, {"s"})
  /\ p.text = IF p.args[1] = NULL THEN <<"(", "n", "u", "l", "l", ")">> ELSE p.args[1]
  /\ p.args[1] # NULL => AllVisible(p.args[1])

(* An integer argument is taken as an unsigned word. *)
Decimal(p) ==
  /\ OneArgument(p, {"d", "u"}) /\ p.args[1] \in Int
  /\ Positional(p.text, p.args[1] % WORD, 10)

Hexadecimal(p) ==
  /\ OneArgument(p, {"x", "p"}) /\ p.args[1] \in Int
  /\ Len(p.text) > 2 /\ p.text[1] = "0" /\ p.text[2] = "x"
  /\ Positional(SubSeq(p.text, 3, Len(p.text)), p.args[1] % WORD, 16)

NoConversion(p) ==
  Itself(p) /\ Of(p, Chars \ {"%", "c", "s", "d", "u", "x", "p"})

(***************************************************************************)
(* Every part is one of these, none is empty, no format contains its own   *)
(* terminator or ends in a lone '%', and what is given to be printed, in   *)
(* a format or as a character or a text, can be seen.                      *)
(***************************************************************************)
Piece(p) ==
  /\ p.format \in Seq(Chars \ {NUL}) /\ p.format # <<>> /\ AllVisible(p.format)
  /\ p.text \in Seq(Chars)
  /\ \/ PlainText(p) \/ PercentSign(p) \/ Character(p) \/ String(p)
     \/ Decimal(p) \/ Hexadecimal(p) \/ NoConversion(p)

ASSUME CallsAssumption ==
  /\ WORD \in Nat \ {0}
  /\ \A c \in Calls : /\ Len(c) \in Nat /\ DOMAIN c = 1 .. Len(c)
                      /\ \A k \in DOMAIN c : Piece(c[k])

VARIABLES
  call,       \* the call: what format and arguments were made of
  pc,         \* "scan", in uitoa "digits" or "reverse", "print" or "return"
  i, arg,     \* the index into format, and the next argument
  num, base,  \* uitoa's arguments
  str,        \* buffer, as far as it is filled
  start,      \* reverse's left index
  out         \* what has been printed

vars  == <<call, pc, i, arg, num, base, str, start, out>>
uitoa_vars == <<num, base, str, start>>

FlattenField(c, field) == FlattenSeq([k \in DOMAIN c |-> c[k][field]])

format == FlattenField(call, "format")
args   == FlattenField(call, "args")

Init ==
  /\ call \in Calls
  /\ pc = "scan" /\ i = 0 /\ arg = 1
  /\ num = 0 /\ base = 0 /\ str = <<>> /\ start = 1
  /\ out = <<>>

-----------------------------------------------------------------------------
format_at(k) == IF k < Len(format) THEN format[k + 1] ELSE NUL

kprint(s) == out' = out \o s

(* The loop body for a character that is not '%'. *)
literal ==
  /\ pc = "scan" /\ format_at(i) \notin {NUL, "%"}
  /\ kprint(<<format_at(i)>>)
  /\ i' = i + 1
  /\ UNCHANGED <<call, pc, arg, uitoa_vars>>

(* The loop body for a '%' and the character behind it, one of S. *)
Conversion(S) == pc = "scan" /\ format_at(i) = "%" /\ format_at(i + 1) \in S

MovesThree  == i' = i + 3          \* mutant: one i++ too many

(* va_arg, and the two i++ of a conversion *)
Takes(n) == arg' = arg + n
Moves    == i' = i + 2

conversion_c ==
  /\ Conversion({"c"}) /\ Moves /\ Takes(1)
  /\ kprint(<<args[arg]>>)
  /\ UNCHANGED <<call, pc, uitoa_vars>>

TextOf(s) == IF s = NULL THEN <<"(", "n", "u", "l", "l", ")">> ELSE s

conversion_s ==
  /\ Conversion({"s"}) /\ Moves /\ Takes(1)
  /\ kprint(TextOf(args[arg]))
  /\ UNCHANGED <<call, pc, uitoa_vars>>

(* %d and %u, %x and %p: the number goes to uitoa, and its text is printed. *)
Number(b, prefix) ==
  /\ Moves /\ Takes(1)
  /\ kprint(prefix)
  /\ num' = args[arg] % WORD /\ base' = b
  /\ str' = <<>> /\ start' = 1
  /\ pc' = "digits"
  /\ UNCHANGED call

conversion_d == Conversion({"d", "u"}) /\ Number(10, <<>>)
conversion_x == Conversion({"p", "x"}) /\ Number(16, <<"0", "x">>)

percent ==
  /\ Conversion({"%"}) /\ Moves /\ Takes(0)
  /\ kprint(<<"%">>)
  /\ UNCHANGED <<call, pc, uitoa_vars>>

(* default: the two characters as they are; a NUL is stepped over too. *)
unknown ==
  /\ pc = "scan" /\ format_at(i) = "%"
  /\ format_at(i + 1) \notin {"c", "s", "d", "u", "p", "x", "%"}
  /\ Moves /\ Takes(0)
  /\ kprint(<<"%", format_at(i + 1)>>)
  /\ UNCHANGED <<call, pc, uitoa_vars>>

kprintf_return ==
  /\ pc = "scan" /\ i >= Len(format)
  /\ pc' = "return"
  /\ UNCHANGED <<call, i, arg, uitoa_vars, out>>

-----------------------------------------------------------------------------
(* uitoa *)

(* (rem > 9) ? (rem - 10) + 'a' : rem + '0' *)
Numeral(rem) == Numerals[rem + 1]

(* The lowest digit; zero, which has a branch of its own, has one as well. *)
uitoa_digit ==
  /\ pc = "digits"
  /\ num # 0 \/ str = <<>>
  /\ str' = Append(str, Numeral(num % base))
  /\ num' = num \div base
  /\ UNCHANGED <<call, pc, i, arg, base, start, out>>

uitoa_digits_done ==
  /\ pc = "digits" /\ num = 0 /\ str # <<>>
  /\ pc' = "reverse"
  /\ UNCHANGED <<call, i, arg, uitoa_vars, out>>

EndOff == Len(str) - start              \* mutant: the text's end is one off

End == Len(str) + 1 - start

reverse_swap ==
  /\ pc = "reverse" /\ start < End
  /\ str' = [str EXCEPT ![start] = str[End], ![End] = str[start]]
  /\ start' = start + 1
  /\ UNCHANGED <<call, pc, i, arg, num, base, out>>

(* reverse and uitoa return, and their caller prints the buffer. *)
print_number ==
  /\ pc = "reverse" /\ start >= End
  /\ kprint(str)
  /\ str' = <<>> /\ start' = 1 /\ base' = 0
  /\ pc' = "scan"
  /\ UNCHANGED <<call, i, arg, num>>

Over == pc = "return" /\ UNCHANGED vars

Next ==
  \/ literal \/ conversion_c \/ conversion_s \/ conversion_d \/ conversion_x
  \/ percent \/ unknown \/ kprintf_return
  \/ uitoa_digit \/ uitoa_digits_done \/ reverse_swap \/ print_number
  \/ Over

Spec == Init /\ [][Next]_vars

FairSpec == Spec /\ WF_vars(Next)

-----------------------------------------------------------------------------
(* Properties *)

(* What a call should print: the texts of its pieces, one after the other. *)
Meant == FlattenField(call, "text")

(***************************************************************************)
(* A format is taken apart the way it was put together: at every time what *)
(* has been printed is the beginning of what was meant, and in the end all *)
(* of it, with every argument used once.  A number comes out in positional *)
(* notation, zero and the largest word included.  And nothing is printed   *)
(* that cannot be told from something else, of what is given none and of   *)
(* what the interpreter adds, the digits, 0x and (null), least of all the  *)
(* terminator of a text.                                                   *)
(***************************************************************************)
PrintsWhatIsMeant ==
  /\ IsPrefix(out, Meant)
  /\ pc = "return" => out = Meant /\ arg = Len(args) + 1
  /\ pc = "reverse" /\ start >= End => Positional(str, args[arg - 1] % WORD, base)
  /\ AllVisible(out)

(***************************************************************************)
(* The interpreter stops at the terminator: with no '%' right before it    *)
(* it never steps over it, and it does stop.                               *)
(***************************************************************************)
StopsAtTerminator == [](i <= Len(format)) /\ <>(pc = "return")

=============================================================================
