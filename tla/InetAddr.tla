------------------------------- MODULE InetAddr -------------------------------
(***************************************************************************)
(* inet_aton.c and ascii2addr.c: an address from its text.  A byte has W   *)
(* bits, an unsigned long four bytes.                                      *)
(***************************************************************************)
EXTENDS Integers, SequencesExt, Bitwise

CONSTANTS
    W,              \* 8 in the code
    AddrChars       \* 15: what ascii2addr keeps of the text

ASSUME WidthAssumption == W \in Nat \ {0} /\ AddrChars \in Nat

EOS == "EOS"
CharAt(s, i) == IF i > Len(s) THEN EOS ELSE s[i]
Numerals == <<"0", "1", "2", "3", "4", "5", "6", "7", "8", "9", "a", "b", "c", "d", "e", "f">>
isdigit(c) == \E d \in 0 .. 9 : Numerals[d + 1] = c
DigitOf(c) == CHOOSE d \in 0 .. 9 : Numerals[d + 1] = c

Long == 2 ^ (4 * W)
Shifted(val, bytes) == (val * 2 ^ (bytes * W)) % Long

\* "Collect number": the prefix says the base; the digits are those of isdigit,
\* whatever the base.
Number(s, i) ==
    LET zero == s[i] = "0"
        hex == zero /\ CharAt(s, i + 1) \in {"x", "X"}
        base == IF hex THEN 16 ELSE IF zero THEN 8 ELSE 10
        first == IF hex THEN i + 2 ELSE IF zero THEN i + 1 ELSE i
        behind == CHOOSE j \in first .. Len(s) + 1 :
                     /\ ~isdigit(CharAt(s, j))
                     /\ \A k \in first .. j - 1 : isdigit(s[k])
    IN  [next |-> behind,
         val |-> FoldLeft(LAMBDA val, c : (val * base + DigitOf(c)) % Long, 0,
                          SubSeq(s, first, behind - 1))]

Refused == [parts |-> <<>>, next |-> 0]

\* The parts up to the first character that belongs to none, and its place.
Parts(s) ==
    LET from[i \in 1 .. Len(s) + 1, pp \in 0 .. 3] ==
            LET number == Number(s, i)
                rest == from[number.next + 1, pp + 1]
            IN  CASE ~isdigit(CharAt(s, i)) -> Refused
                  [] isdigit(CharAt(s, i)) /\ CharAt(s, number.next) # "." ->
                        [parts |-> <<number.val>>, next |-> number.next]
                  [] OTHER -> IF pp = 3 \/ rest = Refused THEN Refused
                              ELSE [rest EXCEPT !.parts = <<number.val>> \o @]
    IN  from[1, 0]

\* Mutant of InRange: off by one.
InRangeOrAt(val, n) == n = 1 \/ val <= 2 ^ ((5 - n) * W)

\* Whether the last of n parts fits the bytes that are left to it.
InRange(val, n) == n = 1 \/ val <= 2 ^ ((5 - n) * W) - 1

\* htonl: the first byte in memory is the highest.
htonl(val) == [i \in 1 .. 4 |-> (val \div 2 ^ ((4 - i) * W)) % 2 ^ W]

\* The bytes of the address, or <<>> when the text is refused.  The parts before the
\* last one are not looked at: what is above a byte runs into the others.
inet_aton(s) ==
    LET read == Parts(s)
        n == Len(read.parts)
        shifted == [i \in 1 .. n - 1 |-> Shifted(read.parts[i], 4 - i)]
    IN  IF \/ read = Refused
           \/ CharAt(s, read.next) \notin {EOS, " "}
           \/ ~InRange(read.parts[n], n)
        THEN <<>>
        ELSE htonl(FoldLeft(LAMBDA val, part : val | part, read.parts[n], shifted))

ascii2addr(af, s) ==
    IF af = "AF_INET" THEN inet_aton(SubSeq(s, 1, IF Len(s) < AddrChars THEN Len(s) ELSE AddrChars))
    ELSE <<>>

------------------------------------------------------------------------------
(* What an address says: up to four numbers, each written in some base. *)

Numeral(v, base) ==
    LET digits[n \in Nat] ==
            IF n < base THEN <<Numerals[n + 1]>>
            ELSE Append(digits[n \div base], Numerals[(n % base) + 1])
    IN  digits[v]

Prefix(base) == CASE base = 8 -> <<"0">> [] base = 10 -> <<>> [] base = 16 -> <<"0", "x">>
NumberText(number) == Prefix(number.base) \o Numeral(number.v, number.base)
AddressText(numbers, tail) ==
    FoldLeft(LAMBDA s, number : s \o <<".">> \o NumberText(number),
             NumberText(Head(numbers)), Tail(numbers)) \o tail

\* A number is a byte, and the last one has the bytes that are left.
AddressMeant(numbers) ==
    LET n == Len(numbers)
    IN  [i \in 1 .. 4 |->
            IF i < n THEN numbers[i].v
            ELSE (numbers[n].v \div 2 ^ ((4 - i) * W)) % 2 ^ W]

\* What can be written: no letters in hexadecimal numbers, which are refused
\* although they are announced (inet_aton.c:23), bytes before the last number, no
\* number above an unsigned long, and nothing that ascii2addr cuts off.
Sayable(numbers, tail) ==
    LET n == Len(numbers)
        text == AddressText(numbers, tail)
    IN  /\ \A i \in 1 .. n - 1 : numbers[i].v < 2 ^ W
        /\ numbers[n].v < Long
        /\ \A i \in 1 .. n, d \in 10 .. 15 : Numerals[d + 1] \notin ToSet(NumberText(numbers[i]))
        /\ Len(text) <= AddrChars

\* Whether the address read from the text is the one that was meant.
AddressReadRight(numbers, tail, address) ==
    LET n == Len(numbers)
        valid == n <= 4 /\ numbers[n].v < 2 ^ ((5 - n) * W) /\ (tail = <<>> \/ tail[1] = " ")
    IN  Sayable(numbers, tail) =>
            address = IF valid THEN AddressMeant(numbers) ELSE <<>>
================================================================================
