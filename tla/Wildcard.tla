------------------------------- MODULE Wildcard -------------------------------
(***************************************************************************)
(* The patterns of glob.c: what glob0 makes of the characters of a         *)
(* pattern, and what match takes for a name.  Strings are sequences of     *)
(* characters; a slash inside brackets is not written.                     *)
(***************************************************************************)
EXTENDS Integers, SequencesExt

CONSTANT Alphabet       \* a sequence: the characters in the order of their codes

Code(c) == CHOOSE i \in DOMAIN Alphabet : Alphabet[i] = c

\* strcmp(s, t) < 0
Before(s, t) ==
    \E i \in DOMAIN t :
        /\ i <= Len(s) + 1
        /\ \A j \in 1..(i - 1) : s[j] = t[j]
        /\ i <= Len(s) => Code(s[i]) < Code(t[i])

Literal(c) == [kind |-> "char", char |-> c]
M_ALL == [kind |-> "all"]
M_SET(chars, negate) == [kind |-> "set", chars |-> chars, negate |-> negate]
M_ONE == M_SET(ToSet(Alphabet), FALSE)

ismeta(t) == t.kind # "char"
SEP == Literal("/")
DOT == Literal(".")

\* The characters w lists from index first on, up to the bracket at index end.
Elements(w, first, end) ==
    LET from[j \in first..end] ==
        LET range == w[j + 1] = "-" /\ w[j + 2] # "]"
            last == IF range THEN j + 2 ELSE j
            chars == {c \in ToSet(Alphabet) : Code(c) \in Code(w[j]) .. Code(w[last])}
        IN  IF j = end THEN {} ELSE chars \cup from[last + 1]
    IN  from[first]

\* glob0: a bracket that is not closed behind its first character is a character,
\* and adjacent stars are one.
Compile(w) ==
    LET from[i \in 1..(Len(w) + 1)] ==
        LET negate == i < Len(w) /\ w[i + 1] = "!"
            first == IF negate THEN i + 2 ELSE i + 1
            end == SelectInSubSeq(w, first + 1, Len(w), LAMBDA c : c = "]")
        IN  IF i > Len(w) THEN <<>>
            ELSE IF w[i] = "[" /\ end # 0
            THEN <<M_SET(Elements(w, first, end), negate)>> \o from[end + 1]
            ELSE IF w[i] = "?" THEN <<M_ONE>> \o from[i + 1]
            ELSE IF w[i] # "*" THEN <<Literal(w[i])>> \o from[i + 1]
            ELSE IF i < Len(w) /\ w[i + 1] = "*" THEN from[i + 1]
            ELSE <<M_ALL>> \o from[i + 1]
    IN  from[1]

\* Whether token t stands for character c.
Takes(t, c) ==
    CASE t.kind = "char" -> c = t.char
      [] t.kind = "set" -> (c \in t.chars) # t.negate

\* Mutant of match: a star takes at least one character.
matchSome(name, pat) ==
    LET from[i \in 1..(Len(pat) + 1), j \in 1..(Len(name) + 1)] ==
        IF i > Len(pat) THEN j > Len(name)
        ELSE IF pat[i] = M_ALL THEN \E k \in (j + 1)..(Len(name) + 1) : from[i + 1, k]
        ELSE j <= Len(name) /\ Takes(pat[i], name[j]) /\ from[i + 1, j + 1]
    IN  from[1, 1]

match(name, pat) ==
    LET from[i \in 1..(Len(pat) + 1), j \in 1..(Len(name) + 1)] ==
        IF i > Len(pat) THEN j > Len(name)
        ELSE IF pat[i] = M_ALL THEN \E k \in j..(Len(name) + 1) : from[i + 1, k]
        ELSE j <= Len(name) /\ Takes(pat[i], name[j]) /\ from[i + 1, j + 1]
    IN  from[1, 1]
==============================================================================
