-------------------------------- MODULE Fnmatch --------------------------------
(***************************************************************************)
(* fnmatch.c (NetBSD): whether a name fits a pattern, under four flags.    *)
(* Strings are sequences of characters, ended by EOS in the code.          *)
(***************************************************************************)
EXTENDS Integers, SequencesExt

\* Characters, in the order of their codes.
Letters == <<"*", "-", ".", "/", "?", "A", "B", "\\", "a", "b">>
Flags == {"PATHNAME", "PERIOD", "NOESCAPE", "CASEFOLD"}
Upper == <<"A", "B">>
Lower == <<"a", "b">>
EOS == "EOS"

Ord(c) == CHOOSE i \in DOMAIN Letters : Letters[i] = c
foldcase(c, flags) ==
    IF "CASEFOLD" \in flags /\ c \in ToSet(Upper)
    THEN Lower[CHOOSE i \in DOMAIN Upper : Upper[i] = c] ELSE c

\* The character at place i, folded; EOS behind the end.
Folded(s, i, flags) == IF i > Len(s) THEN EOS ELSE foldcase(s[i], flags)

\* rangematch from place i on, after a '!' or '^': the place behind the ']', 0 when
\* there is none, and whether a character or a range holds test.
RangeFrom(w, i, test, flags) ==
    LET escapes(c) == c = "\\" /\ "NOESCAPE" \notin flags
        from[j \in 1 .. Len(w) + 1] ==
            LET c1 == Folded(w, j, flags)
                low == IF escapes(c1) THEN j + 1 ELSE j
                c == Folded(w, low, flags)
                c2 == Folded(w, low + 2, flags)
                high == IF escapes(c2) THEN low + 3 ELSE low + 2
                range == Folded(w, low + 1, flags) = "-" /\ c2 \notin {EOS, "]"}
                top == Folded(w, high, flags)
                rest == from[IF range THEN high + 1 ELSE low + 1]
            IN  CASE c1 = "]" -> [next |-> j + 1, ok |-> FALSE]
                  [] c1 # "]" /\ (c = EOS \/ (range /\ top = EOS)) -> [next |-> 0, ok |-> FALSE]
                  [] OTHER ->
                        [rest EXCEPT !.ok = @ \/ IF range THEN /\ Ord(c) <= Ord(test)
                                                              /\ Ord(test) <= Ord(top)
                                                 ELSE c = test]
    IN  from[i]

\* NULL is 0.
rangematch(w, i, test, flags) ==
    LET negate == Folded(w, i, {}) \in {"!", "^"}
        range == RangeFrom(w, IF negate THEN i + 1 ELSE i, test, flags)
    IN  IF range.ok = negate THEN 0 ELSE range.next

\* A period that only a period may stand for, where start is the place fnmatch was
\* called with.
LeadingPeriod(s, k, start, flags) ==
    /\ k <= Len(s) /\ s[k] = "." /\ "PERIOD" \in flags
    /\ k = start \/ ("PATHNAME" \in flags /\ k > 1 /\ s[k - 1] = "/")

RECURSIVE MatchFrom(_, _, _, _, _, _)

\* Mutant of Star: a star takes slashes whatever the flags say.
StarTakesSlash(w, i, s, k, start, flags) ==
    LET stars == {j \in i .. Len(w) + 1 : \A m \in i .. j - 1 : Folded(w, m, flags) = "*"}
        next == CHOOSE j \in stars : \A m \in stars : m <= j
    IN  /\ ~LeadingPeriod(s, k, start, flags)
        /\ next > Len(w) \/ \E m \in k .. Len(s) :
                               MatchFrom(w, next, s, m, m, flags \ {"PERIOD"})

\* The star before place i of the pattern, at place k of the string: further stars
\* are skipped; at the end of the pattern, or before a slash, there is no choice;
\* otherwise every place up to the next slash is tried, and not the end.
Star(w, i, s, k, start, flags) ==
    LET stars == {j \in i .. Len(w) + 1 : \A m \in i .. j - 1 : Folded(w, m, flags) = "*"}
        next == CHOOSE j \in stars : \A m \in stars : m <= j
        slashes == IF "PATHNAME" \in flags THEN {m \in k .. Len(s) : s[m] = "/"} ELSE {}
    IN  /\ ~LeadingPeriod(s, k, start, flags)
        /\ CASE next > Len(w) -> slashes = {}
             [] next <= Len(w) /\ w[next] = "/" /\ "PATHNAME" \in flags ->
                   \E m \in slashes : /\ \A n \in slashes : m <= n
                                      /\ MatchFrom(w, next, s, m, start, flags)
             [] OTHER ->
                   \E m \in k .. Len(s) :
                      /\ \A n \in slashes : m <= n
                      /\ MatchFrom(w, next, s, m, m, flags \ {"PERIOD"})

\* The loop of fnmatch at place i of the pattern and k of the string.
MatchFrom(w, i, s, k, start, flags) ==
    LET c == Folded(w, i, flags)
        one == k <= Len(s) /\ ~(s[k] = "/" /\ "PATHNAME" \in flags)
        escaped == c = "\\" /\ "NOESCAPE" \notin flags /\ i < Len(w)
        literal == IF escaped THEN Folded(w, i + 1, flags) ELSE c
    IN  CASE c = EOS -> k > Len(s)
          [] c = "?" -> /\ one /\ ~LeadingPeriod(s, k, start, flags)
                        /\ MatchFrom(w, i + 1, s, k + 1, start, flags)
          [] c = "*" -> Star(w, i + 1, s, k, start, flags)
          [] c = "[" -> /\ one
                        /\ LET j == rangematch(w, i + 1, Folded(s, k, flags), flags)
                           IN  j # 0 /\ MatchFrom(w, j, s, k + 1, start, flags)
          [] OTHER -> /\ literal = Folded(s, k, flags)
                      /\ MatchFrom(w, IF escaped THEN i + 2 ELSE i + 1, s, k + 1, start, flags)

fnmatch(w, s, flags) == MatchFrom(w, 1, s, 1, 1, flags)

------------------------------------------------------------------------------
(* What a pattern stands for, given by its pieces: a character, a question     *)
(* mark, a star, a bracket with its elements and the characters it is for, or  *)
(* one of the first three behind a backslash.                                  *)

Char(c) == [kind |-> "char", char |-> c]
AnyOne == [kind |-> "any", char |-> "?"]
Many == [kind |-> "star", char |-> "*"]
Escaped(piece) == [kind |-> "escaped", of |-> piece]
Bracket(negate, elements, chars) ==
    [kind |-> "set", negate |-> negate, elements |-> elements, chars |-> chars]

Text(piece) ==
    CASE piece.kind \in {"char", "any", "star"} -> <<piece.char>>
      [] piece.kind = "escaped" -> <<"\\", piece.of.char>>
      [] piece.kind = "set" -> <<"[">> \o (IF piece.negate THEN <<"!">> ELSE <<>>)
                                  \o piece.elements \o <<"]">>
PatternText(pieces) == FlattenSeq([i \in DOMAIN pieces |-> Text(pieces[i])])

\* A backslash takes away the meaning of what follows, or is a character itself.
Unescaped(pieces, flags) ==
    FlattenSeq([i \in DOMAIN pieces |->
        CASE pieces[i].kind # "escaped" -> <<pieces[i]>>
          [] pieces[i].kind = "escaped" /\ "NOESCAPE" \in flags -> <<Char("\\"), pieces[i].of>>
          [] OTHER -> <<Char(pieces[i].of.char)>>])

Same(c, d, flags) == foldcase(c, flags) = foldcase(d, flags)
NotSlash(part, flags) == "PATHNAME" \in flags => "/" \notin ToSet(part)

\* The characters of a bracket, in which a backslash is one when it does not escape.
Members(set, flags) ==
    set.chars \cup IF "NOESCAPE" \in flags THEN {"\\"} \cap ToSet(set.elements) ELSE {}

\* Whether a piece stands for a part of the name.
Stands(piece, part, flags) ==
    CASE piece.kind = "char" -> Len(part) = 1 /\ Same(part[1], piece.char, flags)
      [] piece.kind = "any" -> Len(part) = 1 /\ NotSlash(part, flags)
      [] piece.kind = "star" -> NotSlash(part, flags)
      [] piece.kind = "set" ->
            /\ Len(part) = 1 /\ NotSlash(part, flags)
            /\ (\E c \in Members(piece, flags) : Same(part[1], c, flags)) # piece.negate

\* The places of the name where a period must be written.
Leading(s, flags) ==
    IF "PERIOD" \notin flags THEN {}
    ELSE {k \in DOMAIN s : s[k] = "." /\ (k = 1 \/ ("PATHNAME" \in flags /\ s[k - 1] = "/"))}

\* Cuts of the name into one part per piece, where ends[i] is the end of part i.  A
\* star is not before a leading period either, when it stands for nothing.
Fits(pieces, s, flags) ==
    \E ends \in [0 .. Len(pieces) -> 0 .. Len(s)] :
        /\ ends[0] = 0 /\ ends[Len(pieces)] = Len(s)
        /\ \A i \in 1 .. Len(pieces) :
              LET first == ends[i - 1] + 1
              IN  /\ ends[i - 1] <= ends[i]
                  /\ Stands(pieces[i], SubSeq(s, first, ends[i]), flags)
                  /\ pieces[i].kind \in {"any", "star"} =>
                        \A k \in Leading(s, flags) : k # first /\ k \notin first .. ends[i]

\* Behind a star a period at the start of a later segment is no longer looked for,
\* unless a slash follows the star.
Plainly(pieces, flags) ==
    {"PERIOD", "PATHNAME"} \subseteq flags =>
        \A i \in 1 .. Len(pieces) - 1 :
            pieces[i].kind = "star" => pieces[i + 1] \in {Char("/"), Many}

\* Whether the names the pattern matches are those it stands for.
MatchedRight(pieces, flags, names, matched) ==
    LET read == Unescaped(pieces, flags)
    IN  Plainly(read, flags) => matched = {s \in names : Fits(read, s, flags)}
================================================================================
