-------------------------------- MODULE Braces --------------------------------
(***************************************************************************)
(* The braces of glob.c (GLOB_BRACE): the patterns without braces that     *)
(* globexp1 and globexp2 hand to glob0, in the order of the calls.         *)
(*                                                                         *)
(* A pattern is the sequence of its characters up to EOS.  A character     *)
(* that was quoted is another character than the same one unquoted.        *)
(***************************************************************************)
EXTENDS Integers, FiniteSets, SequencesExt

EOS == "EOS"
Char(w, i) == IF i > Len(w) THEN EOS ELSE w[i]

\* g_strchr: the first place from i on, 0 when there is none.
g_strchr(w, i, c) ==
    LET places == {j \in i .. Len(w) : w[j] = c}
    IN  IF places = {} THEN 0 ELSE CHOOSE j \in places : \A k \in places : j <= k

\* "Ignore everything between []": from the '[' at i to its ']', or only the '['
\* when there is none.
PastBracket(w, i) == LET j == g_strchr(w, i + 1, "]") IN IF j = 0 THEN i ELSE j

\* The first loop of globexp2: the place of the '}' that closes the brace, where i
\* is the place behind the '{' and deep the number of braces open since.  Behind
\* the end, 0.
Balanced(w, first) ==
    LET from[i \in 1 .. Len(w) + 1, deep \in 0 .. Len(w)] ==
            CASE i > Len(w) -> 0
              [] Char(w, i) = "[" -> from[PastBracket(w, i) + 1, deep]
              [] Char(w, i) = "{" -> from[i + 1, deep + 1]
              [] Char(w, i) = "}" -> IF deep = 0 THEN i ELSE from[i + 1, deep - 1]
              [] OTHER -> from[i + 1, deep]
    IN  from[first, 0]

\* Mutant of Alternatives: commas count in inner braces too.
AlternativesFlat(w, first, end) ==
    LET from[i \in first .. end + 1, pl \in first .. end + 1, deep \in 0 .. Len(w)] ==
            CASE i > end -> <<>>
              [] i = end \/ Char(w, i) = "," ->
                    <<SubSeq(w, pl, i - 1)>> \o from[i + 1, i + 1, deep]
              [] OTHER -> from[i + 1, pl, deep]
    IN  from[first, first, 0]

\* The second loop: the alternatives between first and the closing brace.  pl is
\* where the current one begins; a bracket moves it (glob.c:328), and with it what
\* is before the bracket is lost.
Alternatives(w, first, end) ==
    LET from[i \in first .. end + 1, pl \in first .. end + 1, deep \in 0 .. Len(w)] ==
            CASE i > end -> <<>>
              [] Char(w, i) = "[" -> from[PastBracket(w, i) + 1, i, deep]
              [] Char(w, i) = "{" -> from[i + 1, pl, deep + 1]
              [] Char(w, i) = "}" /\ deep > 0 -> from[i + 1, pl, deep - 1]
              [] Char(w, i) \in {",", "}"} /\ deep = 0 ->
                    <<SubSeq(w, pl, i - 1)>> \o from[i + 1, i + 1, deep]
              [] OTHER -> from[i + 1, pl, deep]
    IN  from[first, first, 0]

\* globexp2, for the brace at open: each result goes back to globexp1, and the
\* search for braces ends; what glob0 returns is lost on the way.  A brace that is
\* not closed: glob0 gets the buffer (glob.c:320), of which only the part before
\* the brace has been written, and what follows it, up to a zero, is anything; here
\* nothing.
RECURSIVE globexp1(_)
globexp2(w, open) ==
    LET end == Balanced(w, open + 1)
        result(alternative) ==
            SubSeq(w, 1, open - 1) \o alternative \o SubSeq(w, end + 1, Len(w))
        alternatives == Alternatives(w, open + 1, end)
    IN  IF end = 0 THEN <<SubSeq(w, 1, open - 1)>>
        ELSE FlattenSeq([i \in DOMAIN alternatives |-> globexp1(result(alternatives[i]))])

globexp1(w) ==
    LET open == g_strchr(w, 1, "{")
    IN  IF w = <<"{", "}">> \/ open = 0 THEN <<w>> ELSE globexp2(w, open)

------------------------------------------------------------------------------
(* What braces stand for.  A word is a sequence of pieces; a piece is a text   *)
(* without braces, or a brace with its alternatives, which are words.          *)

Literal(text) == [kind |-> "text", text |-> text]
Brace(words) == [kind |-> "brace", words |-> words]

RECURSIVE WordText(_)
PieceText(piece) ==
    IF piece.kind = "text" THEN piece.text
    ELSE LET texts == [i \in DOMAIN piece.words |-> WordText(piece.words[i])]
         IN  <<"{">> \o FoldLeft(LAMBDA s, t : s \o <<",">> \o t, Head(texts), Tail(texts)) \o <<"}">>
WordText(word) == FlattenSeq([i \in DOMAIN word |-> PieceText(word[i])])

\* Every choice of an alternative for each brace; those of the first brace change
\* slowest.
RECURSIVE Meaning(_)
PieceMeaning(piece) ==
    IF piece.kind = "text" THEN <<piece.text>>
    ELSE FlattenSeq([i \in DOMAIN piece.words |-> Meaning(piece.words[i])])
Meaning(word) ==
    IF word = <<>> THEN <<<<>>>>
    ELSE LET heads == PieceMeaning(Head(word))
             tails == Meaning(Tail(word))
         IN  FlattenSeq([i \in DOMAIN heads |->
                           [j \in DOMAIN tails |-> heads[i] \o tails[j]]])

\* A word whose brackets outside of plain text come only at the beginning of an
\* alternative: elsewhere the text before them is lost (glob.c:328).
RECURSIVE Kept(_)
Kept(word) ==
    \A i \in DOMAIN word : word[i].kind = "brace" =>
        \A j \in DOMAIN word[i].words :
            LET alternative == word[i].words[j]
            IN  /\ Kept(alternative)
                /\ \A k \in 2 .. Len(WordText(alternative)) : WordText(alternative)[k] # "["
                /\ alternative # <<>> /\ alternative[1].kind = "brace" =>
                      "[" \notin ToSet(WordText(alternative))

\* Brackets are closed, or there is nothing that could close one.
Closed(word) ==
    LET w == WordText(word)
        places(c) == {i \in DOMAIN w : w[i] = c}
    IN  places("]") # {} => Cardinality(places("[")) = Cardinality(places("]"))

\* Whether the patterns are those the word stands for.  {} alone stands for itself,
\* and may do so when it is what is left of a word.
ExpandedRight(word, patterns) ==
    LET w == WordText(word)
        empty == \E i \in 1 .. Len(w) - 1 : w[i] = "{" /\ w[i + 1] = "}"
    IN  Kept(word) /\ Closed(word) /\ (empty => Len(w) = 2) =>
           patterns = IF empty THEN <<w>> ELSE Meaning(word)
================================================================================
