------------------------------ MODULE CommandLine ------------------------------
(***************************************************************************)
(* From the command line to the options of a program: _setargv (ceargv.c)  *)
(* cuts the line into words and has glob expand those without quotes, and  *)
(* main, called with the result (cert0.c), reads its options with getopt.  *)
(*                                                                         *)
(* The lines are those made of words by whoever starts the program: every  *)
(* quote is closed, and a quote starts and ends a word.                    *)
(***************************************************************************)
EXTENDS Glob, Getopt

CONSTANTS
    Lines,          \* sequences of words; a word is quoted or is a pattern
    Blanks,         \* what may stand between two words
    Program,        \* the path of the program
    InitialSize     \* of argv: 10 in the code

ASSUME SizeAssumption == InitialSize \in Nat /\ InitialSize >= 2

VARIABLES
    words,          \* the words the line was made of
    line,           \* the memory that holds it
    p, s,           \* where _setargv is in it, and where the word there starts
    argc, argv,     \* argv[i] is a pointer into the line or a string of glob's
    size,           \* _size
    pc,
    restarted       \* main reads its options for the second time

setargv_vars == <<words, line, p, s, argc, argv, size>>
vars == <<files, glob_t, getopt_vars, setargv_vars, pc, restarted>>

------------------------------------------------------------------------------
(* Words.  A pattern is a sequence of segments, a segment a sequence of     *)
(* pieces, and a piece its text and what it is for: any number of           *)
(* characters, or one out of some.                                          *)

SegmentText(seg) == FlattenSeq([i \in DOMAIN seg |-> seg[i].text])
Join(names) == FoldLeft(LAMBDA w, n : IF w = <<>> THEN n ELSE w \o <<"/">> \o n, <<>>, names)
WordText(word) ==
    Join([i \in DOMAIN word.segments |-> SegmentText(word.segments[i])])

Bare(word) == word.quote = "none"
Written(word) ==
    IF Bare(word) THEN WordText(word)
    ELSE <<word.quote>> \o WordText(word) \o <<word.quote>>

IsLiteral(word) ==
    Bare(word) => \A i \in DOMAIN WordText(word) : WordText(word)[i] \notin {"*", "?", "["}

\* The line for some words, with blanks behind each but perhaps the last.
Line(ws, blank, last) ==
    LET upto[i \in 0..Len(ws)] ==
            IF i = 0 THEN <<>>
            ELSE upto[i - 1] \o Written(ws[i]) \o (IF i < Len(ws) THEN blank ELSE last)
    IN  Append(upto[Len(ws)], EOS)

\* Words are made of characters the program knows.  A word without quotes has none,
\* nor a blank, and is not empty; one in quotes has any other character.
ASSUME CharsAssumption ==
    {" ", "\"", "'", "/", ".", "-"} \subseteq Chars /\ {EOS, NULL} \cap (Chars \cup {"\t"}) = {}
WordOK(word) ==
    /\ WordText(word) \in Text
    /\ \/ Bare(word) /\ WordText(word) # <<>>
                     /\ {" ", "\t", "\"", "'"} \cap ToSet(WordText(word)) = {}
       \/ word.quote \in {"\"", "'"} \ ToSet(WordText(word))
ASSUME LinesAssumption ==
    /\ \A ws \in Lines : ws \in Seq(ToSet(ws)) /\ \A i \in DOMAIN ws : WordOK(ws[i])
    /\ Blanks \subseteq Seq({" ", "\t"} \cap Chars) \ {<<>>}
    /\ Program \in Text

TypeOK ==
    /\ GlobTypeOK /\ GetoptTypeOK
    /\ words \in Lines /\ line \in Seq(Chars \cup {EOS})
    /\ s \in 1..p /\ p \in 1..(Len(line) + 1)
    /\ argc = Len(argv) /\ size \in Nat
    /\ pc \in {"scan", "glob", "last_glob", "main", "parsed"}
    /\ restarted \in BOOLEAN

\* argv[0] in the end, when its separators are those of Unix.
ProgramName == [i \in DOMAIN Program |-> IF Program[i] = "\\" THEN "/" ELSE Program[i]]

Init ==
    /\ GlobInit /\ GetoptInit
    /\ words \in Lines /\ \E blank \in Blanks, last \in {<<>>, <<" ">>} : line = Line(words, blank, last)
    /\ p = 1 /\ s = 1
    /\ argc = 1 /\ argv = <<[at |-> 0, string |-> ProgramName]>> /\ size = InitialSize
    /\ pc = "scan" /\ restarted = FALSE

------------------------------------------------------------------------------
(* _setargv *)

InLine(i) == [at |-> i, string |-> <<>>]
OfGlob(w) == [at |-> 0, string |-> w]

StringAt(i) == SubSeq(line, i, SelectInSubSeq(line, i, Len(line), LAMBDA c : c = EOS) - 1)

\* What main sees of an entry of argv.
Argument(a) == IF a.at = 0 THEN a.string ELSE StringAt(a.at)
Arguments == [i \in DOMAIN argv |-> Argument(argv[i])]

\* Mutant of Grown: no room is left for the NULL behind the last entry.
GrownTight(n, count) == IF count >= n THEN 2 * n ELSE n

\* _size when one more entry comes to those there are.
Grown(n, count) == IF count >= n - 1 THEN 2 * n ELSE n

\* _size when some more come one by one.
GrownBy(number) ==
    LET grown[i \in 0 .. number] ==
            IF i = 0 THEN size ELSE Grown(grown[i - 1], argc + i - 1)
    IN  grown[number]

\* Mutant of argv_append: the entries of a word count as one.
argv_appendOne(entries) ==
    argv' = argv \o entries /\ size' = GrownBy(Len(entries)) /\ argc' = argc + 1

argv_append(entries) ==
    argv' = argv \o entries /\ size' = GrownBy(Len(entries)) /\ argc' = argc + Len(entries)

\* The first character from i on that is none of cs.
Skip(i, cs) == SelectInSubSeq(line, i, Len(line), LAMBDA c : c \notin cs)

\* Mutant of Quoted: the word is not ended in the line.
QuotedOpen ==
    /\ pc = "scan" /\ line[p] \in {"\"", "'"}
    /\ argv_append(<<InLine(p + 1)>>)
    /\ p' = SelectInSubSeq(line, p + 1, Len(line), LAMBDA c : c \in {line[p], EOS}) + 1
    /\ s' = p'
    /\ UNCHANGED <<files, glob_t, getopt_vars, words, line, pc, restarted>>

\* A quoted word.
Quoted ==
    /\ pc = "scan" /\ line[p] \in {"\"", "'"}
    /\ argv_append(<<InLine(p + 1)>>)
    /\ LET close == SelectInSubSeq(line, p + 1, Len(line), LAMBDA c : c \in {line[p], EOS})
       IN  line' = [line EXCEPT ![close] = EOS] /\ p' = close + 1
    /\ s' = p'
    /\ UNCHANGED <<files, glob_t, getopt_vars, words, pc, restarted>>

WithinWord ==
    /\ pc = "scan" /\ line[p] \notin {"\"", "'", " ", "\t", EOS}
    /\ p' = p + 1
    /\ UNCHANGED <<files, glob_t, getopt_vars, words, line, s, argc, argv, size, pc, restarted>>

\* Mutant of Blank: the blanks are not passed over.
BlankStays ==
    /\ pc = "scan" /\ line[p] \in {" ", "\t"} /\ s = p
    /\ p' = p /\ s' = p
    /\ UNCHANGED <<files, glob_t, getopt_vars, words, line, argc, argv, size, pc, restarted>>

\* A blank with no word before it.
Blank ==
    /\ pc = "scan" /\ line[p] \in {" ", "\t"} /\ s = p
    /\ p' = Skip(p, {" ", "\t"}) /\ s' = p'
    /\ UNCHANGED <<files, glob_t, getopt_vars, words, line, argc, argv, size, pc, restarted>>

\* Mutant of WordEnd: the word is not ended in the line.
WordEndOpen ==
    /\ pc = "scan" /\ line[p] \in {" ", "\t"} /\ s # p
    /\ p' = p + 1 /\ pc' = "glob"
    /\ GlobCall(SubSeq(line, s, SelectInSubSeq(line, s, Len(line), LAMBDA c : c = EOS) - 1))
    /\ UNCHANGED <<getopt_vars, words, line, s, argc, argv, size, restarted>>

\* A blank, or the end of the line, behind a word: the word is ended and globbed.
WordEnd ==
    /\ pc = "scan" /\ line[p] \in {" ", "\t"} /\ s # p
    /\ line' = [line EXCEPT ![p] = EOS] /\ p' = p + 1 /\ pc' = "glob"
    /\ GlobCall(SubSeq(line, s, p - 1))
    /\ UNCHANGED <<getopt_vars, words, s, argc, argv, size, restarted>>

LastWord ==
    /\ pc = "scan" /\ line[p] = EOS /\ s # p
    /\ pc' = "last_glob"
    /\ GlobCall(StringAt(s))
    /\ UNCHANGED <<getopt_vars, words, line, p, s, argc, argv, size, restarted>>

\* What glob found becomes part of argv, its result is not looked at; then the
\* blanks are passed over, or argv is complete.
Expanded ==
    /\ pc \in {"glob", "last_glob"} /\ gpc = "done" /\ gpc' = "idle"
    /\ argv_append([i \in DOMAIN pathv |-> OfGlob(pathv[i])])
    /\ IF pc = "glob" THEN p' = Skip(p, {" ", "\t"}) /\ s' = p' /\ pc' = "scan"
       ELSE pc' = "main" /\ UNCHANGED <<p, s>>
    /\ UNCHANGED <<files, pattern, path, pat, dirs, open, pathv, aborted,
                   getopt_vars, words, line, restarted>>

LineEnd ==
    /\ pc = "scan" /\ line[p] = EOS /\ s = p
    /\ pc' = "main"
    /\ UNCHANGED <<files, glob_t, getopt_vars, setargv_vars, restarted>>

------------------------------------------------------------------------------
(* main *)

ReadOption ==
    /\ pc = "main" /\ GetoptLetter(Arguments)
    /\ UNCHANGED <<files, glob_t, setargv_vars, pc, restarted>>

OptionsRead ==
    /\ pc = "main" /\ GetoptMinusOne(Arguments) /\ pc' = "parsed"
    /\ UNCHANGED <<files, glob_t, setargv_vars, restarted>>

\* The program starts over, wherever it is, and does so once.
Restart ==
    /\ pc \in {"main", "parsed"} /\ ~restarted
    /\ restarted' = TRUE /\ pc' = "main"
    /\ optind' = 1 /\ optreset' = TRUE /\ seen' = <<>>
    /\ UNCHANGED <<files, glob_t, setargv_vars, ostr, place, optarg>>

Globbing == GlobStep /\ UNCHANGED <<getopt_vars, setargv_vars, pc, restarted>>
Others == Change /\ UNCHANGED <<getopt_vars, setargv_vars, pc, restarted>>

ProgramStep ==
    \/ Quoted \/ WithinWord \/ Blank \/ WordEnd \/ LastWord \/ Expanded \/ LineEnd
    \/ Globbing \/ ReadOption \/ OptionsRead

Next == ProgramStep \/ Restart \/ Others

\* The program runs; that others change files is limited by MaxChanges, and that it
\* starts over is up to it.
Spec == Init /\ [][Next]_vars /\ WF_vars(ProgramStep)

------------------------------------------------------------------------------
(* What a word is for, when the files are fs *)

\* Whether the pieces of a segment can be cut out of name n one after the other.
Stands(seg, n) ==
    \E cut \in [0..Len(seg) -> 0..Len(n)] :
        /\ cut[0] = 0 /\ cut[Len(seg)] = Len(n)
        /\ \A i \in DOMAIN seg :
              IF seg[i].any THEN cut[i - 1] <= cut[i]
              ELSE cut[i] = cut[i - 1] + 1 /\ n[cut[i]] \in seg[i].takes

Magic(seg) == \E i \in DOMAIN seg : seg[i].magic

\* The names segment seg has in a directory of fs; "." and ".." are in each.
NamesIn(fs, at, seg) ==
    LET there == {Last(f) : f \in {f \in fs : Front(f) = at}} \cup {<<".">>, <<".", ".">>}
    IN  IF Magic(seg)
        THEN {n \in there : Stands(seg, n) /\ (n[1] = "." => SegmentText(<<seg[1]>>) = <<".">>)}
        ELSE {SegmentText(seg)}

Searchable(fs, names) == IsDirectory(fs, Location(names))

\* The paths the first segments stand for.
Paths(fs, segs) ==
    LET Go(ps, seg) ==
            UNION {{Append(q, n) : n \in NamesIn(fs, Location(q), seg)} :
                       q \in {q \in ps : Magic(seg) => Searchable(fs, q)}}
    IN  FoldLeft(Go, {<<>>}, segs)

Expansions(fs, word) ==
    {Join(q) : q \in {q \in Paths(fs, word.segments) : Exists(fs, Location(q))}}

\* A directory to look in is none.
Unsearchable(fs, word) ==
    \E i \in DOMAIN word.segments :
        /\ Bare(word) /\ Magic(word.segments[i])
        /\ \E q \in Paths(fs, SubSeq(word.segments, 1, i - 1)) : ~Searchable(fs, q)

\* The arguments for a word.
Meaning(fs, word) ==
    IF ~Bare(word) \/ Expansions(fs, word) = {} THEN <<WordText(word)>>
    ELSE SetToSortSeq(Expansions(fs, word), Before)

------------------------------------------------------------------------------
(* Properties *)

\* While nobody changes the files, main gets the words of the line: the quoted ones
\* as they are written, the others as the sorted names they match, or as written if
\* they match none (glob.h:87); unless a directory to be searched is none, when glob
\* gives up and _setargv does not notice (ceargv.c:78, 105).
ArgvIsTheLine ==
    pc \in {"main", "parsed"} /\ changes = 0 =>
        /\ aborted <=> \E i \in DOMAIN words : Unsearchable(tree, words[i])
        /\ ~aborted => Arguments = <<ProgramName>>
              \o FlattenSeq([i \in DOMAIN words |-> Meaning(tree, words[i])])

\* A word in quotes or without wildcards reaches main as it is, once and in its place
\* among the others (ceargv.c:84-105, glob.h:87), whatever the others stand for and
\* whoever changes the files meanwhile.
LiteralsStay ==
    pc \in {"main", "parsed"} =>
        \E cut \in [0..Len(words) -> DOMAIN argv] :
            /\ cut[0] = 1 /\ cut[Len(words)] = Len(argv)
            /\ \A i \in DOMAIN words :
                  IF IsLiteral(words[i])
                  THEN cut[i] = cut[i - 1] + 1 /\ Argument(argv[cut[i]]) = WordText(words[i])
                  ELSE cut[i] >= cut[i - 1]

\* With files that come and go while glob looks at them (glob.c:591-715), it finds,
\* each once and in order, at least the matches that were there all the time and at
\* most those that were there at some time.
ExpansionRight ==
    gpc = "done" /\ ~aborted =>
        \E w \in ToSet(words) :
            /\ Bare(w) /\ WordText(w) = pattern /\ pathv # <<>>
            /\ \A i \in 1..(Len(pathv) - 1) : Before(pathv[i], pathv[i + 1])
            /\ Expansions(always, w) \subseteq ToSet(pathv)
            /\ \/ ToSet(pathv) \subseteq Expansions(ever, w)
               \/ pathv = <<pattern>> /\ Expansions(always, w) = {}

\* Whichever directories could not be opened, glob closes those it opened
\* (glob.c:710-713).
NoDirLeft == gpc \in {"idle", "done"} => open = 0

\* The vector has room for the NULL behind the last entry (ceargv.c:31-39).
ArgvHasRoom == argc + 1 <= size

\* getopt returns the options as they are in the arguments, and leaves optind at the
\* first argument behind them, also when the program starts over in the middle of an
\* argument (getopt.c:86-137).
OptionsAsRead ==
    pc = "parsed" => /\ seen = Reading(Arguments).out
                     /\ optind = Reading(Arguments).optind

\* _setargv comes to the end of the line, glob to the end of every directory, and
\* getopt to -1.
Ends == <>[](pc = "parsed")
==============================================================================
