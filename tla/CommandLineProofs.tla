--------------------------- MODULE CommandLineProofs ---------------------------
(* Proofs about the command line, for every line, tree of files, option string  *)
(* and order in which others change the files:                                  *)
(*   glob closes every directory it opened, whichever cannot be opened;         *)
(*   argv has room for the NULL behind its last entry;                          *)
(*   getopt reads the options that are in the arguments;                        *)
(*   a word in quotes or without wildcards reaches main as it is;               *)
(*   and the types of all variables, which rest on these.                       *)
EXTENDS CommandLine, SequenceTheorems, WellFoundedInduction, TLAPS

\* The DIRs that are open are those of the frames, and there is no frame when glob
\* does not run.
DirsOfFrames ==
    /\ dirs \in Seq(ToSet(dirs))
    /\ open = Len(dirs)
    /\ gpc \in {"idle", "done"} => dirs = <<>>

------------------------------------------------------------------------------
(* Sequences are sequences of what is in them. *)

LEMMA SeqOfItsElements ==
    ASSUME NEW S, NEW q \in Seq(S)
    PROVE  q \in Seq(ToSet(q))
  BY DEF ToSet

LEMMA FrontOfSeq ==
    ASSUME NEW S, NEW q \in Seq(S), q # <<>>
    PROVE  Front(q) \in Seq(S) /\ Len(Front(q)) = Len(q) - 1
<1>. DEFINE n == Len(q) - 1
<1>1. n \in Nat
  BY EmptySeq
<1>2. \A i \in 1..n : q[i] \in S
  BY <1>1
<1>. HIDE DEF n
<1>3. SubSeq(q, 1, n) \in Seq(S) /\ Len(SubSeq(q, 1, n)) = IF 1 <= n THEN n - 1 + 1 ELSE 0
  BY <1>1, <1>2, SubSeqProperties
<1>4. Len(SubSeq(q, 1, n)) = n
  BY <1>1, <1>3
<1>. QED
  BY <1>3, <1>4 DEF Front, n

------------------------------------------------------------------------------
(* The invariant *)

LEMMA InitDirs == Init => DirsOfFrames
<1>. SUFFICES ASSUME Init PROVE DirsOfFrames
  OBVIOUS
<1>1. dirs = <<>> /\ open = 0
  BY DEF Init, GlobInit
<1>. QED
  BY <1>1, EmptySeq DEF DirsOfFrames

LEMMA StutterDirs ==
    ASSUME DirsOfFrames, UNCHANGED <<gpc, dirs, open>>
    PROVE  DirsOfFrames'
  BY DEF DirsOfFrames, ToSet

\* glob starts without a frame.
LEMMA CallDirs ==
    ASSUME DirsOfFrames, NEW w, GlobCall(w)
    PROVE  DirsOfFrames'
  BY DEF DirsOfFrames, GlobCall, ToSet

LEMMA GlobStepDirs ==
    ASSUME DirsOfFrames, GlobStep
    PROVE  DirsOfFrames'
<1>1. CASE Glob2End
  BY <1>1 DEF DirsOfFrames, Glob2End, ToSet
<1>2. CASE Opendir
  <2>1. CASE dirs' = dirs /\ open' = open /\ gpc' = "unwind"
    BY <2>1 DEF DirsOfFrames, ToSet
  <2>2. ASSUME NEW frame, dirs' = Append(dirs, frame), open' = open + 1, gpc' = "glob3"
        PROVE  DirsOfFrames'
    <3>1. dirs \in Seq(ToSet(dirs) \cup {frame})
      BY DEF DirsOfFrames
    <3>2. dirs' \in Seq(ToSet(dirs) \cup {frame}) /\ Len(dirs') = Len(dirs) + 1
      BY <2>2, <3>1
    <3>. QED
      BY <2>2, <3>2, SeqOfItsElements DEF DirsOfFrames
  <2>. QED
    BY <1>2, <2>1, <2>2 DEF Opendir
<1>3. CASE Readdir
  <2>1. PICK n : /\ dirs # <<>>
                 /\ dirs' = [dirs EXCEPT ![Len(dirs)] = Advance(Last(dirs), n)]
                 /\ gpc' \in {"glob2", "glob3"} /\ open' = open
    BY <1>3 DEF Readdir
  <2>. DEFINE frame == Advance(Last(dirs), n)
  <2>2. dirs \in Seq(ToSet(dirs) \cup {frame})
    BY DEF DirsOfFrames
  <2>3. Len(dirs) \in 1..Len(dirs)
    BY <2>1, EmptySeq DEF DirsOfFrames
  <2>4. dirs' \in Seq(ToSet(dirs) \cup {frame}) /\ Len(dirs') = Len(dirs)
    BY <2>1, <2>2, <2>3, ExceptSeq
  <2>. QED
    BY <2>1, <2>4, SeqOfItsElements DEF DirsOfFrames
<1>4. CASE Closedir
  <2>1. dirs # <<>> /\ dirs' = Front(dirs) /\ open' = open - 1 /\ gpc' \in {"glob3", "unwind"}
    BY <1>4 DEF Closedir
  <2>2. dirs' \in Seq(ToSet(dirs)) /\ Len(dirs') = Len(dirs) - 1
    BY <2>1, FrontOfSeq DEF DirsOfFrames
  <2>. QED
    BY <2>1, <2>2, SeqOfItsElements DEF DirsOfFrames
<1>5. CASE GlobReturn
  BY <1>5 DEF DirsOfFrames, GlobReturn, ToSet
<1>. QED
  BY <1>1, <1>2, <1>3, <1>4, <1>5 DEF GlobStep

LEMMA NextDirs ==
    ASSUME DirsOfFrames, [Next]_vars
    PROVE  DirsOfFrames'
<1>1. CASE Quoted \/ WithinWord \/ Blank \/ LineEnd
  <2>1. UNCHANGED <<gpc, dirs, open>>
    BY <1>1 DEF Quoted, WithinWord, Blank, LineEnd, glob_t
  <2>. QED
    BY <2>1, StutterDirs
<1>2. CASE WordEnd \/ LastWord
  BY <1>2, CallDirs DEF WordEnd, LastWord
<1>3. CASE Expanded
  BY <1>3 DEF Expanded, DirsOfFrames, ToSet
<1>4. CASE Globbing
  BY <1>4, GlobStepDirs DEF Globbing
<1>5. CASE ReadOption \/ OptionsRead \/ Restart \/ Others
  <2>1. UNCHANGED <<gpc, dirs, open>>
    BY <1>5 DEF ReadOption, OptionsRead, Restart, Others, Change, glob_t
  <2>. QED
    BY <2>1, StutterDirs
<1>6. CASE UNCHANGED vars
  <2>1. UNCHANGED <<gpc, dirs, open>>
    BY <1>6 DEF vars, glob_t
  <2>. QED
    BY <2>1, StutterDirs
<1>. QED
  BY <1>1, <1>2, <1>3, <1>4, <1>5, <1>6 DEF Next, ProgramStep

LEMMA DirsAreNoDirLeft == DirsOfFrames => NoDirLeft
  BY EmptySeq DEF DirsOfFrames, NoDirLeft

\* No directory is open when glob has returned (glob.c:710-713), for every line, every
\* tree of files and every order in which others change it.
THEOREM NoDirIsLeft == Spec => []NoDirLeft
<1>1. DirsOfFrames /\ [Next]_vars => DirsOfFrames'
  BY NextDirs
<1>. QED
  BY InitDirs, <1>1, DirsAreNoDirLeft, PTL DEF Spec

------------------------------------------------------------------------------
(* Induction over an interval, as a fact about sets *)

\* A set with 0 that has i + 1 where it has i holds all numbers up to n.
LEMMA IntervalInduction ==
    ASSUME NEW n \in Nat, NEW T, 0 \in T, \A i \in 0 .. n - 1 : i \in T => i + 1 \in T
    PROVE  0 .. n \subseteq T
  <1> DEFINE out == (0 .. n) \ T
             less == {q \in Nat \X Nat : q[1] < q[2]}
  <1> SUFFICES ASSUME out # {} PROVE FALSE
    OBVIOUS
  <1>1. out \subseteq Nat
    OBVIOUS
  <1>0. IsWellFoundedOn(less, Nat)
    BY NatLessThanWellFounded DEF OpToRel
  <1>2. PICK i \in out : \A j \in out : ~(<<j, i>> \in less)
    <2> HIDE DEF out, less
    <2>1. QED  BY <1>0, <1>1, WFMin
  <1>3. i \in 1 .. n /\ i - 1 \in 0 .. n - 1 /\ i - 1 \notin out
    <2>1. i \in 1 .. n
      OBVIOUS
    <2>2. <<i - 1, i>> \in less
      BY <2>1
    <2>3. QED  BY <1>2, <2>1, <2>2
  <1>4. i - 1 \in T
    BY <1>3
  <1>5. i \in T
    BY <1>3, <1>4
  <1>6. QED  BY <1>5

\* g goes from first in n steps.
Iterates(g, first, step, n) ==
    g[0] = first /\ \A i \in 1 .. n : g[i] = step[<<g[i - 1], i>>]

\* There is a function with a given first value and given steps.
LEMMA Iteration ==
    ASSUME NEW S, NEW first \in S, NEW n \in Nat, NEW step \in [S \X (1 .. n) -> S]
    PROVE  \E g \in [0 .. n -> S] : Iterates(g, first, step, n)
  <1> DEFINE Up(g, m) == g \in [0 .. n -> S] /\ g[0] = first
                         /\ \A i \in 1 .. m : g[i] = step[<<g[i - 1], i>>]
             T == {m \in 0 .. n : \E g : Up(g, m)}
  <1>1. 0 \in T
    <2>1. Up([i \in 0 .. n |-> first], 0)
      OBVIOUS
    <2> HIDE DEF Up
    <2>2. QED  BY <2>1
  <1>2. ASSUME NEW m \in 0 .. n - 1, m \in T
        PROVE  m + 1 \in T
    <2>1. PICK g : Up(g, m)
      BY <1>2
    <2> DEFINE h == [g EXCEPT ![m + 1] = step[<<g[m], m + 1>>]]
    <2>2. m + 1 \in 1 .. n /\ g \in [0 .. n -> S] /\ g[m] \in S
      BY <2>1
    <2>3. h \in [0 .. n -> S] /\ h[m + 1] = step[<<g[m], m + 1>>]
          /\ \A i \in 0 .. m : h[i] = g[i]
      BY <2>2
    <2>4. ASSUME NEW i \in 1 .. m + 1
          PROVE  h[i] = step[<<h[i - 1], i>>]
      <3>1. CASE i = m + 1
        BY <2>3, <3>1
      <3>2. CASE i # m + 1
        BY <2>1, <2>3, <3>2
      <3>3. QED  BY <3>1, <3>2
    <2>5. Up(h, m + 1)
      BY <2>1, <2>3, <2>4
    <2> HIDE DEF Up, h
    <2>6. QED  BY <2>2, <2>5
  <1>3. n \in T
    <2> HIDE DEF T
    <2>1. QED  BY <1>1, <1>2, IntervalInduction
  <1>4. QED  BY <1>3 DEF Iterates

------------------------------------------------------------------------------
(* The room in argv *)

\* There is room in argv for the NULL, and what comes from glob can be counted.
Room ==
    /\ argv \in Seq(ToSet(argv)) /\ argc = Len(argv)
    /\ size \in Nat /\ argc + 1 <= size
    /\ pathv \in Seq(ToSet(pathv))

\* Behind each of some entries that come there is room for one more.
LEMMA GrownByKeepsRoom ==
    ASSUME size \in Nat, argc \in Nat, argc + 1 <= size, NEW n \in Nat
    PROVE  GrownBy(n) \in Nat /\ argc + n + 1 <= GrownBy(n)
  <1> DEFINE More(m, i) == Grown(m, argc + i - 1)
             step == [v \in Nat \X (1 .. n) |-> More(v[1], v[2])]
             Is(g) == g = [i \in 0 .. n |-> IF i = 0 THEN size ELSE More(g[i - 1], i)]
             grown == CHOOSE g : Is(g)
  <1>1. GrownBy(n) = grown[n]
    BY Zenon DEF GrownBy
  <1>2. \A m \in Nat, i \in 1 .. n : More(m, i) \in Nat
    BY DEF Grown
  <1>3. \A m \in Nat, i \in 1 .. n : argc + (i - 1) + 1 <= m => argc + i + 1 <= More(m, i)
    BY DEF Grown
  <1> HIDE DEF More
  <1>4. step \in [Nat \X (1 .. n) -> Nat]
    BY <1>2
  <1>5. PICK g \in [0 .. n -> Nat] : Iterates(g, size, step, n)
    <2> HIDE DEF step
    <2>1. QED  BY <1>4, Iteration
  <1>6. ASSUME NEW i \in 1 .. n
        PROVE  g[i] = More(g[i - 1], i)
    <2> HIDE DEF step
    <2>1. g[i - 1] \in Nat /\ <<g[i - 1], i>> \in Nat \X (1 .. n)
      BY <1>5
    <2> USE DEF step
    <2>2. step[<<g[i - 1], i>>] = More(g[i - 1], i)
      BY <2>1
    <2>3. QED  BY <1>5, <2>2 DEF Iterates
  <1>7. Is(g)
    BY <1>5, <1>6 DEF Iterates
  <1>8. Is(grown)
    BY <1>7
  <1> HIDE DEF grown
  <1>9. grown[0] = size /\ \A i \in 1 .. n : grown[i] = More(grown[i - 1], i)
    <2>1. 0 \in 0 .. n /\ \A i \in 1 .. n : i \in 0 .. n /\ i # 0
      OBVIOUS
    <2>2. QED  BY <1>8, <2>1
  <1> DEFINE T == {i \in 0 .. n : grown[i] \in Nat /\ argc + i + 1 <= grown[i]}
  <1>10. 0 \in T
    BY <1>9
  <1>11. ASSUME NEW i \in 0 .. n - 1, i \in T
         PROVE  i + 1 \in T
    <2>1. /\ i + 1 \in 1 .. n /\ (i + 1) - 1 = i
          /\ grown[i] \in Nat /\ argc + ((i + 1) - 1) + 1 <= grown[i]
      BY <1>11
    <2>2. grown[i + 1] = More(grown[i], i + 1)
      BY <1>9, <2>1
    <2>3. /\ More(grown[i], i + 1) \in Nat
          /\ argc + (i + 1) + 1 <= More(grown[i], i + 1)
      BY <1>2, <1>3, <2>1
    <2>4. QED  BY <2>1, <2>2, <2>3
  <1>12. n \in T
    <2> HIDE DEF T
    <2>1. 0 .. n \subseteq T
      BY <1>10, <1>11, IntervalInduction
    <2>2. QED  BY <2>1
  <1>13. QED  BY <1>1, <1>12

\* What is appended finds room, and leaves some.
LEMMA AppendKeepsRoom ==
    ASSUME Room, NEW S, NEW entries \in Seq(S), argv_append(entries), pathv' = pathv
    PROVE  Room'
  <1>1. Len(entries) \in Nat /\ argc \in Nat
    BY DEF Room
  <1>2. /\ argv' = argv \o entries /\ argc' = argc + Len(entries)
        /\ size' = GrownBy(Len(entries))
    BY DEF argv_append
  <1>3. size' \in Nat /\ argc' + 1 <= size'
    BY <1>1, <1>2, GrownByKeepsRoom DEF Room
  <1>4. /\ argv \in Seq(ToSet(argv) \cup S) /\ entries \in Seq(ToSet(argv) \cup S)
    BY DEF Room
  <1>5. argv' \in Seq(ToSet(argv) \cup S) /\ Len(argv') = Len(argv) + Len(entries)
    BY <1>2, <1>4, ConcatProperties
  <1>6. argv' \in Seq(ToSet(argv'))
    BY <1>5, SeqOfItsElements
  <1>7. pathv' \in Seq(ToSet(pathv'))
    BY DEF Room, ToSet
  <1>8. QED  BY <1>2, <1>3, <1>5, <1>6, <1>7 DEF Room

LEMMA StutterRoom ==
    ASSUME Room, UNCHANGED <<argc, argv, size>>, pathv' \in Seq(ToSet(pathv'))
    PROVE  Room'
  BY DEF Room, ToSet

\* What glob has found stays a sequence, whatever is found.
LEMMA GlobStepPathv ==
    ASSUME pathv \in Seq(ToSet(pathv)), GlobStep
    PROVE  pathv' \in Seq(ToSet(pathv'))
  <1>1. ASSUME NEW w, pathv' = globextend(w)
        PROVE  pathv' \in Seq(ToSet(pathv'))
    <2>1. pathv \in Seq(ToSet(pathv) \cup {w})
      OBVIOUS
    <2>2. pathv' \in Seq(ToSet(pathv) \cup {w})
      BY <1>1, <2>1 DEF globextend
    <2>3. QED  BY <2>2, SeqOfItsElements
  <1>2. ASSUME pathv' = pathv
        PROVE  pathv' \in Seq(ToSet(pathv'))
    BY <1>2
  <1>3. CASE Glob2End
    BY <1>1, <1>2, <1>3 DEF Glob2End
  <1>4. CASE Opendir \/ Readdir \/ Closedir
    BY <1>2, <1>4 DEF Opendir, Readdir, Closedir
  <1>5. CASE GlobReturn
    <2>1. ASSUME NEW order, pathv' = [i \in DOMAIN pathv |-> pathv[order[i]]]
          PROVE  pathv' \in Seq(ToSet(pathv'))
      <3>1. DOMAIN pathv = 1 .. Len(pathv) /\ Len(pathv) \in Nat
        OBVIOUS
      <3>2. pathv' \in [1 .. Len(pathv) -> ToSet(pathv')]
        BY <2>1, <3>1 DEF ToSet
      <3>3. QED  BY <3>1, <3>2
    <2>2. QED  BY <1>1, <1>2, <1>5, <2>1, Zenon DEF GlobReturn
  <1>6. QED  BY <1>3, <1>4, <1>5 DEF GlobStep

LEMMA InitRoom == Init => Room
  <1> SUFFICES ASSUME Init PROVE Room
    OBVIOUS
  <1> DEFINE name == [at |-> 0, string |-> ProgramName]
  <1>1. /\ argc = 1 /\ argv = <<name>> /\ size = InitialSize /\ pathv = <<>>
    BY DEF Init, GlobInit
  <1> HIDE DEF name
  <1>2. argv \in Seq({name}) /\ Len(argv) = 1
    BY <1>1
  <1>3. argv \in Seq(ToSet(argv)) /\ pathv \in Seq(ToSet(pathv))
    BY <1>1, <1>2, SeqOfItsElements, EmptySeq
  <1>4. QED  BY <1>1, <1>2, <1>3, SizeAssumption DEF Room

LEMMA NextRoom ==
    ASSUME Room, [Next]_vars
    PROVE  Room'
  <1>1. pathv \in Seq(ToSet(pathv)) /\ <<>> \in Seq(ToSet(<<>>))
    BY EmptySeq DEF Room
  <1>2. CASE Quoted
    <2>1. argv_append(<<InLine(p + 1)>>) /\ pathv' = pathv
      BY <1>2 DEF Quoted, glob_t
    <2>2. <<InLine(p + 1)>> \in Seq({InLine(p + 1)})
      OBVIOUS
    <2>3. QED  BY <2>1, <2>2, AppendKeepsRoom
  <1>3. CASE Expanded
    <2> DEFINE entries == [i \in DOMAIN pathv |-> OfGlob(pathv[i])]
               S == {OfGlob(w) : w \in ToSet(pathv)}
    <2>1. argv_append(entries) /\ pathv' = pathv
      BY <1>3 DEF Expanded
    <2>2. entries \in Seq(S)
      <3>1. DOMAIN pathv = 1 .. Len(pathv) /\ Len(pathv) \in Nat
        BY <1>1
      <3>2. entries \in [1 .. Len(pathv) -> S]
        BY <3>1 DEF ToSet
      <3>3. QED  BY <3>1, <3>2
    <2> HIDE DEF entries, S
    <2>3. QED  BY <2>1, <2>2, AppendKeepsRoom
  <1>4. CASE WithinWord \/ Blank \/ LineEnd \/ ReadOption \/ OptionsRead \/ Restart \/ Others
    <2>1. UNCHANGED <<argc, argv, size, pathv>>
      BY <1>4 DEF WithinWord, Blank, LineEnd, ReadOption, OptionsRead, Restart, Others, Change,
                  glob_t, setargv_vars
    <2>2. QED  BY <1>1, <2>1, StutterRoom
  <1>5. CASE WordEnd \/ LastWord
    <2>1. UNCHANGED <<argc, argv, size>> /\ pathv' = <<>>
      BY <1>5 DEF WordEnd, LastWord, GlobCall
    <2>2. QED  BY <1>1, <2>1, StutterRoom
  <1>6. CASE Globbing
    <2>1. UNCHANGED <<argc, argv, size>> /\ GlobStep
      BY <1>6 DEF Globbing, setargv_vars
    <2>2. QED  BY <1>1, <2>1, GlobStepPathv, StutterRoom
  <1>7. CASE UNCHANGED vars
    <2>1. UNCHANGED <<argc, argv, size, pathv>>
      BY <1>7 DEF vars, glob_t, setargv_vars
    <2>2. QED  BY <1>1, <2>1, StutterRoom
  <1>8. QED  BY <1>2, <1>3, <1>4, <1>5, <1>6, <1>7 DEF Next, ProgramStep

LEMMA RoomIsRoom == Room => ArgvHasRoom
  BY DEF Room, ArgvHasRoom

\* However many words a line has and however many names they stand for, the vector
\* is never full: the NULL behind the last entry has its place (ceargv.c:31-39).
THEOREM ArgvAlwaysHasRoom == Spec => []ArgvHasRoom
  <1>1. Room /\ [Next]_vars => Room'
    BY NextRoom
  <1>2. QED  BY InitRoom, <1>1, RoomIsRoom, PTL DEF Spec

------------------------------------------------------------------------------
(* The first and the last of some indices *)

LEMMA MinOf ==
    ASSUME NEW S, S \subseteq Nat, S # {}
    PROVE  Min(S) \in S /\ \A i \in S : Min(S) <= i
  <1> DEFINE less == {q \in Nat \X Nat : q[1] < q[2]}
  <1>0. IsWellFoundedOn(less, Nat)
    BY NatLessThanWellFounded DEF OpToRel
  <1>1. PICK m \in S : \A i \in S : ~(<<i, m>> \in less)
    <2> HIDE DEF less
    <2>1. QED  BY <1>0, WFMin
  <1>2. ASSUME NEW i \in S
        PROVE  m <= i
    <2>1. i \in Nat /\ m \in Nat /\ (i < m => <<i, m>> \in less)
      OBVIOUS
    <2>2. QED  BY <1>1, <2>1
  <1>3. QED  BY <1>2 DEF Min

LEMMA MaxOf ==
    ASSUME NEW n \in Nat, NEW S, S \subseteq 0 .. n, S # {}
    PROVE  Max(S) \in S /\ \A i \in S : i <= Max(S)
  <1> DEFINE T == {k \in 0 .. n : n - k \in S}
  <1>1. T \subseteq Nat /\ T # {}
    <2>1. PICK i : i \in S
      OBVIOUS
    <2>2. i \in 0 .. n
      BY <2>1
    <2>3. PICK k \in 0 .. n : n - k = i
      <3>1. n - i \in 0 .. n /\ n - (n - i) = i
        BY <2>2
      <3>2. QED  BY <3>1
    <2>4. k \in T
      BY <2>1, <2>3
    <2>5. T \subseteq Nat
      OBVIOUS
    <2>6. QED  BY <2>4, <2>5
  <1>2. Min(T) \in T /\ \A k \in T : Min(T) <= k
    <2> HIDE DEF T
    <2>1. QED  BY <1>1, MinOf
  <1>3. PICK m \in 0 .. n : n - m \in S /\ \A k \in T : m <= k
    BY <1>2
  <1>4. \A i \in S : i <= n - m
    <2> SUFFICES ASSUME NEW i \in S PROVE i <= n - m
      OBVIOUS
    <2>1. n - i \in T
      <3>1. i \in 0 .. n /\ n - i \in 0 .. n /\ n - (n - i) = i
        OBVIOUS
      <3>2. QED  BY <3>1
    <2>2. m <= n - i
      BY <1>3, <2>1
    <2>3. QED  BY <2>2
  <1>5. \E x \in S : \A y \in S : x >= y
    BY <1>3, <1>4
  <1> HIDE DEF T
  <1>6. QED  BY <1>5 DEF Max

------------------------------------------------------------------------------
(* The letters of an argument *)

Results == (Chars \cup {"?", ":"}) \X Chars \X (Text \cup {NULL})
Reads == [out : Seq(Results), optind : Nat, waits : Chars \cup {NULL}, ended : BOOLEAN]

\* How many characters of an argument come before its letters.
Lead(w) == IF Len(w) > 1 THEN 1 ELSE 0

LEMMA CharsFacts ==
    /\ EOS \notin Chars /\ NULL \notin Chars /\ EOS # "-" /\ NULL # "-"
    /\ "-" \in Chars
  BY CharsAssumption

LEMMA LettersFacts ==
    ASSUME NEW w \in Text, w # <<>>
    PROVE  /\ Letters(w) \in Text /\ Len(Letters(w)) \in Nat \ {0}
           /\ Len(Letters(w)) + Lead(w) = Len(w) /\ Lead(w) \in {0, 1}
           /\ \A i \in 1 .. Len(Letters(w)) : Letters(w)[i] = w[i + Lead(w)] /\ w[i + Lead(w)] \in Chars
  <1>1. Len(w) \in Nat \ {0} /\ \A i \in 1 .. Len(w) : w[i] \in Chars
    BY EmptySeq DEF Text
  <1>2. CASE Len(w) > 1
    <2>1. Letters(w) = Tail(w) /\ Lead(w) = 1
      BY <1>2 DEF Letters, Lead
    <2>2. /\ Tail(w) \in Text /\ Len(Tail(w)) = Len(w) - 1
          /\ \A i \in 1 .. Len(Tail(w)) : Tail(w)[i] = w[i + 1]
      BY HeadTailProperties DEF Text
    <2>3. QED  BY <1>1, <1>2, <2>1, <2>2
  <1>3. CASE ~(Len(w) > 1)
    BY <1>1, <1>3 DEF Letters, Lead
  <1>4. QED  BY <1>2, <1>3

LEMMA FirstStop ==
    ASSUME NEW l \in Text, NEW stop, stop = SelectInSeq(l, Stops)
    PROVE  \/ stop = 0 /\ \A i \in 1 .. Len(l) : ~Stops(l[i])
           \/ stop \in 1 .. Len(l) /\ Stops(l[stop]) /\ \A i \in 1 .. stop - 1 : ~Stops(l[i])
  <1> DEFINE I == {i \in 1 .. Len(l) : Stops(l[i])}
  <1>1. stop = IF I # {} THEN Min(I) ELSE 0
    BY DEF SelectInSeq
  <1>2. CASE I = {}
    BY <1>1, <1>2
  <1>3. CASE I # {}
    <2>1. I \subseteq Nat
      OBVIOUS
    <2>2. stop \in I /\ \A i \in I : stop <= i
      <3> HIDE DEF I
      <3>1. QED  BY <1>1, <1>3, <2>1, MinOf
    <2>3. Len(l) \in Nat /\ stop \in 1 .. Len(l) /\ Stops(l[stop])
      <3>1. Len(l) \in Nat
        BY DEF Text
      <3>2. QED  BY <2>2, <3>1
    <2>4. \A i \in 1 .. stop - 1 : i \in 1 .. Len(l) /\ ~(stop <= i)
      BY <2>3
    <2>5. QED  BY <2>2, <2>3, <2>4
  <1>4. QED  BY <1>2, <1>3

\* The first k letters, as flags.
FirstFlags(l, k) == [i \in 1 .. k |-> Flag(l[i])]

LEMMA FlagsFacts ==
    ASSUME NEW l \in Text, NEW k \in 0 .. Len(l)
    PROVE  /\ FirstFlags(l, k) \in Seq(Results) /\ Len(FirstFlags(l, k)) = k
           /\ \A i \in 1 .. k : FirstFlags(l, k)[i] = Flag(l[i])
  <1>1. \A i \in 1 .. k : Flag(l[i]) \in Results
    <2> SUFFICES ASSUME NEW i \in 1 .. k PROVE Flag(l[i]) \in Results
      OBVIOUS
    <2>1. l[i] \in Chars
      BY DEF Text
    <2>2. QED  BY <2>1 DEF Flag, Results
  <1>2. k \in Nat
    BY DEF Text
  <1> HIDE DEF Results
  <1>3. QED  BY <1>1, <1>2 DEF FirstFlags

LEMMA MoreFlags ==
    ASSUME NEW l \in Text, NEW k \in 0 .. Len(l) - 1, NEW out \in Seq(Results)
    PROVE  Append(out \o FirstFlags(l, k), Flag(l[k + 1])) = out \o FirstFlags(l, k + 1)
  <1> DEFINE f == FirstFlags(l, k)
             g == FirstFlags(l, k + 1)
             e == Flag(l[k + 1])
             a == Append(f, e)
  <1>1. k \in Nat /\ k \in 0 .. Len(l) /\ k + 1 \in 0 .. Len(l)
    BY DEF Text
  <1>2. f \in Seq(Results) /\ Len(f) = k /\ \A i \in 1 .. k : f[i] = Flag(l[i])
    BY <1>1, FlagsFacts
  <1>3. g \in Seq(Results) /\ Len(g) = k + 1 /\ \A i \in 1 .. k + 1 : g[i] = Flag(l[i])
    BY <1>1, FlagsFacts
  <1>4. e \in Results
    BY <1>1, <1>3
  <1> HIDE DEF f, g
  <1>5. /\ a \in Seq(Results) /\ Len(a) = k + 1
        /\ (\A i \in 1 .. k : a[i] = f[i]) /\ a[k + 1] = e
    <2> HIDE DEF e
    <2>1. /\ a \in Seq(Results) /\ Len(a) = Len(f) + 1
          /\ (\A i \in 1 .. Len(f) : a[i] = f[i]) /\ a[Len(f) + 1] = e
      BY <1>2, <1>4, AppendProperties
    <2>2. QED  BY <1>2, <2>1
  <1> HIDE DEF a
  <1>6. \A i \in 1 .. k + 1 : a[i] = g[i]
    <2> SUFFICES ASSUME NEW i \in 1 .. k + 1 PROVE a[i] = g[i]
      OBVIOUS
    <2>1. CASE i = k + 1
      BY <1>1, <1>3, <1>5, <2>1
    <2>2. CASE i \in 1 .. k
      BY <1>1, <1>2, <1>3, <1>5, <2>2
    <2>3. QED  BY <1>1, <2>1, <2>2
  <1>7. a = g
    BY <1>3, <1>5, <1>6, SeqEqual
  <1>8. Append(out \o f, e) = out \o a
    <2> HIDE DEF e
    <2> USE DEF a
    <2>1. out \o f \in Seq(Results) /\ <<e>> \in Seq(Results)
      BY <1>2, <1>4, ConcatProperties
    <2>2. Append(out \o f, e) = (out \o f) \o <<e>> /\ Append(f, e) = f \o <<e>>
      BY <1>2, <1>4, <2>1, AppendIsConcat
    <2>3. (out \o f) \o <<e>> = out \o (f \o <<e>>)
      BY <1>2, <2>1, ConcatAssociative
    <2> HIDE DEF a
    <2>4. a = f \o <<e>>
      BY <2>2 DEF a
    <2>5. QED  BY <2>2, <2>3, <2>4
  <1>9. QED  BY <1>7, <1>8 DEF f, g

\* The rest of the letters, seen from the argument.
LEMMA RestOfLetters ==
    ASSUME NEW w \in Text, w # <<>>, NEW k \in 0 .. Len(Letters(w)) - 1
    PROVE  /\ SubSeq(w, k + Lead(w) + 2, Len(w)) = SubSeq(Letters(w), k + 2, Len(Letters(w)))
           /\ SubSeq(Letters(w), k + 2, Len(Letters(w))) \in Text
           /\ SubSeq(Letters(w), k + 2, Len(Letters(w))) = <<>> <=> k + 1 = Len(Letters(w))
  <1> DEFINE l == Letters(w)
             n == Len(l)
             d == Lead(w)
  <1>1. /\ l \in Text /\ n \in Nat \ {0} /\ n + d = Len(w) /\ d \in {0, 1}
        /\ \A i \in 1 .. n : l[i] = w[i + d] /\ w[i + d] \in Chars
    BY LettersFacts
  <1> HIDE DEF l, d
  <1>2. /\ SubSeq(l, k + 2, n) \in Seq(Chars)
        /\ Len(SubSeq(l, k + 2, n)) = IF k + 2 <= n THEN n - (k + 2) + 1 ELSE 0
        /\ \A i \in 1 .. n - (k + 2) + 1 : SubSeq(l, k + 2, n)[i] = l[k + 2 + i - 1]
    <2>1. \A i \in k + 2 .. n : l[i] \in Chars
      BY <1>1 DEF l
    <2>2. k + 2 \in Int /\ n \in Int
      BY <1>1
    <2> HIDE DEF n
    <2>3. QED  BY <2>1, <2>2, SubSeqProperties
  <1>3. /\ SubSeq(w, k + d + 2, Len(w)) \in Seq(Chars)
        /\ Len(SubSeq(w, k + d + 2, Len(w)))
              = IF k + d + 2 <= Len(w) THEN Len(w) - (k + d + 2) + 1 ELSE 0
        /\ \A i \in 1 .. Len(w) - (k + d + 2) + 1 :
              SubSeq(w, k + d + 2, Len(w))[i] = w[k + d + 2 + i - 1]
    <2>1. \A i \in k + d + 2 .. Len(w) : w[i] \in Chars
      <3>1. Len(w) \in Nat /\ \A i \in 1 .. Len(w) : w[i] \in Chars
        BY DEF Text
      <3>2. k \in Nat
        BY <1>1 DEF l
      <3>3. QED  BY <1>1, <3>1, <3>2
    <2>2. k + d + 2 \in Int /\ Len(w) \in Int
      BY <1>1
    <2>3. QED  BY <2>1, <2>2, SubSeqProperties
  <1> DEFINE u == SubSeq(l, k + 2, n)
             v == SubSeq(w, k + d + 2, Len(w))
  <1>4. /\ Len(u) = n - (k + 1) /\ Len(v) = n - (k + 1)
        /\ \A i \in 1 .. n - (k + 1) : u[i] = l[k + 1 + i] /\ v[i] = w[k + 1 + i + d]
    <2>1. k \in 0 .. n - 1
      BY DEF l
    <2> HIDE DEF u, v, n
    <2>2. /\ \A i \in 1 .. n - (k + 1) : u[i] = l[k + 2 + i - 1] /\ k + 2 + i - 1 = k + 1 + i
          /\ \A i \in 1 .. n - (k + 1) : v[i] = w[k + d + 2 + i - 1] /\ k + d + 2 + i - 1 = k + 1 + i + d
      BY <1>1, <1>2, <1>3, <2>1 DEF u, v
    <2>3. Len(u) = n - (k + 1) /\ Len(v) = n - (k + 1)
      BY <1>1, <1>2, <1>3, <2>1 DEF u, v
    <2>4. QED  BY <2>2, <2>3
  <1>5. u = v
    <2>1. k \in 0 .. n - 1
      BY DEF l
    <2>2. u \in Seq(Chars) /\ v \in Seq(Chars)
      BY <1>2, <1>3
    <2> HIDE DEF u, v, n
    <2>3. \A i \in 1 .. n - (k + 1) : k + 1 + i \in 1 .. n
      BY <1>1, <2>1
    <2>4. \A i \in 1 .. Len(u) : u[i] = v[i]
      BY <1>1, <1>4, <2>3 DEF n
    <2>5. QED  BY <1>4, <2>2, <2>4, SeqEqual
  <1>6. u \in Text
    BY <1>2 DEF Text
  <1>7. u = <<>> <=> k + 1 = n
    <2>1. k \in 0 .. n - 1 /\ n \in Nat /\ u \in Seq(Chars)
      BY <1>1, <1>2 DEF l
    <2> HIDE DEF u, n
    <2>2. Len(u) = 0 <=> k + 1 = n
      BY <1>4, <2>1
    <2>3. QED  BY <2>1, <2>2, EmptySeq
  <1>8. QED  BY <1>5, <1>6, <1>7 DEF l, d

------------------------------------------------------------------------------
(* Reading one argument *)

\* The argument has letters.
HasLetters(w) == Char(w, 1) = "-" /\ w # <<"-", "-">>

\* Another argument is read for its letters behind r.
Open(r) == r \in Reads /\ ~r.ended /\ r.waits = NULL

LEMMA NotEmpty ==
    ASSUME NEW w \in Text, Char(w, 1) = "-"
    PROVE  w # <<>> /\ Len(w) \in Nat \ {0}
  <1>1. 1 \in DOMAIN w
    BY CharsFacts DEF Char
  <1>2. w # <<>>
    BY <1>1
  <1>3. QED  BY <1>2, EmptySeq DEF Text

LEMMA FlagsUpTo ==
    ASSUME NEW l \in Text, NEW k \in 0 .. Len(l), NEW flags,
           flags = SubSeq(l, 1, k)
    PROVE  Flags(flags) = FirstFlags(l, k)
  <1>1. \A i \in 1 .. k : l[i] \in Chars
    BY DEF Text
  <1>2. k \in Nat
    BY DEF Text
  <1>3. /\ flags \in Seq(Chars) /\ Len(flags) = k
        /\ \A i \in 1 .. k : flags[i] = l[i]
    BY <1>1, <1>2, SubSeqProperties
  <1>4. DOMAIN flags = 1 .. k
    BY <1>3
  <1>5. QED  BY <1>3, <1>4 DEF FirstFlags, Flags

\* No letter stops.
LEMMA AllFlags ==
    ASSUME NEW r, Open(r), NEW w \in Text, HasLetters(w),
           \A i \in 1 .. Len(Letters(w)) : ~Stops(Letters(w)[i])
    PROVE  ReadArgument(r, w) = [r EXCEPT !.out = r.out \o FirstFlags(Letters(w), Len(Letters(w))),
                                          !.optind = @ + 1]
  <1> DEFINE l == Letters(w)
  <1>1. w # <<>> /\ l \in Text /\ Len(l) \in Nat
    BY NotEmpty, LettersFacts DEF HasLetters
  <1>2. SelectInSeq(l, Stops) = 0
    <2>1. \A stop : stop = SelectInSeq(l, Stops) => stop = 0 \/ (stop \in 1 .. Len(l) /\ Stops(l[stop]))
      BY <1>1, FirstStop
    <2>2. QED  BY <2>1
  <1>3. Flags(l) = FirstFlags(l, Len(l))
    <2>1. DOMAIN l = 1 .. Len(l)
      BY <1>1 DEF Text
    <2>2. QED  BY <2>1 DEF FirstFlags, Flags
  <1> HIDE DEF l
  <1>4. Cluster(r, l) = [r EXCEPT !.out = r.out \o FirstFlags(l, Len(l)), !.optind = @ + 1]
    BY <1>2, <1>3, Zenon DEF Cluster
  <1>5. ReadArgument(r, w) = Cluster(r, l)
    BY DEF ReadArgument, Open, HasLetters, l
  <1>6. QED  BY <1>4, <1>5 DEF l

\* Letter k + 1 is the first that stops.
LEMMA FlagsAndStop ==
    ASSUME NEW r, Open(r), NEW w \in Text, HasLetters(w),
           NEW k \in 0 .. Len(Letters(w)) - 1, Stops(Letters(w)[k + 1]),
           \A i \in 1 .. k : ~Stops(Letters(w)[i])
    PROVE  LET l == Letters(w)
               c == l[k + 1]
               out == r.out \o FirstFlags(l, k)
               rest == SubSeq(l, k + 2, Len(l))
           IN  ReadArgument(r, w) =
                  IF ~IsOption(c) THEN [r EXCEPT !.out = out, !.ended = TRUE]
                  ELSE IF rest # <<>>
                  THEN [r EXCEPT !.out = Append(out, <<c, c, rest>>), !.optind = @ + 1]
                  ELSE [r EXCEPT !.out = out, !.waits = c, !.optind = @ + 1]
  <1> DEFINE l == Letters(w)
  <1>1. w # <<>> /\ l \in Text /\ Len(l) \in Nat /\ k \in 0 .. Len(l) - 1
    BY NotEmpty, LettersFacts DEF HasLetters
  <1>2. SelectInSeq(l, Stops) = k + 1
    <2> DEFINE stop == SelectInSeq(l, Stops)
    <2>1. \/ stop = 0 /\ \A i \in 1 .. Len(l) : ~Stops(l[i])
          \/ stop \in 1 .. Len(l) /\ Stops(l[stop]) /\ \A i \in 1 .. stop - 1 : ~Stops(l[i])
      BY <1>1, FirstStop
    <2>2. Stops(l[k + 1]) /\ \A i \in 1 .. k : ~Stops(l[i])
      OBVIOUS
    <2> HIDE DEF stop, l
    <2>3. k + 1 \in 1 .. Len(l)
      BY <1>1
    <2>4. stop # 0
      BY <2>1, <2>2, <2>3
    <2>5. stop \notin 1 .. k
      BY <2>1, <2>2
    <2>6. ~(k + 1 \in 1 .. stop - 1)
      BY <2>1, <2>2, <2>4
    <2>7. stop = k + 1
      BY <1>1, <2>1, <2>4, <2>5, <2>6
    <2>8. QED  BY <2>7 DEF stop
  <1> DEFINE flags == SubSeq(l, 1, k)
  <1>3. Flags(flags) = FirstFlags(l, k)
    <2> HIDE DEF l
    <2>1. k \in 0 .. Len(l)
      BY <1>1
    <2>2. QED  BY <1>1, <2>1, FlagsUpTo
  <1> HIDE DEF l
  <1>4. k + 1 # 0 /\ (k + 1) - 1 = k /\ (k + 1) + 1 = k + 2
    BY <1>1
  <1>5. ReadArgument(r, w) = Cluster(r, l)
    BY DEF ReadArgument, Open, HasLetters, l
  <1> DEFINE c == l[k + 1]
             out == r.out \o FirstFlags(l, k)
             rest == SubSeq(l, k + 2, Len(l))
  <1>6. Cluster(r, l) =
            IF ~IsOption(c) THEN [r EXCEPT !.out = out, !.ended = TRUE]
            ELSE IF rest # <<>>
            THEN [r EXCEPT !.out = Append(out, <<c, c, rest>>), !.optind = @ + 1]
            ELSE [r EXCEPT !.out = out, !.waits = c, !.optind = @ + 1]
    <2>1. \A stop : stop = k + 1 => stop # 0 /\ stop - 1 = k /\ stop + 1 = k + 2
      BY <1>4
    <2>2. PICK stop : stop = SelectInSeq(l, Stops) /\ stop = k + 1
      BY <1>2
    <2>3. SubSeq(l, 1, stop - 1) = flags
      BY <2>1, <2>2
    <2> HIDE DEF flags
    <2>4. rest = SubSeq(l, stop + 1, Len(l))
      BY <2>1, <2>2
    <2>5. out = r.out \o Flags(SubSeq(l, 1, stop - 1))
      BY <1>3, <2>3
    <2> HIDE DEF out, rest
    <2>6. /\ ~IsOption(c) => Cluster(r, l) = [r EXCEPT !.out = out, !.ended = TRUE]
          /\ IsOption(c) /\ rest # <<>>
             => Cluster(r, l) = [r EXCEPT !.out = Append(out, <<c, c, rest>>), !.optind = @ + 1]
          /\ IsOption(c) /\ rest = <<>>
             => Cluster(r, l) = [r EXCEPT !.out = out, !.waits = c, !.optind = @ + 1]
      <3>1. stop # 0
        BY <2>1, <2>2
      <3>2. l[stop] = c
        BY <2>2
      <3>3. /\ ~IsOption(l[stop]) => Cluster(r, l) = [r EXCEPT !.out = out, !.ended = TRUE]
            /\ IsOption(l[stop]) /\ rest # <<>>
               => Cluster(r, l) = [r EXCEPT !.out = Append(out, <<l[stop], l[stop], rest>>),
                                            !.optind = @ + 1]
            /\ IsOption(l[stop]) /\ rest = <<>>
               => Cluster(r, l) = [r EXCEPT !.out = out, !.waits = l[stop], !.optind = @ + 1]
        BY <2>2, <2>4, <2>5, <3>1, Zenon DEF Cluster
      <3>4. QED  BY <3>2, <3>3, Zenon
    <2>7. QED  BY <2>6, Zenon
  <1>7. QED  BY <1>5, <1>6 DEF l

LEMMA IsRead ==
    ASSUME NEW out \in Seq(Results), NEW next \in Nat, NEW waits \in Chars \cup {NULL},
           NEW ended \in BOOLEAN
    PROVE  [out |-> out, optind |-> next, waits |-> waits, ended |-> ended] \in Reads
  BY Zenon DEF Reads

LEMMA ReadArgumentType ==
    ASSUME NEW r \in Reads, NEW w \in Text
    PROVE  ReadArgument(r, w) \in Reads
  <1>1. /\ r.out \in Seq(Results) /\ r.optind \in Nat /\ r.waits \in Chars \cup {NULL}
        /\ r.ended \in BOOLEAN
    BY DEF Reads
  <1>3. r = [out |-> r.out, optind |-> r.optind, waits |-> r.waits, ended |-> r.ended]
    BY DEF Reads
  <1>4. CASE r.ended
    BY <1>4 DEF ReadArgument
  <1>5. CASE ~r.ended /\ r.waits # NULL
    <2>1. <<r.waits, r.waits, w>> \in Results
      BY <1>1, <1>5 DEF Results
    <2>2. Append(r.out, <<r.waits, r.waits, w>>) \in Seq(Results)
      BY <1>1, <2>1, AppendProperties
    <2>3. ReadArgument(r, w) = [out |-> Append(r.out, <<r.waits, r.waits, w>>),
                                optind |-> r.optind + 1, waits |-> NULL, ended |-> r.ended]
      BY <1>3, <1>5 DEF ReadArgument
    <2>4. QED  BY <1>1, <2>2, <2>3 DEF Reads
  <1>6. CASE Open(r) /\ ~HasLetters(w)
    <2>1. \/ ReadArgument(r, w) = [out |-> r.out, optind |-> r.optind + 1, waits |-> r.waits, ended |-> TRUE]
          \/ ReadArgument(r, w) = [out |-> r.out, optind |-> r.optind, waits |-> r.waits, ended |-> TRUE]
      BY <1>3, <1>6 DEF ReadArgument, HasLetters, Open
    <2>2. r.optind + 1 \in Nat
      BY <1>1
    <2>3. QED  BY <1>1, <2>1, <2>2, IsRead, Zenon
  <1>7. CASE Open(r) /\ HasLetters(w)
    <2> DEFINE l == Letters(w)
    <2>1. w # <<>> /\ l \in Text /\ Len(l) \in Nat
      BY <1>7, NotEmpty, LettersFacts DEF HasLetters
    <2>2. ASSUME NEW k \in 0 .. Len(l)
          PROVE  r.out \o FirstFlags(l, k) \in Seq(Results)
      <3> HIDE DEF l
      <3>1. FirstFlags(l, k) \in Seq(Results)
        BY <2>1, FlagsFacts
      <3>2. QED  BY <1>1, <3>1, ConcatProperties
    <2>3. CASE \A i \in 1 .. Len(l) : ~Stops(l[i])
      <3>0. ReadArgument(r, w) = [r EXCEPT !.out = r.out \o FirstFlags(l, Len(l)), !.optind = @ + 1]
        BY <1>7, <2>3, AllFlags
      <3>1. ReadArgument(r, w) = [out |-> r.out \o FirstFlags(l, Len(l)), optind |-> r.optind + 1,
                                  waits |-> r.waits, ended |-> r.ended]
        <4> HIDE DEF l
        <4>1. QED  BY <1>3, <3>0
      <3> HIDE DEF l
      <3>2. r.out \o FirstFlags(l, Len(l)) \in Seq(Results)
        BY <2>1, <2>2
      <3>3. QED  BY <1>1, <3>1, <3>2 DEF Reads
    <2>4. CASE \E i \in 1 .. Len(l) : Stops(l[i])
      <3>1. PICK k \in 0 .. Len(l) - 1 : Stops(l[k + 1]) /\ \A i \in 1 .. k : ~Stops(l[i])
        <4> DEFINE I == {i \in 1 .. Len(l) : Stops(l[i])}
        <4> HIDE DEF l
        <4>1. I # {} /\ I \subseteq Nat
          BY <2>4
        <4>2. Min(I) \in I /\ \A i \in I : Min(I) <= i
          <5> HIDE DEF I
          <5>1. QED  BY <4>1, MinOf
        <4>3. PICK m \in I : \A i \in I : m <= i
          BY <4>2
        <4>4. /\ m - 1 \in 0 .. Len(l) - 1 /\ (m - 1) + 1 = m /\ Stops(l[m])
              /\ \A i \in 1 .. m - 1 : ~Stops(l[i])
          BY <2>1, <4>3
        <4>5. QED  BY <4>4
      <3> DEFINE c == l[k + 1]
                 out == r.out \o FirstFlags(l, k)
                 rest == SubSeq(l, k + 2, Len(l))
      <3>2. ReadArgument(r, w) =
                  IF ~IsOption(c) THEN [r EXCEPT !.out = out, !.ended = TRUE]
                  ELSE IF rest # <<>>
                  THEN [r EXCEPT !.out = Append(out, <<c, c, rest>>), !.optind = @ + 1]
                  ELSE [r EXCEPT !.out = out, !.waits = c, !.optind = @ + 1]
        BY <1>7, <3>1, FlagsAndStop
      <3>3. c \in Chars /\ rest \in Text
        <4>1. rest \in Text
          BY <2>1, RestOfLetters
        <4> HIDE DEF l
        <4>2. k + 1 \in 1 .. Len(l)
          BY <2>1
        <4>3. QED  BY <2>1, <4>1, <4>2, ElementOfSeq DEF Text
      <3> HIDE DEF l
      <3>4. out \in Seq(Results)
        BY <2>1, <2>2
      <3>5. <<c, c, rest>> \in Results
        BY <3>3 DEF Results
      <3> HIDE DEF c, out, rest
      <3>6. Append(out, <<c, c, rest>>) \in Seq(Results)
        BY <3>4, <3>5, AppendProperties
      <3>7. \/ ReadArgument(r, w) = [out |-> out, optind |-> r.optind, waits |-> r.waits, ended |-> TRUE]
            \/ ReadArgument(r, w) = [out |-> Append(out, <<c, c, rest>>), optind |-> r.optind + 1,
                                     waits |-> r.waits, ended |-> r.ended]
            \/ ReadArgument(r, w) = [out |-> out, optind |-> r.optind + 1, waits |-> c, ended |-> r.ended]
        BY <1>3, <3>2
      <3>8. r.optind + 1 \in Nat
        BY <1>1
      <3>9. QED  BY <1>1, <3>3, <3>4, <3>6, <3>7, <3>8, IsRead, Zenon
    <2>5. QED  BY <2>3, <2>4
  <1>8. QED  BY <1>4, <1>5, <1>6, <1>7 DEF Open

------------------------------------------------------------------------------
(* Reading all arguments *)

Start == [out |-> <<>>, optind |-> 1, waits |-> NULL, ended |-> FALSE]

\* R is what has been read behind each of the arguments.
IsReading(R, args) ==
    /\ R \in [1 .. Len(args) -> Reads]
    /\ R[1] = Start
    /\ \A i \in 2 .. Len(args) : R[i] = ReadArgument(R[i - 1], args[i])

\* What getopt reads from several arguments.
Args(args) == args \in Seq(Text) /\ Len(args) \in Nat \ {0}

LEMMA StartIsRead == Start \in Reads
  <1>1. <<>> \in Seq(Results)
    BY EmptySeq
  <1>2. QED  BY <1>1, IsRead DEF Start

LEMMA ReadingExists ==
    ASSUME NEW args, Args(args)
    PROVE  \E R : IsReading(R, args)
  <1> DEFINE n == Len(args) - 1
             step == [v \in Reads \X (1 .. n) |-> ReadArgument(v[1], args[v[2] + 1])]
  <1>1. n \in Nat /\ \A i \in 1 .. n : args[i + 1] \in Text
    BY DEF Args
  <1>2. step \in [Reads \X (1 .. n) -> Reads]
    <2>1. \A r \in Reads, i \in 1 .. n : ReadArgument(r, args[i + 1]) \in Reads
      BY <1>1, ReadArgumentType
    <2>2. QED  BY <2>1
  <1>3. PICK g \in [0 .. n -> Reads] : Iterates(g, Start, step, n)
    <2> HIDE DEF step, n
    <2>1. QED  BY <1>1, <1>2, StartIsRead, Iteration
  <1> DEFINE R == [i \in 1 .. Len(args) |-> g[i - 1]]
  <1>4. R \in [1 .. Len(args) -> Reads] /\ R[1] = Start
    <2>1. \A i \in 1 .. Len(args) : i - 1 \in 0 .. n
      BY <1>1
    <2>2. 1 \in 1 .. Len(args)
      BY <1>1
    <2>3. g[0] = Start
      BY <1>3 DEF Iterates
    <2>4. QED  BY <1>3, <2>1, <2>2, <2>3
  <1>5. ASSUME NEW i \in 2 .. Len(args)
        PROVE  R[i] = ReadArgument(R[i - 1], args[i])
    <2>1. /\ i - 1 \in 1 .. n /\ (i - 1) - 1 \in 0 .. n /\ (i - 1) + 1 = i
          /\ i \in 1 .. Len(args) /\ i - 1 \in 1 .. Len(args)
      BY <1>1
    <2>2. R[i] = g[i - 1] /\ R[i - 1] = g[(i - 1) - 1]
      BY <2>1
    <2>3. g[i - 1] = step[<<g[(i - 1) - 1], i - 1>>] /\ g[(i - 1) - 1] \in Reads
      BY <1>3, <2>1 DEF Iterates
    <2>4. \A r \in Reads, j \in 1 .. n : step[<<r, j>>] = ReadArgument(r, args[j + 1])
      OBVIOUS
    <2> HIDE DEF step, n, R
    <2>5. g[i - 1] = ReadArgument(g[(i - 1) - 1], args[(i - 1) + 1])
      BY <2>1, <2>3, <2>4
    <2>6. QED  BY <2>1, <2>2, <2>5
  <1> HIDE DEF R
  <1>6. QED  BY <1>4, <1>5 DEF IsReading

LEMMA ReadingIsReadings ==
    ASSUME NEW args, Args(args), NEW R, IsReading(R, args)
    PROVE  Readings(args) = R
  <1> DEFINE n == Len(args)
             Is(f) == f = [i \in 1 .. n |-> IF i = 1 THEN Start ELSE ReadArgument(f[i - 1], args[i])]
             read == CHOOSE f : Is(f)
  <1>1. Readings(args) = read
    BY Zenon DEF Readings, Start
  <1>2. n \in Nat \ {0}
    BY DEF Args
  <1>3. Is(R)
    <2>1. /\ R \in [1 .. n -> Reads] /\ R[1] = Start
          /\ \A i \in 2 .. n : R[i] = ReadArgument(R[i - 1], args[i])
      BY DEF IsReading
    <2> DEFINE f == [i \in 1 .. n |-> IF i = 1 THEN Start ELSE ReadArgument(R[i - 1], args[i])]
    <2> HIDE DEF n
    <2>2. \A i \in 1 .. n : i # 1 => i \in 2 .. n
      BY <1>2
    <2>3. \A i \in 1 .. n : R[i] = f[i]
      BY <1>2, <2>1, <2>2
    <2>4. R = f
      BY <2>1, <2>3
    <2>5. QED  BY <2>4
  <1>4. Is(read)
    BY <1>3
  <1> HIDE DEF read
  <1>5. /\ DOMAIN read = 1 .. n /\ read = [i \in 1 .. n |-> read[i]] /\ read[1] = Start
        /\ \A i \in 2 .. n : read[i] = ReadArgument(read[i - 1], args[i])
    <2> HIDE DEF n
    <2>1. 1 \in 1 .. n /\ \A i \in 2 .. n : i \in 1 .. n /\ i # 1
      BY <1>2
    <2>2. \A i \in 1 .. n : read[i] = IF i = 1 THEN Start ELSE ReadArgument(read[i - 1], args[i])
      BY <1>4
    <2>3. DOMAIN read = 1 .. n /\ read = [i \in 1 .. n |-> read[i]]
      BY <1>4
    <2>4. QED  BY <2>1, <2>2, <2>3
  <1> HIDE DEF Is
  <1> DEFINE T == {i \in 0 .. n - 1 : read[i + 1] = R[i + 1]}
  <1>6. 0 \in T
    BY <1>2, <1>5 DEF IsReading
  <1>7. ASSUME NEW i \in 0 .. (n - 1) - 1, i \in T
        PROVE  i + 1 \in T
    <2> HIDE DEF n
    <2>1. i + 2 \in 2 .. n /\ (i + 2) - 1 = i + 1 /\ i + 1 \in 0 .. n - 1 /\ (i + 1) + 1 = i + 2
      BY <1>2
    <2>2. read[i + 2] = ReadArgument(read[i + 1], args[i + 2])
      BY <1>5, <2>1
    <2>3. R[i + 2] = ReadArgument(R[i + 1], args[i + 2])
      BY <2>1 DEF IsReading, n
    <2>4. QED  BY <1>7, <2>1, <2>2, <2>3
  <1>8. \A i \in 1 .. n : read[i] = R[i]
    <2>1. 0 .. n - 1 \subseteq T
      <3>1. n - 1 \in Nat
        BY <1>2
      <3> HIDE DEF T
      <3>2. QED  BY <1>6, <1>7, <3>1, IntervalInduction
    <2> SUFFICES ASSUME NEW i \in 1 .. n PROVE read[i] = R[i]
      OBVIOUS
    <2>2. i - 1 \in 0 .. n - 1 /\ (i - 1) + 1 = i
      BY <1>2
    <2>3. QED  BY <2>1, <2>2
  <1>9. R = [i \in 1 .. n |-> R[i]]
    BY DEF IsReading
  <1> HIDE DEF T, n
  <1>10. read = R
    BY <1>5, <1>8, <1>9
  <1>11. QED  BY <1>1, <1>10

\* Behind the last option nothing more is read.
LEMMA EndedStays ==
    ASSUME NEW args, Args(args), NEW R, IsReading(R, args),
           NEW m \in 1 .. Len(args), R[m].ended
    PROVE  R[Len(args)] = R[m]
  <1> DEFINE n == Len(args)
             T == {i \in 0 .. n - m : R[m + i] = R[m]}
  <1>1. n \in Nat /\ m \in 1 .. n /\ n - m \in Nat
    BY DEF Args
  <1>2. 0 \in T
    BY <1>1
  <1>3. ASSUME NEW i \in 0 .. (n - m) - 1, i \in T
        PROVE  i + 1 \in T
    <2>1. R[m + i] = R[m]
      BY <1>3
    <2> HIDE DEF n
    <2>2. /\ (m + i) + 1 \in 2 .. n /\ ((m + i) + 1) - 1 = m + i /\ m + (i + 1) = (m + i) + 1
          /\ i + 1 \in 0 .. n - m
      BY <1>1
    <2>3. R[(m + i) + 1] = ReadArgument(R[m + i], args[(m + i) + 1])
      BY <2>2 DEF IsReading, n
    <2>4. R[(m + i) + 1] = R[m + i]
      BY <2>1, <2>3 DEF ReadArgument
    <2>5. QED  BY <2>1, <2>2, <2>4
  <1>4. n - m \in T
    <2> HIDE DEF T, n
    <2>1. 0 .. n - m \subseteq T
      BY <1>1, <1>2, <1>3, IntervalInduction
    <2>2. QED  BY <1>1, <2>1
  <1>5. m + (n - m) = n
    BY <1>1
  <1>6. QED  BY <1>4, <1>5

------------------------------------------------------------------------------
(* Where getopt is *)

\* The strings before optind are read.
Between(R, args) ==
    /\ ~Scanning(args) /\ optind \in 1 .. Len(args)
    /\ R[optind] = [out |-> seen, optind |-> optind, waits |-> NULL, ended |-> FALSE]

\* So are the first k letters of the next one.
Behind(R, args, k) ==
    LET w == args[optind + 1]
        l == Letters(w)
    IN  /\ optind \in 1 .. Len(args) - 1 /\ HasLetters(w) /\ k \in 0 .. Len(l) - 1
        /\ Open(R[optind]) /\ R[optind].optind = optind
        /\ seen = R[optind].out \o FirstFlags(l, k)
        /\ \A i \in 1 .. k : ~Stops(l[i])

Within(R, args) ==
    \E k \in Nat : /\ k > 0 /\ Behind(R, args, k) /\ ~optreset
                   /\ place = [arg |-> optind + 1, pos |-> k + Lead(args[optind + 1]) + 1]

\* The last option has no argument.
Missed(R, args) ==
    /\ ~Scanning(args) /\ optind = Len(args)
    /\ R[optind].waits # NULL /\ R[optind].optind = optind
    /\ seen = Append(R[optind].out, Missing(R[optind].waits))

Ready(R, args) == Between(R, args) \/ Within(R, args) \/ Missed(R, args)

\* All is read.
Done(R, args) ==
    LET r == R[Len(args)]
    IN  /\ seen = IF r.waits = NULL THEN r.out ELSE Append(r.out, Missing(r.waits))
        /\ optind = r.optind

LEMMA ReadFields ==
    ASSUME NEW r, NEW out, NEW next, NEW waits,
           r = [out |-> out, optind |-> next, waits |-> waits, ended |-> FALSE]
    PROVE  r.out = out /\ r.optind = next /\ r.waits = waits /\ ~r.ended
  OBVIOUS

LEMMA ReadChanged ==
    ASSUME NEW r, Open(r), NEW out, NEW c, NEW x
    PROVE  /\ x = [r EXCEPT !.out = out, !.optind = @ + 1]
              => x = [out |-> out, optind |-> r.optind + 1, waits |-> NULL, ended |-> FALSE]
           /\ x = [r EXCEPT !.out = out, !.waits = c, !.optind = @ + 1]
              => x = [out |-> out, optind |-> r.optind + 1, waits |-> c, ended |-> FALSE]
           /\ x = [r EXCEPT !.out = out, !.ended = TRUE]
              => x = [out |-> out, optind |-> r.optind, waits |-> NULL, ended |-> TRUE]
  <1>1. r = [out |-> r.out, optind |-> r.optind, waits |-> r.waits, ended |-> r.ended]
    BY Zenon DEF Open, Reads
  <1>2. r.ended = FALSE /\ r.waits = NULL
    BY Zenon DEF Open, Reads
  <1>3. ASSUME x = [r EXCEPT !.out = out, !.optind = @ + 1]
        PROVE  x = [out |-> out, optind |-> r.optind + 1, waits |-> NULL, ended |-> FALSE]
    <2>1. x = [out |-> out, optind |-> r.optind + 1, waits |-> r.waits, ended |-> r.ended]
      BY <1>1, <1>3, Zenon
    <2>2. QED  BY <1>2, <2>1
  <1>4. ASSUME x = [r EXCEPT !.out = out, !.waits = c, !.optind = @ + 1]
        PROVE  x = [out |-> out, optind |-> r.optind + 1, waits |-> c, ended |-> FALSE]
    <2>1. x = [out |-> out, optind |-> r.optind + 1, waits |-> c, ended |-> r.ended]
      BY <1>1, <1>4, Zenon
    <2>2. QED  BY <1>2, <2>1
  <1>5. ASSUME x = [r EXCEPT !.out = out, !.ended = TRUE]
        PROVE  x = [out |-> out, optind |-> r.optind, waits |-> NULL, ended |-> TRUE]
    <2>1. x = [out |-> out, optind |-> r.optind, waits |-> r.waits, ended |-> TRUE]
      BY <1>1, <1>5, Zenon
    <2>2. QED  BY <1>2, <2>1
  <1>6. QED  BY <1>3, <1>4, <1>5, Zenon

\* The next letter and the one behind it.
LEMMA NextLetter ==
    ASSUME NEW R, NEW args, Args(args), NEW k \in Nat, Behind(R, args, k),
           Here(args) = [arg |-> optind + 1, pos |-> k + Lead(args[optind + 1]) + 1]
    PROVE  LET w == args[optind + 1]
               l == Letters(w)
           IN  /\ Letter(args) = l[k + 1] /\ l[k + 1] \in Chars
               /\ Rest(args) = [arg |-> optind + 1, pos |-> k + Lead(w) + 2]
               /\ At(args, Rest(args)) = IF k + 1 < Len(l) THEN l[k + 2] ELSE EOS
               /\ At(args, Rest(args)) = EOS <=> k + 1 = Len(l)
  <1> DEFINE w == args[optind + 1]
             l == Letters(w)
  <1>1. /\ optind \in 1 .. Len(args) - 1 /\ k \in 0 .. Len(l) - 1 /\ HasLetters(w)
    BY DEF Behind
  <1>2. w \in Text
    BY <1>1 DEF Args
  <1>3. w # <<>>
    BY <1>1, <1>2, NotEmpty DEF HasLetters
  <1>4. /\ Len(l) \in Nat \ {0} /\ Len(l) + Lead(w) = Len(w) /\ Lead(w) \in {0, 1}
        /\ \A i \in 1 .. Len(l) : l[i] = w[i + Lead(w)] /\ w[i + Lead(w)] \in Chars
    BY <1>2, <1>3, LettersFacts
  <1>5. DOMAIN w = 1 .. Len(w) /\ Len(w) \in Nat
    BY <1>2 DEF Text
  <1> DEFINE here == [arg |-> optind + 1, pos |-> k + Lead(w) + 1]
             rest == [arg |-> optind + 1, pos |-> k + Lead(w) + 2]
  <1>6. Here(args) = here
    OBVIOUS
  <1>7. Rest(args) = rest
    <2>1. (k + Lead(w) + 1) + 1 = k + Lead(w) + 2
      BY <1>1, <1>4
    <2>2. After(here) = [arg |-> optind + 1, pos |-> (k + Lead(w) + 1) + 1]
      BY DEF After
    <2> HIDE DEF here, w
    <2>3. QED  BY <1>6, <2>1, <2>2 DEF Rest
  <1>8. here # EMSG /\ rest # EMSG
    <2>1. optind + 1 # 0
      BY <1>1
    <2>2. here.arg # 0 /\ rest.arg # 0 /\ EMSG.arg = 0
      BY <2>1 DEF EMSG
    <2>3. QED  BY <2>2
  <1>9. At(args, here) = Char(w, k + Lead(w) + 1) /\ At(args, rest) = Char(w, k + Lead(w) + 2)
    BY <1>8 DEF At
  <1> HIDE DEF l, w
  <1>10. Char(w, k + Lead(w) + 1) = l[k + 1] /\ l[k + 1] \in Chars
    <2>1. k + 1 \in 1 .. Len(l) /\ (k + 1) + Lead(w) = k + Lead(w) + 1 /\ k + Lead(w) + 1 \in 1 .. Len(w)
      BY <1>1, <1>4
    <2>2. QED  BY <1>4, <1>5, <2>1 DEF Char
  <1>11. Char(w, k + Lead(w) + 2) = IF k + 1 < Len(l) THEN l[k + 2] ELSE EOS
    <2>1. CASE k + 1 < Len(l)
      <3>1. k + 2 \in 1 .. Len(l) /\ (k + 2) + Lead(w) = k + Lead(w) + 2 /\ k + Lead(w) + 2 \in 1 .. Len(w)
        BY <1>1, <1>4, <2>1
      <3>2. QED  BY <1>4, <1>5, <2>1, <3>1 DEF Char
    <2>2. CASE ~(k + 1 < Len(l))
      <3>1. k + Lead(w) + 2 \notin 1 .. Len(w)
        BY <1>1, <1>4, <2>2
      <3>2. QED  BY <1>5, <2>2, <3>1 DEF Char
    <2>3. QED  BY <2>1, <2>2
  <1>12. k + 1 < Len(l) => l[k + 2] # EOS
    <2>1. k + 1 < Len(l) => k + 2 \in 1 .. Len(l)
      BY <1>1, <1>4
    <2>2. QED  BY <1>4, <2>1, CharsFacts
  <1>13. (IF k + 1 < Len(l) THEN l[k + 2] ELSE EOS) = EOS <=> k + 1 = Len(l)
    BY <1>1, <1>4, <1>12
  <1>14. QED  BY <1>6, <1>7, <1>9, <1>10, <1>11, <1>13 DEF Letter, l, w

\* Within an argument the next letter is read.
LEMMA WithinScans ==
    ASSUME NEW R, NEW args, Args(args), Within(R, args)
    PROVE  Scanning(args)
  <1> DEFINE w == args[optind + 1]
  <1>0. PICK k \in Nat : /\ k > 0 /\ Behind(R, args, k) /\ ~optreset
                         /\ place = [arg |-> optind + 1, pos |-> k + Lead(w) + 1]
    BY DEF Within
  <1>1. optind \in 1 .. Len(args) - 1 /\ k \in 0 .. Len(Letters(w)) - 1 /\ HasLetters(w)
    BY <1>0 DEF Behind
  <1>2. w \in Text
    BY <1>1 DEF Args
  <1>3. w # <<>>
    BY <1>1, <1>2, NotEmpty DEF HasLetters
  <1>4. /\ Len(Letters(w)) \in Nat \ {0} /\ Len(Letters(w)) + Lead(w) = Len(w) /\ Lead(w) \in {0, 1}
        /\ \A i \in 1 .. Len(Letters(w)) : w[i + Lead(w)] \in Chars
    BY <1>2, <1>3, LettersFacts
  <1>5. DOMAIN w = 1 .. Len(w) /\ Len(w) \in Nat
    BY <1>2 DEF Text
  <1>6. place # EMSG
    <2>1. optind + 1 # 0
      BY <1>1
    <2>2. place.arg # 0 /\ EMSG.arg = 0
      BY <1>0, <2>1 DEF EMSG
    <2>3. QED  BY <2>2
  <1>7. At(args, place) = Char(w, k + Lead(w) + 1)
    BY <1>0, <1>6 DEF At
  <1> HIDE DEF w
  <1>8. k + 1 \in 1 .. Len(Letters(w)) /\ (k + 1) + Lead(w) = k + Lead(w) + 1
        /\ k + Lead(w) + 1 \in 1 .. Len(w)
    BY <1>1, <1>4
  <1>9. Char(w, k + Lead(w) + 1) \in Chars
    BY <1>4, <1>5, <1>8 DEF Char
  <1>10. QED  BY <1>0, <1>7, <1>9, CharsFacts DEF Scanning

\* A call that reads a letter has read all before it.
LEMMA Position ==
    ASSUME NEW R, NEW args, Args(args), IsReading(R, args), Ready(R, args), GetoptReads(args)
    PROVE  \E k \in Nat : /\ Behind(R, args, k)
                          /\ Here(args) = [arg |-> optind + 1, pos |-> k + Lead(args[optind + 1]) + 1]
  <1> DEFINE w == args[optind + 1]
  <1>1. CASE Between(R, args)
    <2>1. ~Scanning(args) /\ optind \in 1 .. Len(args)
      BY <1>1 DEF Between
    <2>2. ~NoOptionsLeft(args) /\ ~DoubleDash(args)
      BY <2>1 DEF GetoptReads
    <2>3. optind < Len(args) /\ Char(w, 1) = "-" /\ w # <<"-", "-">>
      BY <2>2 DEF NoOptionsLeft, DoubleDash
    <2>4. optind \in 1 .. Len(args) - 1 /\ HasLetters(w)
      BY <2>1, <2>3 DEF HasLetters, Args
    <2>5. w \in Text
      BY <2>4 DEF Args
    <2>6. Len(Letters(w)) \in Nat \ {0} /\ Letters(w) \in Text
      BY <2>3, <2>5, NotEmpty, LettersFacts
    <2>7. /\ R[optind] \in Reads /\ R[optind].out = seen /\ R[optind].optind = optind
          /\ R[optind].waits = NULL /\ ~R[optind].ended
      <3>1. R[optind] \in Reads
        BY <2>1 DEF IsReading
      <3>2. R[optind] = [out |-> seen, optind |-> optind, waits |-> NULL, ended |-> FALSE]
        BY <1>1 DEF Between
      <3>3. QED  BY <3>1, <3>2, ReadFields
    <2>8. seen \in Seq(Results)
      BY <2>7, Zenon DEF Reads
    <2>9. seen \o FirstFlags(Letters(w), 0) = seen
      <3>1. 0 \in 0 .. Len(Letters(w))
        BY <2>6
      <3>2. FirstFlags(Letters(w), 0) \in Seq(Results) /\ Len(FirstFlags(Letters(w), 0)) = 0
        BY <2>6, <3>1, FlagsFacts
      <3>3. FirstFlags(Letters(w), 0) = <<>>
        BY <3>2, EmptySeq
      <3>4. QED  BY <2>8, <3>3, ConcatEmptySeq
    <2> HIDE DEF w
    <2>10. Behind(R, args, 0)
      <3>1. 0 \in 0 .. Len(Letters(w)) - 1 /\ 1 .. 0 = {}
        BY <2>6
      <3>2. QED  BY <2>4, <2>7, <2>9, <3>1 DEF Behind, Open, w
    <2>11. Here(args) = [arg |-> optind + 1, pos |-> 0 + Lead(w) + 1]
      <3>1. 0 + Lead(w) + 1 = IF Len(w) > 1 THEN 2 ELSE 1
        BY DEF Lead
      <3>2. QED  BY <2>1, <3>1 DEF Here, w
    <2>12. QED  BY <2>10, <2>11 DEF w
  <1>2. CASE Within(R, args)
    <2>1. PICK k \in Nat : /\ k > 0 /\ Behind(R, args, k) /\ ~optreset
                           /\ place = [arg |-> optind + 1, pos |-> k + Lead(w) + 1]
      BY <1>2 DEF Within
    <2>2. Scanning(args)
      BY <1>2, WithinScans
    <2>3. Here(args) = place
      BY <2>2 DEF Here
    <2>4. QED  BY <2>1, <2>3
  <1>3. CASE Missed(R, args)
    <2>1. ~Scanning(args) /\ ~(optind < Len(args))
      BY <1>3 DEF Missed, Args
    <2>2. NoOptionsLeft(args)
      BY <2>1 DEF NoOptionsLeft
    <2>3. QED  BY <2>1, <2>2 DEF GetoptReads
  <1>4. QED  BY <1>1, <1>2, <1>3 DEF Ready

------------------------------------------------------------------------------
(* A call of getopt *)

\* What the option string says of a letter changes with the string only.
LEMMA SameOptions ==
    ASSUME ostr' = ostr
    PROVE  /\ \A c : IsOption(c)' = IsOption(c) /\ NeedsArgument(c)' = NeedsArgument(c)
           /\ \A c : Stops(c)' = Stops(c) /\ Flag(c)' = Flag(c) /\ Missing(c)' = Missing(c)
           /\ \A l : SelectInSeq(l, Stops)' = SelectInSeq(l, Stops)
           /\ \A l : Flags(l)' = Flags(l)
           /\ \A l, k : FirstFlags(l, k)' = FirstFlags(l, k)
           /\ \A r, l : Cluster(r, l)' = Cluster(r, l)
           /\ \A r, v : ReadArgument(r, v)' = ReadArgument(r, v)
  <1>1. ASSUME NEW c
        PROVE  IsOption(c)' = IsOption(c) /\ NeedsArgument(c)' = NeedsArgument(c)
    BY DEF IsOption, NeedsArgument, Char, SelectInSeq
  <1>2. ASSUME NEW c
        PROVE  Stops(c)' = Stops(c) /\ Flag(c)' = Flag(c) /\ Missing(c)' = Missing(c)
    BY <1>1 DEF Stops, Flag, Missing
  <1>3. ASSUME NEW l
        PROVE  SelectInSeq(l, Stops)' = SelectInSeq(l, Stops)
    BY <1>2 DEF SelectInSeq
  <1>4. ASSUME NEW l
        PROVE  Flags(l)' = Flags(l)
    BY <1>2 DEF Flags
  <1>5. ASSUME NEW l, NEW k
        PROVE  FirstFlags(l, k)' = FirstFlags(l, k)
    BY <1>2 DEF FirstFlags
  <1>6. ASSUME NEW r, NEW l
        PROVE  Cluster(r, l)' = Cluster(r, l)
    BY <1>1, <1>3, <1>4, Zenon DEF Cluster
  <1>7. ASSUME NEW r, NEW v
        PROVE  ReadArgument(r, v)' = ReadArgument(r, v)
    BY <1>6, Zenon DEF ReadArgument, Char, Letters
  <1>8. QED  BY <1>1, <1>2, <1>3, <1>4, <1>5, <1>6, <1>7

LEMMA SameReading ==
    ASSUME ostr' = ostr, NEW R, NEW args, IsReading(R, args)
    PROVE  IsReading(R, args)'
  BY SameOptions DEF IsReading, Start, Reads, Results


\* A letter is returned.
LEMMA LetterStep ==
    ASSUME NEW R, NEW args, Args(args), IsReading(R, args), Ready(R, args), GetoptLetter(args)
    PROVE  Ready(R, args)'
  <1>1. GetoptReads(args)
    BY DEF GetoptLetter, GetoptUnknown, GetoptFlag, GetoptAttached, GetoptSeparate, GetoptMissing,
           GetoptNeeds
  <1>2. PICK k \in Nat : /\ Behind(R, args, k)
                         /\ Here(args) = [arg |-> optind + 1, pos |-> k + Lead(args[optind + 1]) + 1]
    BY <1>1, Position
  <1> DEFINE w == args[optind + 1]
             l == Letters(w)
             c == l[k + 1]
             r == R[optind]
             out == r.out \o FirstFlags(l, k)
             rest == SubSeq(l, k + 2, Len(l))
  <1>3. /\ optind \in 1 .. Len(args) - 1 /\ HasLetters(w) /\ k \in 0 .. Len(l) - 1
        /\ Open(r) /\ r.optind = optind /\ seen = out
        /\ \A i \in 1 .. k : ~Stops(l[i])
    BY <1>2 DEF Behind
  <1>4. /\ Letter(args) = c /\ c \in Chars
        /\ Rest(args) = [arg |-> optind + 1, pos |-> k + Lead(w) + 2]
        /\ At(args, Rest(args)) = EOS <=> k + 1 = Len(l)
    BY <1>2, NextLetter
  <1>5. /\ w \in Text /\ w # <<>> /\ l \in Text /\ Len(l) \in Nat /\ Len(args) \in Nat
        /\ r.out \in Seq(Results)
    <2>1. w \in Text /\ Len(args) \in Nat
      BY <1>3 DEF Args
    <2>2. w # <<>>
      BY <1>3, <2>1, NotEmpty DEF HasLetters
    <2>3. l \in Text /\ Len(l) \in Nat
      BY <2>1, <2>2, LettersFacts
    <2>4. r.out \in Seq(Results)
      BY <1>3, Zenon DEF Open, Reads
    <2>5. QED  BY <2>1, <2>2, <2>3, <2>4
  <1>6. R[optind + 1] = ReadArgument(r, w)
    <2>1. optind + 1 \in 2 .. Len(args) /\ (optind + 1) - 1 = optind
      BY <1>3, <1>5
    <2>2. QED  BY <2>1 DEF IsReading
  <1>7. ostr' = ostr /\ optreset' = FALSE
    BY <1>1 DEF GetoptLetter, GetoptUnknown, GetoptFlag, GetoptAttached, GetoptSeparate, GetoptMissing,
           Returns, GetoptReads
  <1>8. /\ \A x, m : FirstFlags(x, m)' = FirstFlags(x, m)
        /\ \A x : Stops(x)' = Stops(x) /\ Missing(x)' = Missing(x)
    BY <1>7, SameOptions
  <1>9. CASE GetoptUnknown(args) \/ GetoptFlag(args)
    <2>1. /\ ~Stops(c) /\ seen' = Append(seen, Flag(c)) /\ place' = Rest(args)
          /\ optind' = IF At(args, Rest(args)) = EOS THEN optind + 1 ELSE optind
      BY <1>4, <1>9 DEF GetoptUnknown, GetoptFlag, Returns, Stops, Flag, Passed
    <2>2. seen' = r.out \o FirstFlags(l, k + 1)
      <3> HIDE DEF l, r
      <3>1. QED  BY <1>3, <1>5, <2>1, MoreFlags
    <2>3. CASE k + 1 = Len(l)
      <3>1. optind' = optind + 1 /\ ~Scanning(args)'
        BY <1>4, <2>1, <2>3 DEF Scanning, At
      <3>2. \A i \in 1 .. Len(l) : ~Stops(l[i])
        <4> SUFFICES ASSUME NEW i \in 1 .. Len(l) PROVE ~Stops(l[i])
          OBVIOUS
        <4>1. i \in 1 .. k \/ i = k + 1
          BY <1>3, <1>5, <2>3
        <4>2. QED  BY <1>3, <2>1, <4>1
      <3>3. R[optind + 1] = [out |-> seen', optind |-> optind + 1, waits |-> NULL, ended |-> FALSE]
        <4>1. R[optind + 1] = [r EXCEPT !.out = r.out \o FirstFlags(l, Len(l)), !.optind = @ + 1]
          BY <1>3, <1>5, <1>6, <3>2, AllFlags
        <4> HIDE DEF l, r
        <4>2. QED  BY <1>3, <2>2, <2>3, <4>1, ReadChanged
      <3>4. optind + 1 \in 1 .. Len(args)
        BY <1>3, <1>5
      <3>5. Between(R, args)'
        BY <3>1, <3>3, <3>4 DEF Between
      <3>6. QED  BY <3>5 DEF Ready
    <2>4. CASE k + 1 # Len(l)
      <3>1. optind' = optind
        BY <1>4, <2>1, <2>4
      <3>2. k + 1 \in 0 .. Len(l) - 1
        BY <1>3, <1>5, <2>4
      <3>3. \A i \in 1 .. k + 1 : ~Stops(l[i])
        <4> SUFFICES ASSUME NEW i \in 1 .. k + 1 PROVE ~Stops(l[i])
          OBVIOUS
        <4>1. i \in 1 .. k \/ i = k + 1
          BY <1>3
        <4>2. QED  BY <1>3, <2>1, <4>1
      <3>4. Behind(R, args, k + 1)'
        BY <1>3, <1>8, <2>2, <3>1, <3>2, <3>3 DEF Behind
      <3>5. place' = [arg |-> optind + 1, pos |-> (k + 1) + Lead(w) + 1]
        <4>1. k + Lead(w) + 2 = (k + 1) + Lead(w) + 1
          BY <1>3 DEF Lead
        <4>2. QED  BY <1>4, <2>1, <4>1
      <3>6. Within(R, args)'
        BY <1>7, <3>1, <3>4, <3>5 DEF Within
      <3>7. QED  BY <3>6 DEF Ready
    <2>5. QED  BY <2>3, <2>4
  <1>10. CASE GetoptAttached(args) \/ GetoptSeparate(args) \/ GetoptMissing(args)
    <2>1. IsOption(c) /\ Stops(c) /\ ~Scanning(args)'
      <3>1. IsOption(c) /\ NeedsArgument(c) /\ place' = EMSG
        BY <1>4, <1>10 DEF GetoptAttached, GetoptSeparate, GetoptMissing, GetoptNeeds
      <3>2. QED  BY <3>1 DEF Stops, Scanning, At
    <2>2. /\ rest # <<>> => R[optind + 1] = [r EXCEPT !.out = Append(out, <<c, c, rest>>), !.optind = @ + 1]
          /\ rest = <<>> => R[optind + 1] = [r EXCEPT !.out = out, !.waits = c, !.optind = @ + 1]
      <3>1. ReadArgument(r, w) =
                  IF ~IsOption(c) THEN [r EXCEPT !.out = out, !.ended = TRUE]
                  ELSE IF rest # <<>>
                  THEN [r EXCEPT !.out = Append(out, <<c, c, rest>>), !.optind = @ + 1]
                  ELSE [r EXCEPT !.out = out, !.waits = c, !.optind = @ + 1]
        BY <1>3, <1>5, <2>1, FlagsAndStop
      <3> HIDE DEF c, w, out, rest
      <3>2. QED  BY <1>6, <2>1, <3>1, Zenon
    <2>3. /\ SubSeq(w, k + Lead(w) + 2, Len(w)) = rest
          /\ rest = <<>> <=> k + 1 = Len(l)
      BY <1>3, <1>5, RestOfLetters
    <2> HIDE DEF c, out, rest, r
    <2>4. CASE GetoptAttached(args)
      <3>1. /\ optind' = optind + 1 /\ rest # <<>>
            /\ seen' = Append(out, <<c, c, SubSeq(w, k + Lead(w) + 2, Len(w))>>)
        <4>1. Here(args).arg = optind + 1 /\ Rest(args).pos = k + Lead(w) + 2
          BY <1>2, <1>4
        <4>2. QED  BY <1>3, <1>4, <2>3, <2>4, <4>1 DEF GetoptAttached, Returns
      <3>2. R[optind + 1] = [out |-> seen', optind |-> optind + 1, waits |-> NULL, ended |-> FALSE]
        <4>1. R[optind + 1] = [out |-> Append(out, <<c, c, rest>>), optind |-> r.optind + 1,
                               waits |-> NULL, ended |-> FALSE]
          BY <1>3, <2>2, <3>1, ReadChanged, Zenon
        <4>2. seen' = Append(out, <<c, c, rest>>)
          BY <2>3, <3>1
        <4>3. QED  BY <1>3, <4>1, <4>2
      <3>3. optind + 1 \in 1 .. Len(args)
        BY <1>3, <1>5
      <3>4. Between(R, args)'
        BY <2>1, <3>1, <3>2, <3>3 DEF Between
      <3>5. QED  BY <3>4 DEF Ready
    <2>5. CASE GetoptSeparate(args) \/ GetoptMissing(args)
      <3>1. rest = <<>>
        BY <1>4, <2>3, <2>5 DEF GetoptSeparate, GetoptMissing
      <3>2. R[optind + 1] = [out |-> seen, optind |-> optind + 1, waits |-> c, ended |-> FALSE]
        <4>1. R[optind + 1] = [out |-> out, optind |-> r.optind + 1, waits |-> c, ended |-> FALSE]
          <5> DEFINE x == R[optind + 1]
          <5>1. x = [r EXCEPT !.out = out, !.waits = c, !.optind = @ + 1]
            BY <2>2, <3>1, Zenon
          <5> HIDE DEF x
          <5>2. x = [out |-> out, optind |-> r.optind + 1, waits |-> c, ended |-> FALSE]
            BY <1>3, <5>1, ReadChanged, Zenon
          <5>3. QED  BY <5>2 DEF x
        <4>2. QED  BY <1>3, <4>1
      <3>3. /\ R[optind + 1].out = seen /\ R[optind + 1].optind = optind + 1
            /\ R[optind + 1].waits = c /\ ~R[optind + 1].ended /\ c # NULL
        BY <1>4, <3>2, ReadFields, CharsFacts
      <3>4. CASE GetoptSeparate(args)
        <4>1. /\ optind' = optind + 2 /\ optind + 1 < Len(args)
              /\ seen' = Append(seen, <<c, c, args[optind + 2]>>)
          BY <1>4, <3>4 DEF GetoptSeparate, Returns
        <4>2. /\ optind + 2 \in 2 .. Len(args) /\ (optind + 2) - 1 = optind + 1
              /\ optind + 2 \in 1 .. Len(args) /\ (optind + 1) + 1 = optind + 2
          BY <1>3, <1>5, <4>1
        <4>3. R[optind + 2] = ReadArgument(R[optind + 1], args[optind + 2])
          BY <4>2 DEF IsReading
        <4>4. ReadArgument(R[optind + 1], args[optind + 2])
                 = [out |-> seen', optind |-> (optind + 1) + 1, waits |-> NULL, ended |-> FALSE]
          <5> DEFINE q == R[optind + 1]
                     v == args[optind + 2]
                     x == ReadArgument(q, v)
          <5>1. x = [q EXCEPT !.out = Append(@, <<q.waits, q.waits, v>>),
                              !.waits = NULL, !.optind = @ + 1]
            BY <3>3, Zenon DEF ReadArgument
          <5>2. q = [out |-> q.out, optind |-> q.optind, waits |-> q.waits, ended |-> q.ended]
            BY <3>2
          <5> HIDE DEF q, v, x
          <5>3. x = [out |-> Append(q.out, <<q.waits, q.waits, v>>), optind |-> q.optind + 1,
                     waits |-> NULL, ended |-> q.ended]
            BY <5>1, <5>2, Zenon
          <5>4. q.ended = FALSE /\ q.out = seen /\ q.optind = optind + 1 /\ q.waits = c
            BY <3>2 DEF q
          <5>5. seen' = Append(seen, <<c, c, v>>)
            BY <4>1 DEF v
          <5>6. QED  BY <5>3, <5>4, <5>5 DEF q, v, x
        <4>5. Between(R, args)'
          BY <2>1, <4>1, <4>2, <4>3, <4>4 DEF Between
        <4>6. QED  BY <4>5 DEF Ready
      <3>5. CASE GetoptMissing(args)
        <4>1. /\ optind' = optind + 1 /\ optind + 1 >= Len(args)
              /\ seen' = Append(seen, Missing(c))
          BY <1>4, <3>5 DEF GetoptMissing, Returns, Missing
        <4>2. optind + 1 = Len(args)
          BY <1>3, <1>5, <4>1
        <4>3. Missed(R, args)'
          BY <1>8, <2>1, <3>3, <4>1, <4>2 DEF Missed
        <4>4. QED  BY <4>3 DEF Ready
      <3>6. QED  BY <2>5, <3>4, <3>5
    <2>6. QED  BY <1>10, <2>4, <2>5
  <1>11. QED  BY <1>9, <1>10 DEF GetoptLetter

\* -1 is returned.
LEMMA MinusOneStep ==
    ASSUME NEW R, NEW args, Args(args), IsReading(R, args), Ready(R, args), GetoptMinusOne(args)
    PROVE  Done(R, args)'
  <1> DEFINE n == Len(args)
  <1>0. n \in Nat /\ n >= 1
    BY DEF Args
  <1>1. ostr' = ostr /\ seen' = seen
    BY DEF GetoptMinusOne, GetoptEnd, GetoptDash
  <1>2. \A x : Missing(x)' = Missing(x)
    BY <1>1, SameOptions
  <1>3. ASSUME NEW m \in 1 .. n, R[m] = [out |-> seen, optind |-> optind', waits |-> NULL, ended |-> TRUE]
        PROVE  Done(R, args)'
    <2>1. R[m].ended
      BY <1>3
    <2>2. R[n] = R[m]
      BY <2>1, EndedStays
    <2>3. R[n].out = seen /\ R[n].optind = optind' /\ R[n].waits = NULL
      BY <1>3, <2>2
    <2>4. QED  BY <1>1, <2>3 DEF Done
  <1>4. CASE GetoptDash(args)
    <2>1. GetoptReads(args)
      BY <1>4 DEF GetoptDash
    <2>2. PICK k \in Nat : /\ Behind(R, args, k)
                           /\ Here(args) = [arg |-> optind + 1, pos |-> k + Lead(args[optind + 1]) + 1]
      BY <2>1, Position
    <2> DEFINE w == args[optind + 1]
               l == Letters(w)
               c == l[k + 1]
               r == R[optind]
               out == r.out \o FirstFlags(l, k)
    <2>3. /\ optind \in 1 .. n - 1 /\ HasLetters(w) /\ k \in 0 .. Len(l) - 1
          /\ Open(r) /\ r.optind = optind /\ seen = out
          /\ \A i \in 1 .. k : ~Stops(l[i])
      BY <2>2 DEF Behind
    <2>4. Letter(args) = c
      BY <2>2, NextLetter
    <2>5. ~IsOption(c) /\ Stops(c) /\ optind' = optind
      BY <1>4, <2>4 DEF GetoptDash, Stops
    <2>6. w \in Text
      BY <1>0, <2>3 DEF Args
    <2> DEFINE x == ReadArgument(r, w)
               rest == SubSeq(l, k + 2, Len(l))
    <2>7. x = IF ~IsOption(c) THEN [r EXCEPT !.out = out, !.ended = TRUE]
              ELSE IF rest # <<>>
              THEN [r EXCEPT !.out = Append(out, <<c, c, rest>>), !.optind = @ + 1]
              ELSE [r EXCEPT !.out = out, !.waits = c, !.optind = @ + 1]
      BY <2>3, <2>5, <2>6, FlagsAndStop
    <2> HIDE DEF x, r, c, out, rest, w, n
    <2>8. x = [r EXCEPT !.out = out, !.ended = TRUE]
      BY <2>5, <2>7, Zenon
    <2>9. x = [out |-> out, optind |-> r.optind, waits |-> NULL, ended |-> TRUE]
      BY <2>3, <2>8, ReadChanged, Zenon
    <2>10. optind + 1 \in 2 .. n /\ (optind + 1) - 1 = optind /\ optind + 1 \in 1 .. n
      BY <1>0, <2>3
    <2>11. R[optind + 1] = x
      BY <2>10 DEF IsReading, x, r, w, n
    <2>12. R[optind + 1] = [out |-> seen, optind |-> optind', waits |-> NULL, ended |-> TRUE]
      BY <2>3, <2>5, <2>9, <2>11
    <2>13. QED  BY <1>3, <2>10, <2>12
  <1>5. CASE GetoptEnd(args)
    <2>1. /\ ~Scanning(args) /\ (NoOptionsLeft(args) \/ DoubleDash(args))
          /\ optind' = IF DoubleDash(args) THEN optind + 1 ELSE optind
      BY <1>5 DEF GetoptEnd
    <2>2. CASE Missed(R, args)
      <3>1. /\ optind = n /\ R[n].waits # NULL /\ R[n].optind = n
            /\ seen = Append(R[n].out, Missing(R[n].waits))
        BY <2>2 DEF Missed
      <3>2. ~(optind < Len(args))
        BY <1>0, <3>1
      <3>3. optind' = optind
        BY <2>1, <3>2 DEF DoubleDash, NoOptionsLeft
      <3>4. QED  BY <1>1, <1>2, <3>1, <3>3 DEF Done
    <2>3. CASE Between(R, args)
      <3> DEFINE w == args[optind + 1]
                 r == R[optind]
      <3>1. /\ optind \in 1 .. n
            /\ r = [out |-> seen, optind |-> optind, waits |-> NULL, ended |-> FALSE]
        BY <2>3 DEF Between
      <3>2. r.out = seen /\ r.optind = optind /\ r.waits = NULL /\ ~r.ended /\ r \in Reads
        <4>1. r \in Reads
          BY <3>1 DEF IsReading
        <4>2. QED  BY <3>1, <4>1, ReadFields
      <3>3. CASE optind = n
        <4>1. ~(optind < Len(args))
          BY <1>0, <3>3
        <4>2. optind' = optind
          BY <2>1, <4>1 DEF DoubleDash, NoOptionsLeft
        <4>3. QED  BY <1>1, <3>2, <3>3, <4>2 DEF Done
      <3>4. CASE optind # n
        <4>1. /\ optind + 1 \in 2 .. n /\ (optind + 1) - 1 = optind /\ optind + 1 \in 1 .. n
              /\ optind < n
          BY <1>0, <3>1, <3>4
        <4>2. R[optind + 1] = ReadArgument(r, w)
          BY <4>1 DEF IsReading
        <4>3. \/ w = <<"-", "-">> /\ optind' = optind + 1
              \/ w # <<"-", "-">> /\ Char(w, 1) # "-" /\ optind' = optind
          <5>1. NoOptionsLeft(args) <=> Char(w, 1) # "-"
            BY <4>1 DEF NoOptionsLeft
          <5>2. w = <<"-", "-">> => Char(w, 1) = "-"
            BY DEF Char
          <5>3. QED  BY <2>1, <5>1, <5>2 DEF DoubleDash
        <4> DEFINE x == ReadArgument(r, w)
        <4> HIDE DEF n
        <4>4. CASE w = <<"-", "-">> /\ optind' = optind + 1
          <5>1. x = [r EXCEPT !.ended = TRUE, !.optind = @ + 1]
            BY <3>2, <4>4, Zenon DEF ReadArgument
          <5> HIDE DEF x, r
          <5>2. x = [out |-> seen, optind |-> optind + 1, waits |-> NULL, ended |-> TRUE]
            <6>1. r = [out |-> r.out, optind |-> r.optind, waits |-> r.waits, ended |-> r.ended]
              BY <3>1, <3>2
            <6>2. x = [out |-> r.out, optind |-> r.optind + 1, waits |-> r.waits, ended |-> TRUE]
              BY <5>1, <6>1, Zenon
            <6>3. QED  BY <3>2, <6>2
          <5>3. R[optind + 1] = [out |-> seen, optind |-> optind', waits |-> NULL, ended |-> TRUE]
            BY <4>2, <4>4, <5>2 DEF x
          <5>4. QED  BY <1>3, <4>1, <5>3
        <4>5. CASE w # <<"-", "-">> /\ Char(w, 1) # "-" /\ optind' = optind
          <5>1. x = [r EXCEPT !.ended = TRUE]
            BY <3>2, <4>5, Zenon DEF ReadArgument
          <5> HIDE DEF x, r
          <5>2. x = [out |-> seen, optind |-> optind, waits |-> NULL, ended |-> TRUE]
            <6>1. r = [out |-> r.out, optind |-> r.optind, waits |-> r.waits, ended |-> r.ended]
              BY <3>1, <3>2
            <6>2. x = [out |-> r.out, optind |-> r.optind, waits |-> r.waits, ended |-> TRUE]
              BY <5>1, <6>1, Zenon
            <6>3. QED  BY <3>2, <6>2
          <5>3. R[optind + 1] = [out |-> seen, optind |-> optind', waits |-> NULL, ended |-> TRUE]
            BY <4>2, <4>5, <5>2 DEF x
          <5>4. QED  BY <1>3, <4>1, <5>3
        <4>6. QED  BY <4>3, <4>4, <4>5
      <3>5. QED  BY <3>3, <3>4
    <2>4. CASE Within(R, args)
      BY <2>1, <2>4, WithinScans
    <2>5. QED  BY <2>2, <2>3, <2>4 DEF Ready
  <1>6. QED  BY <1>4, <1>5 DEF GetoptMinusOne

------------------------------------------------------------------------------
(* Recursion from the end of an interval to its beginning *)

\* A set holds an interval if it has each number that has all behind it in the set.
LEMMA DownInduction ==
    ASSUME NEW lo \in Nat, NEW hi \in Nat, NEW T,
           \A i \in lo .. hi : (\A j \in i + 1 .. hi : j \in T) => i \in T
    PROVE  lo .. hi \subseteq T
  <1> DEFINE out == (lo .. hi) \ T
  <1> SUFFICES ASSUME out # {} PROVE FALSE
    OBVIOUS
  <1>1. out \subseteq 0 .. hi
    OBVIOUS
  <1>2. PICK i \in out : \A j \in out : j <= i
    <2> HIDE DEF out
    <2>1. Max(out) \in out /\ \A j \in out : j <= Max(out)
      BY <1>1, MaxOf
    <2>2. QED  BY <2>1
  <1>3. i \in lo .. hi /\ i \notin T
    BY <1>2
  <1>4. \A j \in i + 1 .. hi : j \in T
    <2> SUFFICES ASSUME NEW j \in i + 1 .. hi, j \notin T PROVE FALSE
      OBVIOUS
    <2>1. j \in lo .. hi /\ ~(j <= i)
      BY <1>3
    <2>2. QED  BY <1>2, <2>1
  <1>5. QED  BY <1>3, <1>4

\* A value follows from those behind it.
OnlyBehind(rule, V, lo, hi) ==
    \A g, h \in [lo .. hi -> V], i \in lo .. hi :
       (\A j \in i + 1 .. hi : g[j] = h[j]) => rule[<<g, i>>] = rule[<<h, i>>]

Solves(g, rule, lo, hi) == \A i \in lo .. hi : g[i] = rule[<<g, i>>]

\* There is a function whose values follow from those behind them.
LEMMA DownRecursion ==
    ASSUME NEW V, NEW any \in V, NEW lo \in Nat, NEW hi \in Nat,
           NEW rule \in [[lo .. hi -> V] \X (lo .. hi) -> V],
           OnlyBehind(rule, V, lo, hi)
    PROVE  \E g \in [lo .. hi -> V] : Solves(g, rule, lo, hi)
  <1> DEFINE Holds(g, m) == g \in [lo .. hi -> V] /\ \A i \in lo .. hi : i >= m => g[i] = rule[<<g, i>>]
             T == {i \in lo .. hi + 1 : \E g : Holds(g, i)}
  <1>0. CASE lo > hi
    <2>1. [i \in lo .. hi |-> any] \in [lo .. hi -> V] /\ lo .. hi = {}
      BY <1>0
    <2>2. QED  BY <2>1 DEF Solves
  <1>1. CASE lo <= hi
    <2>1. hi + 1 \in T
      <3>1. Holds([i \in lo .. hi |-> any], hi + 1)
        OBVIOUS
      <3> HIDE DEF Holds
      <3>2. QED  BY <1>1, <3>1
    <2>2. ASSUME NEW i \in lo .. hi, i + 1 \in T
          PROVE  i \in T
      <3>1. PICK g : Holds(g, i + 1)
        BY <2>2
      <3> DEFINE h == [g EXCEPT ![i] = rule[<<g, i>>]]
      <3>2. g \in [lo .. hi -> V] /\ rule[<<g, i>>] \in V
        BY <3>1
      <3>3. /\ h \in [lo .. hi -> V] /\ h[i] = rule[<<g, i>>]
            /\ \A j \in lo .. hi : j # i => h[j] = g[j]
        BY <3>2
      <3> HIDE DEF h
      <3>4. ASSUME NEW k \in lo .. hi, k >= i
            PROVE  h[k] = rule[<<h, k>>]
        <4>1. \A j \in k + 1 .. hi : j \in lo .. hi /\ j # i
          BY <3>4
        <4>2. \A j \in k + 1 .. hi : g[j] = h[j]
          BY <3>3, <4>1
        <4>3. rule[<<g, k>>] = rule[<<h, k>>]
          BY <3>2, <3>3, <4>2 DEF OnlyBehind
        <4>4. h[k] = rule[<<g, k>>]
          <5>1. CASE k = i
            BY <3>3, <5>1
          <5>2. CASE k # i
            BY <3>1, <3>3, <3>4, <5>2
          <5>3. QED  BY <5>1, <5>2
        <4>5. QED  BY <4>3, <4>4
      <3>5. Holds(h, i)
        BY <3>3, <3>4
      <3> HIDE DEF Holds
      <3>6. QED  BY <3>5
    <2>3. lo \in T
      <3> HIDE DEF T
      <3>1. \A i \in lo .. hi + 1 : (\A j \in i + 1 .. hi + 1 : j \in T) => i \in T
        <4> SUFFICES ASSUME NEW i \in lo .. hi + 1, \A j \in i + 1 .. hi + 1 : j \in T
                     PROVE  i \in T
          OBVIOUS
        <4>1. CASE i = hi + 1
          BY <2>1, <4>1
        <4>2. CASE i # hi + 1
          <5>1. i \in lo .. hi /\ i + 1 \in i + 1 .. hi + 1
            BY <4>2
          <5>2. QED  BY <2>2, <5>1
        <4>3. QED  BY <4>1, <4>2
      <3>2. hi + 1 \in Nat /\ lo \in lo .. hi + 1
        BY <1>1
      <3>3. lo .. hi + 1 \subseteq T
        BY <3>1, <3>2, DownInduction
      <3>4. QED  BY <3>2, <3>3
    <2>4. PICK g : Holds(g, lo)
      BY <2>3
    <2>5. QED  BY <2>4 DEF Solves
  <1>2. lo > hi \/ lo <= hi
    OBVIOUS
  <1>3. QED  BY <1>0, <1>1, <1>2

------------------------------------------------------------------------------
(* Patterns *)

LEMMA ElementsAreChars ==
    ASSUME NEW w \in Text, NEW first \in Nat, NEW end \in first .. Len(w),
           w[end] = "]", \A j \in first + 1 .. end - 1 : w[j] # "]"
    PROVE  Elements(w, first, end) \subseteq Chars
  <1> DEFINE IsRange(j) == w[j + 1] = "-" /\ w[j + 2] # "]"
             Listed1(j) == {c \in ToSet(Alphabet) : Code(c) \in Code(w[j]) .. Code(w[IF IsRange(j) THEN j + 2 ELSE j])}
             Body(f, j) == IF j = end THEN {} ELSE Listed1(j) \cup f[(IF IsRange(j) THEN j + 2 ELSE j) + 1]
             Is(f) == f = [j \in first .. end |-> Body(f, j)]
             from == CHOOSE f : Is(f)
             V == SUBSET Chars
  <1>1. Elements(w, first, end) = from[first]
    BY Zenon DEF Elements
  <1>2. ASSUME NEW j \in first .. end, j # end
        PROVE  (IF IsRange(j) THEN j + 2 ELSE j) + 1 \in j + 1 .. end
    <2>0. Len(w) \in Nat
      BY DEF Text
    <2>1. CASE IsRange(j)
      <3>1. j + 1 # end
        BY <2>1
      <3>2. j + 2 # end
        BY <2>1
      <3>3. j + 3 \in j + 1 .. end /\ (j + 2) + 1 = j + 3
        BY <1>2, <2>0, <3>1, <3>2
      <3>4. QED  BY <2>1, <3>3
    <2>2. CASE ~IsRange(j)
      BY <1>2, <2>0, <2>2
    <2>3. QED  BY <2>1, <2>2
  <1>3. \A j : Listed1(j) \in V
    BY DEF Chars
  <1> HIDE DEF IsRange, Listed1
  <1>4. ASSUME NEW f, NEW j \in first .. end, \A m \in j + 1 .. end : f[m] \in V
        PROVE  Body(f, j) \in V
    BY <1>2, <1>3, <1>4
  <1>5. ASSUME NEW f, NEW h, NEW j \in first .. end, \A m \in j + 1 .. end : f[m] = h[m]
        PROVE  Body(f, j) = Body(h, j)
    BY <1>2, <1>5
  <1> HIDE DEF Body, V
  <1> DEFINE rule == [v \in [first .. end -> V] \X (first .. end) |-> Body(v[1], v[2])]
  <1>6. end \in Nat
    BY DEF Text
  <1>7. rule \in [[first .. end -> V] \X (first .. end) -> V]
    <2>1. \A f \in [first .. end -> V], j \in first .. end : Body(f, j) \in V
      <3> SUFFICES ASSUME NEW f \in [first .. end -> V], NEW j \in first .. end PROVE Body(f, j) \in V
        OBVIOUS
      <3>1. \A m \in j + 1 .. end : f[m] \in V
        BY <1>6
      <3>2. QED  BY <1>4, <3>1
    <2>2. QED  BY <2>1
  <1>8. \A f \in [first .. end -> V], j \in first .. end : rule[<<f, j>>] = Body(f, j)
    OBVIOUS
  <1> HIDE DEF rule
  <1>9. PICK g \in [first .. end -> V] : Solves(g, rule, first, end)
    <2>1. {} \in V
      BY DEF V
    <2>2. OnlyBehind(rule, V, first, end)
      <3> SUFFICES ASSUME NEW f \in [first .. end -> V], NEW h \in [first .. end -> V],
                          NEW j \in first .. end, \A m \in j + 1 .. end : f[m] = h[m]
                   PROVE  rule[<<f, j>>] = rule[<<h, j>>]
        BY DEF OnlyBehind
      <3>1. Body(f, j) = Body(h, j)
        BY <1>5
      <3>2. QED  BY <1>8, <3>1
    <2>3. QED  BY <1>6, <1>7, <2>1, <2>2, DownRecursion
  <1>10. Is(g)
    <2>1. g = [j \in first .. end |-> g[j]]
      OBVIOUS
    <2>2. \A j \in first .. end : g[j] = Body(g, j)
      BY <1>8, <1>9 DEF Solves
    <2>3. QED  BY <2>1, <2>2
  <1>11. Is(from)
    BY <1>10
  <1> HIDE DEF from
  <1>12. \A j \in first .. end : from[j] = Body(from, j)
    BY <1>11
  <1> DEFINE T == {j \in first .. end : from[j] \in V}
  <1>13. first .. end \subseteq T
    <2>1. \A j \in first .. end : (\A m \in j + 1 .. end : m \in T) => j \in T
      BY <1>4, <1>12
    <2> HIDE DEF T
    <2>2. QED  BY <1>6, <2>1, DownInduction
  <1>14. from[first] \in V
    BY <1>6, <1>13
  <1>15. QED  BY <1>1, <1>14 DEF V

\* The first and the last index that a search finds.
LEMMA FirstOf ==
    ASSUME NEW I, I \subseteq Nat, NEW m, m = IF I # {} THEN Min(I) ELSE 0
    PROVE  \/ m = 0 /\ I = {}
           \/ m \in I /\ \A i \in I : m <= i
  BY MinOf

IsPlain(w) == \A i \in DOMAIN w : w[i] \notin {"*", "?", "["}
Literals(w) == [i \in DOMAIN w |-> Literal(w[i])]

LEMMA CompileIs ==
    ASSUME NEW w \in Text
    PROVE  /\ Compile(w) \in Seq(Tokens)
           /\ IsPlain(w) => Compile(w) = Literals(w)
  <1> DEFINE Negate(i) == i < Len(w) /\ w[i + 1] = "!"
             First(i) == IF Negate(i) THEN i + 2 ELSE i + 1
             End(i) == SelectInSubSeq(w, First(i) + 1, Len(w), LAMBDA c : c = "]")
             Body(f, i) ==
                IF i > Len(w) THEN <<>>
                ELSE IF w[i] = "[" /\ End(i) # 0
                THEN <<M_SET(Elements(w, First(i), End(i)), Negate(i))>> \o f[End(i) + 1]
                ELSE IF w[i] = "?" THEN <<M_ONE>> \o f[i + 1]
                ELSE IF w[i] # "*" THEN <<Literal(w[i])>> \o f[i + 1]
                ELSE IF i < Len(w) /\ w[i + 1] = "*" THEN f[i + 1]
                ELSE <<M_ALL>> \o f[i + 1]
             n == Len(w) + 1
             Is(f) == f = [i \in 1 .. n |-> Body(f, i)]
             from == CHOOSE f : Is(f)
             V == Seq(Tokens)
  <1>1. Compile(w) = from[1]
    BY Zenon DEF Compile
  <1>2. Len(w) \in Nat /\ n \in Nat /\ \A i \in 1 .. Len(w) : w[i] \in Chars
    BY DEF Text
  <1>3. ASSUME NEW i \in 1 .. Len(w), End(i) # 0
        PROVE  /\ End(i) + 1 \in i + 1 .. n
               /\ M_SET(Elements(w, First(i), End(i)), Negate(i)) \in Tokens
    <2> DEFINE I == {j \in First(i) + 1 .. Len(w) : w[j] = "]"}
    <2>1. First(i) \in {i + 1, i + 2} /\ First(i) \in Nat
      OBVIOUS
    <2>2. End(i) = IF I # {} THEN Min(I) ELSE 0
      BY DEF SelectInSubSeq
    <2>3. I \subseteq Nat
      BY <1>2, <2>1
    <2> HIDE DEF First, End, Negate
    <2>4. End(i) \in I /\ \A j \in I : End(i) <= j
      <3> HIDE DEF I
      <3>1. QED  BY <1>3, <2>2, <2>3, FirstOf
    <2>5. /\ End(i) \in First(i) .. Len(w) /\ w[End(i)] = "]"
          /\ \A j \in First(i) + 1 .. End(i) - 1 : w[j] # "]"
      <3>1. End(i) \in First(i) + 1 .. Len(w) /\ w[End(i)] = "]"
        BY <2>4
      <3>2. ASSUME NEW j \in First(i) + 1 .. End(i) - 1, w[j] = "]"
            PROVE  FALSE
        <4>1. j \in First(i) + 1 .. Len(w) /\ ~(End(i) <= j)
          BY <1>2, <2>1, <3>1
        <4>2. QED  BY <2>4, <3>2, <4>1
      <3>3. QED  BY <1>2, <2>1, <3>1, <3>2
    <2>6. Elements(w, First(i), End(i)) \subseteq Chars
      BY <2>1, <2>5, ElementsAreChars
    <2>7. Negate(i) \in BOOLEAN
      BY DEF Negate
    <2>8. M_SET(Elements(w, First(i), End(i)), Negate(i)) \in Tokens
      BY <2>6, <2>7, Zenon DEF M_SET, Tokens
    <2>9. End(i) + 1 \in i + 1 .. n
      BY <1>2, <2>1, <2>5
    <2>10. QED  BY <2>8, <2>9
  <1>4. M_ONE \in Tokens /\ M_ALL \in Tokens /\ \A c \in Chars : Literal(c) \in Tokens
    <2>1. M_ONE \in Tokens
      <3>1. ToSet(Alphabet) \subseteq Chars /\ FALSE \in BOOLEAN
        BY DEF Chars
      <3>2. QED  BY <3>1, Zenon DEF M_ONE, M_SET, Tokens
    <2>2. QED  BY <2>1, Zenon DEF Tokens
  <1>5. ASSUME NEW t \in Tokens, NEW q \in Seq(Tokens)
        PROVE  <<t>> \o q \in Seq(Tokens)
    <2>1. <<t>> \in Seq(Tokens)
      OBVIOUS
    <2>2. QED  BY <2>1, ConcatProperties
  <1>6. <<>> \in V
    BY EmptySeq
  <1> HIDE DEF Negate, First, End
  <1>7. ASSUME NEW f, NEW i \in 1 .. n, \A m \in i + 1 .. n : f[m] \in V
        PROVE  Body(f, i) \in V
    <2>1. CASE i > Len(w)
      BY <1>6, <2>1
    <2>2. CASE ~(i > Len(w))
      <3>1. i \in 1 .. Len(w) /\ i + 1 \in i + 1 .. n /\ w[i] \in Chars
        BY <1>2, <2>2
      <3>2. f[i + 1] \in V /\ (End(i) # 0 => f[End(i) + 1] \in V)
        BY <1>3, <1>7, <3>1
      <3>3. /\ <<M_ONE>> \o f[i + 1] \in V /\ <<M_ALL>> \o f[i + 1] \in V
            /\ <<Literal(w[i])>> \o f[i + 1] \in V
        BY <1>4, <1>5, <3>1, <3>2
      <3>4. End(i) # 0 => <<M_SET(Elements(w, First(i), End(i)), Negate(i))>> \o f[End(i) + 1] \in V
        BY <1>3, <1>5, <3>1, <3>2
      <3> HIDE DEF V
      <3>5. QED  BY <2>2, <3>2, <3>3, <3>4
    <2>3. QED  BY <2>1, <2>2
  <1>8. ASSUME NEW f, NEW h, NEW i \in 1 .. n, \A m \in i + 1 .. n : f[m] = h[m]
        PROVE  Body(f, i) = Body(h, i)
    <2>1. CASE i > Len(w)
      BY <2>1
    <2>2. CASE ~(i > Len(w))
      <3>1. i \in 1 .. Len(w) /\ i + 1 \in i + 1 .. n
        BY <1>2, <2>2
      <3>2. f[i + 1] = h[i + 1] /\ (End(i) # 0 => f[End(i) + 1] = h[End(i) + 1])
        BY <1>3, <1>8, <3>1
      <3>3. QED  BY <3>2
    <2>3. QED  BY <2>1, <2>2
  <1>9. ASSUME NEW f, IsPlain(w), NEW i \in 1 .. Len(w)
        PROVE  Body(f, i) = <<Literal(w[i])>> \o f[i + 1]
    <2>1. w[i] # "*" /\ w[i] # "?" /\ w[i] # "[" /\ ~(i > Len(w))
      BY <1>2, <1>9 DEF IsPlain
    <2>2. QED  BY <2>1
  <1>10. \A f : Body(f, n) = <<>>
    <2>1. n > Len(w)
      BY <1>2
    <2>2. QED  BY <2>1
  <1> HIDE DEF Body, V, n
  <1> DEFINE rule == [v \in [1 .. n -> V] \X (1 .. n) |-> Body(v[1], v[2])]
  <1>11. rule \in [[1 .. n -> V] \X (1 .. n) -> V]
    <2>1. \A f \in [1 .. n -> V], i \in 1 .. n : Body(f, i) \in V
      <3> SUFFICES ASSUME NEW f \in [1 .. n -> V], NEW i \in 1 .. n PROVE Body(f, i) \in V
        OBVIOUS
      <3>1. \A m \in i + 1 .. n : f[m] \in V
        BY <1>2
      <3>2. QED  BY <1>7, <3>1
    <2>2. QED  BY <2>1
  <1>12. \A f \in [1 .. n -> V], i \in 1 .. n : rule[<<f, i>>] = Body(f, i)
    OBVIOUS
  <1> HIDE DEF rule
  <1>13. PICK g \in [1 .. n -> V] : Solves(g, rule, 1, n)
    <2>1. OnlyBehind(rule, V, 1, n)
      <3> SUFFICES ASSUME NEW f \in [1 .. n -> V], NEW h \in [1 .. n -> V],
                          NEW i \in 1 .. n, \A m \in i + 1 .. n : f[m] = h[m]
                   PROVE  rule[<<f, i>>] = rule[<<h, i>>]
        BY DEF OnlyBehind
      <3>1. Body(f, i) = Body(h, i)
        BY <1>8
      <3>2. QED  BY <1>12, <3>1
    <2>2. QED  BY <1>2, <1>6, <1>11, <2>1, DownRecursion
  <1>14. Is(g)
    <2>1. g = [i \in 1 .. n |-> g[i]]
      OBVIOUS
    <2>2. \A i \in 1 .. n : g[i] = Body(g, i)
      BY <1>12, <1>13 DEF Solves
    <2>3. QED  BY <2>1, <2>2
  <1>15. Is(from)
    BY <1>14
  <1> HIDE DEF from
  <1>16. \A i \in 1 .. n : from[i] = Body(from, i)
    BY <1>15
  <1> HIDE DEF Is
  <1>17. \A i \in 1 .. n : from[i] \in V
    <2> DEFINE T == {i \in 1 .. n : from[i] \in V}
    <2>1. \A i \in 1 .. n : (\A m \in i + 1 .. n : m \in T) => i \in T
      BY <1>7, <1>16
    <2> HIDE DEF T
    <2>2. 1 .. n \subseteq T
      BY <1>2, <2>1, DownInduction
    <2>3. QED  BY <2>2 DEF T
  <1>18. from[1] \in Seq(Tokens)
    <2>1. 1 \in 1 .. n
      BY <1>2 DEF n
    <2>2. QED  BY <1>17, <2>1 DEF V
  <1>19. ASSUME IsPlain(w)
         PROVE  from[1] = Literals(w)
    <2> DEFINE Is1(i) == /\ Len(from[i]) = n - i
                         /\ \A j \in 1 .. n - i : from[i][j] = Literal(w[i + j - 1])
               T == {i \in 1 .. n : Is1(i)}
    <2>1. ASSUME NEW i \in 1 .. n, \A m \in i + 1 .. n : m \in T
          PROVE  i \in T
      <3>1. CASE i = n
        <4>1. from[i] = <<>> /\ n - i = 0
          BY <1>2, <1>10, <1>16, <3>1
        <4>2. Len(<<>>) = 0 /\ 1 .. n - i = {}
          BY <4>1, EmptySeq
        <4>3. QED  BY <4>1, <4>2
      <3>2. CASE i # n
        <4>1. i \in 1 .. Len(w) /\ i + 1 \in i + 1 .. n /\ i + 1 \in 1 .. n
          BY <1>2, <3>2 DEF n
        <4>2. from[i] = <<Literal(w[i])>> \o from[i + 1] /\ from[i + 1] \in V
          BY <1>9, <1>16, <1>17, <1>19, <4>1
        <4>3. Is1(i + 1)
          BY <2>1, <4>1
        <4> DEFINE q == from[i + 1]
                   h == <<Literal(w[i])>>
        <4>4. h \in Seq(Tokens) /\ Len(h) = 1 /\ h[1] = Literal(w[i]) /\ q \in Seq(Tokens)
          BY <1>2, <1>4, <4>1, <4>2 DEF V
        <4>5. Len(q) = n - (i + 1) /\ \A j \in 1 .. n - (i + 1) : q[j] = Literal(w[(i + 1) + j - 1])
          BY <4>3
        <4> HIDE DEF q, h
        <4>6. /\ Len(h \o q) = 1 + Len(q)
              /\ \A j \in 1 .. 1 + Len(q) : (h \o q)[j] = IF j <= 1 THEN h[j] ELSE q[j - 1]
          <5>1. /\ Len(h \o q) = Len(h) + Len(q)
                /\ \A j \in 1 .. Len(h) + Len(q) :
                      (h \o q)[j] = IF j <= Len(h) THEN h[j] ELSE q[j - Len(h)]
            BY <4>4, ConcatProperties
          <5>2. QED  BY <4>4, <5>1
        <4>7. Len(h \o q) = n - i
          BY <1>2, <4>5, <4>6
        <4>8. ASSUME NEW j \in 1 .. n - i
              PROVE  (h \o q)[j] = Literal(w[i + j - 1])
          <5>1. j \in 1 .. 1 + Len(q)
            BY <1>2, <4>5
          <5>2. CASE j = 1
            <6>1. i + j - 1 = i
              BY <5>2
            <6>2. QED  BY <4>4, <4>6, <5>1, <5>2, <6>1
          <5>3. CASE j # 1
            <6>1. j - 1 \in 1 .. n - (i + 1) /\ (i + 1) + (j - 1) - 1 = i + j - 1 /\ ~(j <= 1)
              BY <1>2, <5>3
            <6>2. QED  BY <4>5, <4>6, <5>1, <6>1
          <5>4. QED  BY <5>2, <5>3
        <4>9. QED  BY <4>2, <4>7, <4>8 DEF q, h
      <3>3. QED  BY <3>1, <3>2
    <2>2. 1 \in T
      <3> HIDE DEF T
      <3>1. 1 .. n \subseteq T
        BY <1>2, <2>1, DownInduction
      <3>2. 1 \in 1 .. n
        BY <1>2 DEF n
      <3>3. QED  BY <3>1, <3>2
    <2>3. /\ Len(from[1]) = Len(w)
          /\ \A j \in 1 .. Len(w) : from[1][j] = Literal(w[j])
      <3>1. n - 1 = Len(w) /\ \A j \in 1 .. Len(w) : 1 + j - 1 = j
        BY <1>2 DEF n
      <3>2. Is1(1)
        BY <2>2
      <3> HIDE DEF n
      <3>3. QED  BY <3>1, <3>2
    <2>4. DOMAIN w = 1 .. Len(w)
      BY DEF Text
    <2>5. from[1] = [j \in 1 .. Len(w) |-> from[1][j]]
      BY <1>18, <2>3
    <2>6. QED  BY <2>3, <2>4, <2>5 DEF Literals
  <1>20. QED  BY <1>1, <1>18, <1>19

------------------------------------------------------------------------------
(* Names and paths *)

LEMMA TextFacts ==
    /\ <<>> \in Text /\ <<".">> \in Text /\ <<".", ".">> \in Text
    /\ \A v, w \in Text : v \o w \in Text
  <1>1. "." \in Chars
    BY CharsAssumption
  <1>2. <<".">> \in Seq(Chars) /\ <<".", ".">> \in Seq(Chars)
    BY <1>1
  <1>3. QED  BY <1>2, EmptySeq, ConcatProperties DEF Text

LEMMA EntriesAreText ==
    ASSUME tree \subseteq Files, NEW at
    PROVE  Entries(at) \subseteq Text
  <1> SUFFICES ASSUME NEW f \in tree PROVE Last(f) \in Text
    BY DEF Entries
  <1>1. f \in Seq(Text) /\ f # <<>>
    BY FilesAssumption
  <1>2. Len(f) \in 1 .. Len(f)
    BY <1>1, EmptySeq
  <1>3. QED  BY <1>1, <1>2, ElementOfSeq DEF Last

LEMMA LiteralTokens ==
    ASSUME NEW q \in Seq(Tokens), \A i \in 1 .. Len(q) : ~ismeta(q[i])
    PROVE  TextOf(q) \in Text
  <1>1. \A t \in Tokens : ~ismeta(t) => t.char \in Chars
    <2> SUFFICES ASSUME NEW t \in Tokens, ~ismeta(t) PROVE t.char \in Chars
      OBVIOUS
    <2>1. t.kind = "char"
      BY DEF ismeta
    <2>2. \/ \E c \in Chars : t = Literal(c)
          \/ t = M_ALL
          \/ t \in [kind : {"set"}, chars : SUBSET Chars, negate : BOOLEAN]
      BY Zenon DEF Tokens
    <2>3. t # M_ALL
      BY <2>1 DEF M_ALL
    <2>4. t \notin [kind : {"set"}, chars : SUBSET Chars, negate : BOOLEAN]
      BY <2>1
    <2>5. QED  BY <2>2, <2>3, <2>4 DEF Literal
  <1>2. Len(q) \in Nat /\ DOMAIN q = 1 .. Len(q) /\ \A i \in 1 .. Len(q) : q[i] \in Tokens
    OBVIOUS
  <1>3. TextOf(q) \in [1 .. Len(q) -> Chars]
    BY <1>1, <1>2 DEF TextOf
  <1>4. QED  BY <1>2, <1>3, SeqDef DEF Text

LEMMA TextOfItsLiterals ==
    ASSUME NEW w \in Text
    PROVE  TextOf(Literals(w)) = w /\ \A i \in DOMAIN w : ~ismeta(Literals(w)[i])
  <1>1. DOMAIN Literals(w) = DOMAIN w /\ \A i \in DOMAIN w : Literals(w)[i] = Literal(w[i])
    BY DEF Literals
  <1>2. \A c : Literal(c).char = c /\ Literal(c).kind = "char"
    BY DEF Literal
  <1>3. TextOf(Literals(w)) = [i \in DOMAIN w |-> w[i]]
    BY <1>1, <1>2 DEF TextOf
  <1>4. w = [i \in DOMAIN w |-> w[i]]
    BY DEF Text
  <1>5. QED  BY <1>1, <1>2, <1>3, <1>4 DEF ismeta

LEMMA TokensBetween ==
    ASSUME NEW q \in Seq(Tokens), NEW a \in Nat \ {0}, NEW b \in Int, b <= Len(q)
    PROVE  /\ SubSeq(q, a, b) \in Seq(Tokens)
           /\ \A i \in 1 .. Len(SubSeq(q, a, b)) : a + i - 1 \in a .. b /\ SubSeq(q, a, b)[i] = q[a + i - 1]
  <1>1. Len(q) \in Nat /\ \A i \in a .. b : q[i] \in Tokens
    OBVIOUS
  <1>2. /\ SubSeq(q, a, b) \in Seq(Tokens)
        /\ Len(SubSeq(q, a, b)) = IF a <= b THEN b - a + 1 ELSE 0
        /\ \A i \in 1 .. b - a + 1 : SubSeq(q, a, b)[i] = q[a + i - 1]
    BY <1>1, SubSeqProperties
  <1>3. QED  BY <1>2

LEMMA SegmentFacts ==
    ASSUME pat \in Seq(Tokens)
    PROVE  /\ FirstMeta = 0 => \A i \in 1 .. Len(pat) : ~ismeta(pat[i])
           /\ FirstMeta # 0 => /\ FirstMeta \in 1 .. Len(pat) /\ ismeta(pat[FirstMeta])
                               /\ \A i \in 1 .. FirstMeta - 1 : ~ismeta(pat[i])
                               /\ SegmentStart \in 1 .. FirstMeta
                               /\ SegmentEnd \in 0 .. Len(pat)
  <1> DEFINE I == {i \in 1 .. Len(pat) : ismeta(pat[i])}
  <1>1. FirstMeta = IF I # {} THEN Min(I) ELSE 0
    BY DEF FirstMeta, SelectInSeq
  <1>2. I \subseteq Nat /\ Len(pat) \in Nat
    OBVIOUS
  <1>3. \/ FirstMeta = 0 /\ I = {}
        \/ FirstMeta \in I /\ \A i \in I : FirstMeta <= i
    <2> HIDE DEF I
    <2>1. QED  BY <1>1, <1>2, FirstOf
  <1>4. CASE FirstMeta = 0
    BY <1>2, <1>3, <1>4
  <1>5. CASE FirstMeta # 0
    <2>1. FirstMeta \in 1 .. Len(pat) /\ ismeta(pat[FirstMeta])
      BY <1>3, <1>5
    <2>2. \A i \in 1 .. FirstMeta - 1 : ~ismeta(pat[i])
      <3> SUFFICES ASSUME NEW i \in 1 .. FirstMeta - 1, ismeta(pat[i]) PROVE FALSE
        OBVIOUS
      <3>1. i \in 1 .. Len(pat) /\ ~(FirstMeta <= i)
        BY <1>2, <2>1
      <3>2. QED  BY <1>3, <1>5, <3>1
    <2>3. SegmentStart \in 1 .. FirstMeta
      <3> DEFINE J == {i \in 1 .. FirstMeta : pat[i] = SEP}
      <3>1. SegmentStart = (IF J # {} THEN Max(J) ELSE 0) + 1
        BY DEF SegmentStart, SelectLastInSubSeq
      <3>2. CASE J = {}
        BY <2>1, <3>1, <3>2
      <3>3. CASE J # {}
        <4>1. J \subseteq 0 .. FirstMeta /\ FirstMeta \in Nat
          BY <2>1
        <4>2. Max(J) \in J
          <5> HIDE DEF J
          <5>1. QED  BY <3>3, <4>1, MaxOf
        <4>3. Max(J) \in 1 .. FirstMeta /\ pat[Max(J)] = SEP
          BY <4>2
        <4>4. ~ismeta(SEP)
          BY DEF SEP, Literal, ismeta
        <4>5. Max(J) # FirstMeta
          BY <2>1, <4>3, <4>4
        <4>6. SegmentStart = Max(J) + 1
          BY <3>1, <3>3
        <4> HIDE DEF J
        <4>7. QED  BY <2>1, <4>3, <4>5, <4>6
      <3>4. QED  BY <3>2, <3>3
    <2>4. SegmentEnd \in 0 .. Len(pat)
      <3> DEFINE J == {i \in FirstMeta .. Len(pat) : pat[i] = SEP}
                 first == IF J # {} THEN Min(J) ELSE 0
      <3>1. SegmentEnd = IF first = 0 THEN Len(pat) ELSE first - 1
        BY DEF SegmentEnd, SelectInSubSeq
      <3>2. J \subseteq Nat
        BY <2>1
      <3>3. first = 0 \/ first \in J
        <4> HIDE DEF J
        <4>1. QED  BY <3>2, FirstOf
      <3>4. first = 0 \/ first \in FirstMeta .. Len(pat)
        BY <3>3
      <3> HIDE DEF first
      <3>5. QED  BY <1>2, <2>1, <3>1, <3>4
    <2>5. QED  BY <1>5, <2>1, <2>2, <2>3, <2>4
  <1>6. QED  BY <1>4, <1>5

------------------------------------------------------------------------------
(* The types of glob *)

FilesTypeOK ==
    /\ tree \subseteq Files /\ changes \in 0..MaxChanges
    /\ always \subseteq tree \cap ever /\ ever \subseteq Files

MatchTypeOK ==
    /\ gpc \in {"idle", "glob2", "glob3", "unwind", "done"}
    /\ pattern \in Text /\ path \in Text
    /\ pat \in Seq(Tokens)
    /\ \A i \in DOMAIN dirs : FrameTypeOK(dirs[i])
    /\ aborted \in BOOLEAN
    /\ pathv \in Seq(Text)

LEMMA ChangeFiles ==
    ASSUME FilesTypeOK, Change
    PROVE  FilesTypeOK'
  <1>1. tree' \subseteq Files
    BY FilesAssumption DEF FilesTypeOK, Change
  <1>2. changes' \in 0 .. MaxChanges
    BY FilesAssumption DEF FilesTypeOK, Change
  <1>3. QED  BY <1>1, <1>2 DEF FilesTypeOK, Change

LEMMA GlobStepFiles ==
    ASSUME FilesTypeOK, UNCHANGED files
    PROVE  FilesTypeOK'
  BY DEF FilesTypeOK, files

LEMMA CallTypes ==
    ASSUME FilesTypeOK, MatchTypeOK, NEW w \in Text, GlobCall(w)
    PROVE  FilesTypeOK' /\ MatchTypeOK'
  <1>1. FilesTypeOK'
    BY DEF FilesTypeOK, GlobCall
  <1>2. Compile(w) \in Seq(Tokens)
    BY CompileIs
  <1>3. <<>> \in Seq(Text) /\ <<>> \in Text
    BY EmptySeq, TextFacts
  <1>4. MatchTypeOK'
    BY <1>2, <1>3 DEF MatchTypeOK, GlobCall, FrameTypeOK
  <1>5. QED  BY <1>1, <1>4

\* A function on 1..n is a sequence.
LEMMA FunctionsAreSequences ==
    ASSUME NEW n \in Nat, NEW S, NEW f \in [1 .. n -> S]
    PROVE  f \in Seq(S)
  OBVIOUS

LEMMA GlobStepTypes ==
    ASSUME FilesTypeOK, MatchTypeOK, dirs \in Seq(ToSet(dirs)), GlobStep
    PROVE  MatchTypeOK'
  <1> USE DEF MatchTypeOK
  <1>0. <<>> \in Seq(Tokens)
    BY EmptySeq
  <1>1. \A w \in Text : globextend(w) \in Seq(Text)
    BY AppendProperties DEF globextend
  <1>2. ASSUME UNCHANGED dirs
        PROVE  \A i \in DOMAIN dirs' : FrameTypeOK(dirs[i])'
    BY <1>2 DEF FrameTypeOK
  <1>3. CASE Glob2End
    <2>1. TextOf(pat) \in Text
      BY <1>3, SegmentFacts, LiteralTokens DEF Glob2End
    <2>2. path' \in Text
      BY <1>3, <2>1, TextFacts DEF Glob2End
    <2>3. pathv' \in Seq(Text)
      BY <1>1, <1>3, <2>2 DEF Glob2End
    <2>4. QED  BY <1>0, <1>2, <1>3, <2>2, <2>3 DEF Glob2End
  <1>4. CASE Opendir
    <2>1. /\ FirstMeta \in 1 .. Len(pat) /\ SegmentStart \in 1 .. FirstMeta
          /\ SegmentEnd \in 0 .. Len(pat) /\ Len(pat) \in Nat
          /\ \A i \in 1 .. FirstMeta - 1 : ~ismeta(pat[i])
      BY <1>4, SegmentFacts DEF Opendir
    <2> DEFINE front == SubSeq(pat, 1, SegmentStart - 1)
               frame == [path |-> path', pattern |-> SubSeq(pat, SegmentStart, SegmentEnd),
                         rest |-> SubSeq(pat, SegmentEnd + 1, Len(pat)),
                         loc |-> 0, first |-> {}, seen |-> {}]
    <2>2. front \in Seq(Tokens) /\ \A i \in 1 .. Len(front) : ~ismeta(front[i])
      <3>1. SegmentStart - 1 \in Int /\ SegmentStart - 1 <= Len(pat)
        BY <2>1
      <3>2. /\ front \in Seq(Tokens)
            /\ \A i \in 1 .. Len(front) :
                  1 + i - 1 \in 1 .. SegmentStart - 1 /\ front[i] = pat[1 + i - 1]
        BY <3>1, TokensBetween
      <3> HIDE DEF front
      <3>3. \A i \in 1 .. SegmentStart - 1 : ~ismeta(pat[i])
        BY <2>1
      <3>4. QED  BY <3>2, <3>3
    <2>3. path' \in Text
      <3>1. TextOf(front) \in Text
        BY <2>2, LiteralTokens
      <3>2. QED  BY <1>4, <3>1, TextFacts DEF Opendir
    <2>4. FrameTypeOK(frame)
      <3>1. SubSeq(pat, SegmentStart, SegmentEnd) \in Seq(Tokens)
        BY <2>1, TokensBetween
      <3>2. SubSeq(pat, SegmentEnd + 1, Len(pat)) \in Seq(Tokens)
        BY <2>1, TokensBetween
      <3>3. QED  BY <2>3, <3>1, <3>2 DEF FrameTypeOK
    <2>5. \A i \in DOMAIN dirs' : FrameTypeOK(dirs[i])'
      <3>1. CASE dirs' = Append(dirs, frame)
        <4>1. dirs \in Seq(ToSet(dirs) \cup {frame})
          OBVIOUS
        <4> HIDE DEF frame
        <4>2. /\ dirs' \in Seq(ToSet(dirs) \cup {frame}) /\ Len(dirs') = Len(dirs) + 1
              /\ (\A i \in 1 .. Len(dirs) : dirs'[i] = dirs[i]) /\ dirs'[Len(dirs) + 1] = frame
              /\ Len(dirs) \in Nat
          BY <3>1, <4>1, AppendProperties
        <4>3. DOMAIN dirs' = 1 .. Len(dirs) + 1 /\ DOMAIN dirs = 1 .. Len(dirs)
          BY <4>2
        <4>4. \A i \in 1 .. Len(dirs) + 1 : i \in 1 .. Len(dirs) \/ i = Len(dirs) + 1
          BY <4>2
        <4>5. \A i \in DOMAIN dirs' : FrameTypeOK(dirs'[i])
          BY <2>4, <4>2, <4>3, <4>4
        <4>6. QED  BY <4>5 DEF FrameTypeOK
      <3>2. CASE UNCHANGED dirs
        BY <1>2, <3>2
      <3>3. QED  BY <1>4, <3>1, <3>2 DEF Opendir
    <2>6. QED  BY <1>0, <1>4, <2>3, <2>5 DEF Opendir
  <1>5. CASE Readdir
    <2> DEFINE d == Last(dirs)
    <2>1. PICK n \in {<<".">>, <<".", ".">>} \cup Found(d) :
              /\ dirs # <<>> /\ readdir(d, n)
              /\ dirs' = [dirs EXCEPT ![Len(dirs)] = Advance(d, n)]
              /\ \/ gpc' = "glob2" /\ path' = d.path \o n /\ pat' = d.rest
                 \/ UNCHANGED <<gpc, path, pat>>
      BY <1>5 DEF Readdir
    <2>2. Len(dirs) \in 1 .. Len(dirs) /\ DOMAIN dirs = 1 .. Len(dirs)
      BY <2>1, EmptySeq
    <2>3. FrameTypeOK(d)
      BY <2>2 DEF Last
    <2>4. n \in Text
      <3>1. Found(d) \subseteq Text
        BY EntriesAreText DEF Found, FilesTypeOK
      <3>2. QED  BY <3>1, TextFacts
    <2>5. Listed(d) \subseteq Text
      BY <2>3, EntriesAreText DEF Listed, FilesTypeOK, FrameTypeOK
    <2> HIDE DEF d
    <2>6. /\ Advance(d, n).path = d.path /\ Advance(d, n).pattern = d.pattern
          /\ Advance(d, n).rest = d.rest
          /\ Advance(d, n).loc \in 0 .. 2
          /\ Advance(d, n).first \subseteq Text /\ Advance(d, n).seen \subseteq Text
      BY <2>3, <2>4, <2>5 DEF Advance, FrameTypeOK
    <2>7. FrameTypeOK(Advance(d, n))
      BY <2>3, <2>6 DEF FrameTypeOK
    <2>8. \A i \in DOMAIN dirs' : FrameTypeOK(dirs'[i])
      <3>1. DOMAIN dirs' = DOMAIN dirs
        BY <2>1
      <3>2. \A i \in DOMAIN dirs : dirs'[i] = IF i = Len(dirs) THEN Advance(d, n) ELSE dirs[i]
        BY <2>1
      <3>3. QED  BY <2>7, <3>1, <3>2
    <2>9. /\ gpc' \in {"idle", "glob2", "glob3", "unwind", "done"}
          /\ path' \in Text /\ pat' \in Seq(Tokens)
      BY <2>1, <2>3, <2>4, TextFacts DEF FrameTypeOK
    <2>10. QED  BY <1>5, <2>8, <2>9 DEF Readdir, FrameTypeOK
  <1>6. CASE Closedir
    <2>1. dirs # <<>> /\ dirs' = Front(dirs)
      BY <1>6 DEF Closedir
    <2>2. Len(dirs) \in Nat \ {0} /\ DOMAIN dirs = 1 .. Len(dirs)
      BY <2>1, EmptySeq
    <2>3. \A i \in 1 .. Len(dirs) - 1 : dirs[i] \in ToSet(dirs)
      BY <2>2 DEF ToSet
    <2>4. /\ dirs' \in Seq(ToSet(dirs))
          /\ Len(dirs') = IF 1 <= Len(dirs) - 1 THEN (Len(dirs) - 1) - 1 + 1 ELSE 0
          /\ \A i \in 1 .. (Len(dirs) - 1) - 1 + 1 : dirs'[i] = dirs[1 + i - 1]
      BY <2>1, <2>2, <2>3, SubSeqProperties DEF Front
    <2>5. \A i \in DOMAIN dirs' : i \in DOMAIN dirs /\ dirs'[i] = dirs[i]
      <3>1. Len(dirs') = Len(dirs) - 1
        <4>1. CASE Len(dirs) = 1
          <5>1. ~(1 <= Len(dirs) - 1)
            BY <4>1
          <5>2. Len(dirs') = 0
            BY <2>4, <5>1, Zenon
          <5>3. QED  BY <4>1, <5>2
        <4>2. CASE Len(dirs) > 1
          <5>1. 1 <= Len(dirs) - 1 /\ (Len(dirs) - 1) - 1 + 1 = Len(dirs) - 1
            BY <2>2, <4>2
          <5>2. Len(dirs') = (Len(dirs) - 1) - 1 + 1
            BY <2>4, <5>1, Zenon
          <5>3. QED  BY <5>1, <5>2
        <4>3. Len(dirs) = 1 \/ Len(dirs) > 1
          BY <2>2
        <4>4. QED  BY <4>1, <4>2, <4>3, Zenon
      <3>3. DOMAIN dirs' = 1 .. Len(dirs')
        BY <2>4
      <3>2. ASSUME NEW i \in 1 .. Len(dirs) - 1
            PROVE  i \in DOMAIN dirs /\ dirs'[i] = dirs[i]
        <4>1. /\ i \in 1 .. Len(dirs) /\ 1 + i - 1 = i /\ i \in 1 .. (Len(dirs) - 1) - 1 + 1
          BY <2>2
        <4>2. QED  BY <2>2, <2>4, <4>1
      <3>4. QED  BY <3>1, <3>2, <3>3
    <2>6. \A i \in DOMAIN dirs' : FrameTypeOK(dirs'[i])
      BY <2>5
    <2>7. QED  BY <1>6, <2>6 DEF Closedir, FrameTypeOK
  <1>7. CASE GlobReturn
    <2>1. pathv' \in Seq(Text)
      <3>1. CASE pathv' = pathv \/ pathv' = globextend(pattern)
        BY <1>1, <3>1
      <3>2. CASE \E order \in Bijection(DOMAIN pathv, DOMAIN pathv) :
                    pathv' = [i \in DOMAIN pathv |-> pathv[order[i]]]
        <4>1. PICK order \in [DOMAIN pathv -> DOMAIN pathv] :
                    pathv' = [i \in DOMAIN pathv |-> pathv[order[i]]]
          BY <3>2 DEF Bijection, Injection
        <4>2. DOMAIN pathv = 1 .. Len(pathv) /\ Len(pathv) \in Nat
              /\ \A i \in 1 .. Len(pathv) : pathv[i] \in Text
          OBVIOUS
        <4>3. pathv' \in [1 .. Len(pathv) -> Text]
          BY <4>1, <4>2
        <4>4. QED  BY <4>2, <4>3, FunctionsAreSequences
      <3>3. QED  BY <1>7, <3>1, <3>2, Zenon DEF GlobReturn
    <2>2. path' \in Text
      BY <1>7, TextFacts DEF GlobReturn
    <2>3. QED  BY <1>2, <1>7, <2>1, <2>2 DEF GlobReturn
  <1>8. QED  BY <1>3, <1>4, <1>5, <1>6, <1>7 DEF GlobStep

------------------------------------------------------------------------------
(* Words *)

Spaces == {" ", "\t"}
Quotes == {"\"", "'"}

LEMMA SpecialChars ==
    /\ EOS \notin Spaces /\ EOS \notin Quotes /\ EOS \notin Chars /\ Quotes \subseteq Chars
    /\ Spaces \cap Quotes = {}
  BY CharsAssumption, Zenon DEF Spaces, Quotes

\* The lines there are.
LEMMA LinesFacts ==
    /\ \A ws \in Lines : /\ ws \in Seq(ToSet(ws)) /\ Len(ws) \in Nat
                         /\ \A i \in 1 .. Len(ws) : WordOK(ws[i])
    /\ \A blank \in Blanks : blank \in Seq(Spaces \cap Chars) /\ blank # <<>>
    /\ Program \in Text
  <1>1. /\ \A ws \in Lines : ws \in Seq(ToSet(ws)) /\ \A i \in DOMAIN ws : WordOK(ws[i])
        /\ \A blank \in Blanks : blank \in Seq(Spaces \cap Chars) /\ blank # <<>>
        /\ Program \in Text
    BY LinesAssumption, Zenon DEF Spaces
  <1>2. \A ws \in Lines : /\ ws \in Seq(ToSet(ws)) /\ Len(ws) \in Nat
                          /\ \A i \in 1 .. Len(ws) : WordOK(ws[i])
    BY <1>1
  <1>3. QED  BY <1>1, <1>2

LEMMA OneBlank == <<" ">> \in Seq(Spaces \cap Chars)
  <1>1. " " \in Spaces \cap Chars
    BY CharsAssumption, Zenon DEF Spaces
  <1>2. \A c, S : c \in S => <<c>> \in Seq(S)
    OBVIOUS
  <1>3. QED  BY <1>1, <1>2, Zenon

\* What stands in the line for a word.
LEMMA WrittenFacts ==
    ASSUME NEW word, WordOK(word)
    PROVE  LET t == WordText(word)
               w == Written(word)
           IN  /\ t \in Text /\ w \in Text /\ Len(t) \in Nat /\ Len(w) \in Nat \ {0}
               /\ Bare(word) => /\ w = t
                                /\ \A j \in 1 .. Len(t) : t[j] \notin Spaces \cup Quotes \cup {EOS}
               /\ ~Bare(word) => /\ word.quote \in Quotes /\ Len(w) = Len(t) + 2
                                 /\ w[1] = word.quote /\ w[Len(t) + 2] = word.quote
                                 /\ \A j \in 1 .. Len(t) : w[j + 1] = t[j]
                                                           /\ t[j] \notin {word.quote, EOS}
  <1> DEFINE t == WordText(word)
             w == Written(word)
  <1>0. t \in Text
    BY Zenon DEF WordOK
  <1>1. t \in Text /\ Len(t) \in Nat /\ \A j \in 1 .. Len(t) : t[j] \in Chars /\ t[j] \in ToSet(t)
    BY <1>0 DEF Text, ToSet
  <1>2. \A j \in 1 .. Len(t) : t[j] # EOS
    BY <1>1, SpecialChars
  <1> HIDE DEF t
  <1>3. CASE Bare(word)
    <2>1. w = t
      BY <1>3 DEF Written, t
    <2>2. t # <<>> /\ \A j \in 1 .. Len(t) : t[j] \notin Spaces \cup Quotes
      <3>1. t # <<>> /\ {" ", "\t", "\"", "'"} \cap ToSet(t) = {}
        BY <1>3, Zenon DEF WordOK, Bare, t
      <3>2. \A c \in ToSet(t) : c \notin Spaces \cup Quotes
        BY <3>1, Zenon DEF Spaces, Quotes
      <3>3. QED  BY <1>1, <3>1, <3>2, Zenon
    <2>3. Len(t) # 0
      BY <1>1, <2>2, EmptySeq DEF Text
    <2>4. QED  BY <1>1, <1>2, <1>3, <2>1, <2>2, <2>3 DEF t
  <1>4. CASE ~Bare(word)
    <2> DEFINE c == word.quote
    <2>1. c \in Quotes /\ c \notin ToSet(t)
      BY <1>4, Zenon DEF WordOK, Quotes, t
    <2>2. w = <<c>> \o t \o <<c>>
      BY <1>4 DEF Written, t
    <2> HIDE DEF w, c
    <2>3. <<c>> \in Seq(Chars) /\ Len(<<c>>) = 1 /\ <<c>>[1] = c
      BY <2>1, SpecialChars
    <2> DEFINE h == <<c>> \o t
    <2>4. /\ h \in Seq(Chars) /\ Len(h) = 1 + Len(t)
          /\ \A j \in 1 .. 1 + Len(t) : h[j] = IF j <= 1 THEN <<c>>[j] ELSE t[j - 1]
      <3>1. /\ h \in Seq(Chars) /\ Len(h) = Len(<<c>>) + Len(t)
            /\ \A j \in 1 .. Len(<<c>>) + Len(t) : h[j] = IF j <= Len(<<c>>) THEN <<c>>[j] ELSE t[j - Len(<<c>>)]
        BY <1>1, <2>3, ConcatProperties DEF Text
      <3>2. QED  BY <2>3, <3>1
    <2> DEFINE q == <<c>>
    <2>5. q \in Seq(Chars) /\ Len(q) = 1 /\ q[1] = c
      BY <2>3
    <2> HIDE DEF h, q
    <2>6. /\ h \o q \in Seq(Chars) /\ Len(h \o q) = Len(h) + Len(q)
          /\ \A j \in 1 .. Len(h) + Len(q) : (h \o q)[j] = IF j <= Len(h) THEN h[j] ELSE q[j - Len(h)]
      BY <2>4, <2>5, ConcatProperties
    <2>7. w = h \o q
      BY <2>2 DEF h, q
    <2>8. /\ w \in Text /\ Len(w) = Len(t) + 2
          /\ \A j \in 1 .. Len(t) + 2 : w[j] = IF j <= 1 + Len(t) THEN h[j] ELSE c
      <3>1. Len(h) + Len(q) = Len(t) + 2
        BY <1>1, <2>4, <2>5
      <3>2. ASSUME NEW j \in 1 .. Len(t) + 2
            PROVE  w[j] = IF j <= 1 + Len(t) THEN h[j] ELSE c
        <4>1. w[j] = IF j <= Len(h) THEN h[j] ELSE q[j - Len(h)]
          BY <2>6, <2>7, <3>1
        <4>2. ~(j <= 1 + Len(t)) => j - Len(h) = 1
          BY <1>1, <2>4
        <4>3. QED  BY <2>4, <2>5, <4>1, <4>2
      <3>3. QED  BY <2>6, <2>7, <3>1, <3>2 DEF Text
    <2>9. w[1] = c /\ w[Len(t) + 2] = c
      BY <1>1, <2>3, <2>4, <2>8
    <2>10. \A j \in 1 .. Len(t) : w[j + 1] = t[j]
      <3> SUFFICES ASSUME NEW j \in 1 .. Len(t) PROVE w[j + 1] = t[j]
        OBVIOUS
      <3>1. /\ j + 1 \in 1 .. 1 + Len(t) /\ j + 1 \in 1 .. Len(t) + 2 /\ j + 1 <= 1 + Len(t)
            /\ ~(j + 1 <= 1) /\ (j + 1) - 1 = j
        BY <1>1
      <3>2. QED  BY <2>4, <2>8, <3>1
    <2>11. QED  BY <1>1, <1>2, <1>4, <2>1, <2>8, <2>9, <2>10 DEF t, w, c
  <1>5. QED  BY <1>3, <1>4

------------------------------------------------------------------------------
(* The line *)

\* Word i + 1 is at from[i], the end of the line at the last of them.
Laid(from) ==
    /\ from \in [0 .. Len(words) -> 1 .. Len(line)]
    /\ from[0] = 1 /\ from[Len(words)] = Len(line)
    /\ \A i, j \in 0 .. Len(words) : i <= j => from[i] <= from[j]
    /\ \A i \in 1 .. Len(words) : from[i - 1] + Len(Written(words[i])) <= from[i]
    /\ \A i \in 1 .. Len(words) - 1 : from[i - 1] + Len(Written(words[i])) < from[i]

\* Word i is there as it was written, with blanks behind.
AsWritten(from, i) ==
    /\ \A j \in 1 .. Len(Written(words[i])) : line[from[i - 1] + j - 1] = Written(words[i])[j]
    /\ \A q \in from[i - 1] + Len(Written(words[i])) .. from[i] - 1 : line[q] \in Spaces

\* All words behind the first k are.
Untouched(from, k) == \A i \in k + 1 .. Len(words) : AsWritten(from, i)

LineTypeOK ==
    /\ words \in Lines
    /\ line \in Seq(Chars \cup {EOS}) /\ line[Len(line)] = EOS

\* What has been written behind each of the words.
Gap(ws, blank, last, i) == IF i < Len(ws) THEN blank ELSE last
IsUpto(g, ws, blank, last) ==
    /\ g \in [0 .. Len(ws) -> Text] /\ g[0] = <<>>
    /\ \A i \in 1 .. Len(ws) : g[i] = g[i - 1] \o Written(ws[i]) \o Gap(ws, blank, last, i)

LEMMA LineIs ==
    ASSUME NEW ws \in Lines, NEW blank \in Text, NEW last \in Text
    PROVE  \E g : IsUpto(g, ws, blank, last) /\ Line(ws, blank, last) = Append(g[Len(ws)], EOS)
  <1> DEFINE n == Len(ws)
             More(w, i) == w \o Written(ws[i]) \o (IF i < Len(ws) THEN blank ELSE last)
             step == [v \in Text \X (1 .. n) |-> More(v[1], v[2])]
             Is(f) == f = [i \in 0 .. n |-> IF i = 0 THEN <<>> ELSE More(f[i - 1], i)]
             upto == CHOOSE f : Is(f)
  <1>1. Line(ws, blank, last) = Append(upto[Len(ws)], EOS)
    BY Zenon DEF Line
  <1>2. n \in Nat /\ \A i \in 1 .. n : WordOK(ws[i])
    BY LinesFacts
  <1>4. \A w \in Text, i \in 1 .. n : More(w, i) \in Text
    <2> SUFFICES ASSUME NEW w \in Text, NEW i \in 1 .. n PROVE More(w, i) \in Text
      OBVIOUS
    <2>1. Written(ws[i]) \in Text
      BY <1>2, WrittenFacts
    <2>2. w \o Written(ws[i]) \in Text
      BY <2>1, TextFacts
    <2>3. QED  BY <2>2, TextFacts
  <1> HIDE DEF More, n
  <1>5. step \in [Text \X (1 .. n) -> Text]
    BY <1>4
  <1>6. PICK g \in [0 .. n -> Text] : Iterates(g, <<>>, step, n)
    <2> HIDE DEF step
    <2>1. QED  BY <1>2, <1>5, TextFacts, Iteration
  <1>7. \A w \in Text, i \in 1 .. n : step[<<w, i>>] = More(w, i)
    OBVIOUS
  <1> HIDE DEF step
  <1>8. g[0] = <<>> /\ \A i \in 1 .. n : g[i] = More(g[i - 1], i)
    <2>1. ASSUME NEW i \in 1 .. n
          PROVE  g[i] = More(g[i - 1], i)
      <3>1. i - 1 \in 0 .. n
        BY <1>2
      <3>2. g[i - 1] \in Text
        BY <1>6, <3>1
      <3>3. QED  BY <1>6, <1>7, <3>2 DEF Iterates
    <2>2. QED  BY <1>6, <2>1 DEF Iterates
  <1>9. Is(g)
    <2>1. g = [i \in 0 .. n |-> g[i]]
      OBVIOUS
    <2>2. \A i \in 0 .. n : i # 0 => i \in 1 .. n
      OBVIOUS
    <2>3. QED  BY <1>8, <2>1, <2>2
  <1>10. Is(upto)
    BY <1>9
  <1> HIDE DEF upto
  <1>11. upto[0] = <<>> /\ \A i \in 1 .. n : upto[i] = More(upto[i - 1], i)
    <2>1. 0 \in 0 .. n /\ \A i \in 1 .. n : i \in 0 .. n /\ i # 0
      BY <1>2
    <2>2. QED  BY <1>10, <2>1
  <1>12. \A i \in 0 .. n : upto[i] \in Text
    <2> DEFINE T == {i \in 0 .. n : upto[i] \in Text}
    <2>1. 0 \in T
      BY <1>2, <1>11, TextFacts
    <2>2. ASSUME NEW i \in 0 .. n - 1, i \in T
          PROVE  i + 1 \in T
      <3>1. i + 1 \in 1 .. n /\ (i + 1) - 1 = i /\ upto[i] \in Text
        BY <1>2, <2>2
      <3>2. upto[i + 1] = More(upto[i], i + 1)
        BY <1>11, <3>1
      <3>3. QED  BY <1>4, <3>1, <3>2
    <2> HIDE DEF T
    <2>3. 0 .. n \subseteq T
      BY <1>2, <2>1, <2>2, IntervalInduction
    <2>4. QED  BY <2>3 DEF T
  <1>13. upto \in [0 .. n -> Text]
    <2>1. upto = [i \in 0 .. n |-> IF i = 0 THEN <<>> ELSE More(upto[i - 1], i)]
      BY <1>10
    <2>2. upto = [i \in 0 .. n |-> upto[i]]
      BY <2>1, <1>10
    <2>3. QED  BY <1>12, <2>2
  <1>14. IsUpto(upto, ws, blank, last)
    BY <1>11, <1>13 DEF IsUpto, Gap, More, n
  <1>15. QED  BY <1>1, <1>14

\* Two texts one behind the other.
LEMMA JoinedText ==
    ASSUME NEW v \in Text, NEW w \in Text
    PROVE  /\ v \o w \in Text /\ Len(v \o w) = Len(v) + Len(w)
           /\ Len(v) \in Nat /\ Len(w) \in Nat
           /\ \A j \in 1 .. Len(v) : (v \o w)[j] = v[j]
           /\ \A j \in 1 .. Len(w) : (v \o w)[Len(v) + j] = w[j]
  <1>1. /\ v \o w \in Text /\ Len(v \o w) = Len(v) + Len(w)
        /\ \A j \in 1 .. Len(v) + Len(w) : (v \o w)[j] = IF j <= Len(v) THEN v[j] ELSE w[j - Len(v)]
    BY ConcatProperties DEF Text
  <1>2. Len(v) \in Nat /\ Len(w) \in Nat
    BY DEF Text
  <1>3. \A j \in 1 .. Len(v) : (v \o w)[j] = v[j]
    <2> SUFFICES ASSUME NEW j \in 1 .. Len(v) PROVE (v \o w)[j] = v[j]
      OBVIOUS
    <2>1. j \in 1 .. Len(v) + Len(w) /\ j <= Len(v)
      BY <1>2
    <2>2. QED  BY <1>1, <2>1
  <1>4. \A j \in 1 .. Len(w) : (v \o w)[Len(v) + j] = w[j]
    <2> SUFFICES ASSUME NEW j \in 1 .. Len(w) PROVE (v \o w)[Len(v) + j] = w[j]
      OBVIOUS
    <2>1. Len(v) + j \in 1 .. Len(v) + Len(w) /\ ~(Len(v) + j <= Len(v)) /\ (Len(v) + j) - Len(v) = j
      BY <1>2
    <2>2. QED  BY <1>1, <2>1
  <1>5. QED  BY <1>1, <1>2, <1>3, <1>4

LEMMA StartLaid ==
    ASSUME words \in Lines, NEW blank \in Seq(Spaces \cap Chars), blank # <<>>,
           NEW last \in Seq(Spaces \cap Chars), line = Line(words, blank, last)
    PROVE  LineTypeOK /\ \E from : Laid(from) /\ Untouched(from, 0)
  <1> DEFINE n == Len(words)
             gap(i) == Gap(words, blank, last, i)
             W(i) == Written(words[i])
  <1>1. n \in Nat /\ \A i \in 1 .. n : W(i) \in Text /\ Len(W(i)) \in Nat \ {0}
    BY LinesFacts, WrittenFacts
  <1>2. /\ blank \in Text /\ last \in Text
        /\ \A q \in {blank, last} : Len(q) \in Nat /\ \A j \in 1 .. Len(q) : q[j] \in Spaces
        /\ Len(blank) # 0
    <2>1. blank \in Seq(Chars) /\ last \in Seq(Chars)
      OBVIOUS
    <2>2. QED  BY <2>1, EmptySeq DEF Text
  <1>3. \A i \in 1 .. n : /\ gap(i) \in Text /\ Len(gap(i)) \in Nat
                          /\ \A j \in 1 .. Len(gap(i)) : gap(i)[j] \in Spaces
                          /\ i < n => Len(gap(i)) # 0
    BY <1>2 DEF Gap
  <1>4. PICK g : IsUpto(g, words, blank, last) /\ line = Append(g[n], EOS)
    BY <1>2, LineIs
  <1>5. /\ g \in [0 .. n -> Text] /\ g[0] = <<>>
        /\ \A i \in 1 .. n : g[i] = g[i - 1] \o W(i) \o gap(i)
    BY <1>4 DEF IsUpto
  <1> HIDE DEF n, gap, W
  <1> DEFINE L(i) == Len(g[i])
             from == [i \in 0 .. n |-> L(i) + 1]
  <1>6. \A i \in 0 .. n : g[i] \in Text /\ L(i) \in Nat
    BY <1>5 DEF Text
  <1>7. ASSUME NEW i \in 1 .. n
        PROVE  /\ i - 1 \in 0 .. n /\ i \in 0 .. n
               /\ L(i) = L(i - 1) + Len(W(i)) + Len(gap(i))
               /\ \A j \in 1 .. L(i - 1) : g[i][j] = g[i - 1][j]
               /\ \A j \in 1 .. Len(W(i)) : g[i][L(i - 1) + j] = W(i)[j]
               /\ \A j \in 1 .. Len(gap(i)) : g[i][L(i - 1) + Len(W(i)) + j] = gap(i)[j]
    <2> DEFINE a == g[i - 1]
               b == a \o W(i)
               d == gap(i)
    <2>1. i - 1 \in 0 .. n /\ i \in 0 .. n
      BY <1>1
    <2>2. a \in Text /\ W(i) \in Text /\ d \in Text
      BY <1>1, <1>3, <1>6, <2>1
    <2> HIDE DEF a, d
    <2>3. /\ b \in Text /\ Len(b) = Len(a) + Len(W(i)) /\ Len(a) \in Nat /\ Len(W(i)) \in Nat
          /\ \A j \in 1 .. Len(a) : b[j] = a[j]
          /\ \A j \in 1 .. Len(W(i)) : b[Len(a) + j] = W(i)[j]
      BY <2>2, JoinedText
    <2>4. g[i] = b \o d
      BY <1>5 DEF a, d
    <2> HIDE DEF b
    <2>5. /\ Len(b \o d) = Len(b) + Len(d) /\ Len(d) \in Nat
          /\ \A j \in 1 .. Len(b) : (b \o d)[j] = b[j]
          /\ \A j \in 1 .. Len(d) : (b \o d)[Len(b) + j] = d[j]
      BY <2>2, <2>3, JoinedText
    <2>6. L(i) = Len(a) + Len(W(i)) + Len(d)
      BY <2>3, <2>4, <2>5
    <2>7. \A j \in 1 .. Len(a) : g[i][j] = a[j]
      BY <2>3, <2>4, <2>5
    <2>8. ASSUME NEW j \in 1 .. Len(W(i))
          PROVE  g[i][Len(a) + j] = W(i)[j]
      <3>1. Len(a) + j \in 1 .. Len(b)
        BY <2>3
      <3>2. QED  BY <2>3, <2>4, <2>5, <3>1
    <2>9. \A j \in 1 .. Len(d) : g[i][Len(a) + Len(W(i)) + j] = d[j]
      BY <2>3, <2>4, <2>5
    <2>10. QED  BY <2>1, <2>6, <2>7, <2>8, <2>9 DEF a, d
  <1>8. \A i \in 1 .. n : Len(W(i)) \in Nat /\ Len(gap(i)) \in Nat
    BY <1>1, <1>3
  <1>9. \A k \in 0 .. n : \A i \in 0 .. k : L(i) <= L(k) /\ \A j \in 1 .. L(i) : g[k][j] = g[i][j]
    <2> DEFINE Holds0(k) == \A i \in 0 .. k : L(i) <= L(k) /\ \A j \in 1 .. L(i) : g[k][j] = g[i][j]
               T == {k \in 0 .. n : Holds0(k)}
    <2>1. 0 \in T
      BY <1>1, <1>6
    <2>2. ASSUME NEW k \in 0 .. n - 1, k \in T
          PROVE  k + 1 \in T
      <3>1. k + 1 \in 1 .. n /\ (k + 1) - 1 = k /\ k \in 0 .. n /\ k + 1 \in 0 .. n
        BY <1>1
      <3>2. /\ L(k + 1) = L(k) + Len(W(k + 1)) + Len(gap(k + 1))
            /\ \A j \in 1 .. L(k) : g[k + 1][j] = g[k][j]
        <4>1. /\ L(k + 1) = L((k + 1) - 1) + Len(W(k + 1)) + Len(gap(k + 1))
              /\ \A j \in 1 .. L((k + 1) - 1) : g[k + 1][j] = g[(k + 1) - 1][j]
          <5> HIDE DEF L
          <5>1. QED  BY <1>7, <3>1
        <4>2. QED  BY <3>1, <4>1
      <3>3. ASSUME NEW i \in 0 .. k + 1
            PROVE  L(i) <= L(k + 1) /\ \A j \in 1 .. L(i) : g[k + 1][j] = g[i][j]
        <4>1. CASE i = k + 1
          BY <1>6, <3>1, <4>1
        <4>2. CASE i # k + 1
          <5>1. i \in 0 .. k /\ i \in 0 .. n
            BY <1>1, <4>2
          <5>2. L(i) <= L(k) /\ \A j \in 1 .. L(i) : g[k][j] = g[i][j]
            BY <2>2, <5>1
          <5>3. L(i) \in Nat /\ L(k) \in Nat /\ Len(W(k + 1)) \in Nat /\ Len(gap(k + 1)) \in Nat
            BY <1>6, <1>8, <3>1, <5>1
          <5> HIDE DEF L
          <5>4. QED  BY <3>2, <5>2, <5>3
        <4>3. QED  BY <4>1, <4>2
      <3>4. QED  BY <3>1, <3>3
    <2> HIDE DEF T
    <2>3. 0 .. n \subseteq T
      BY <1>1, <2>1, <2>2, IntervalInduction
    <2>4. QED  BY <2>3 DEF T
  <1>10. /\ line \in Seq(Chars \cup {EOS}) /\ Len(line) = L(n) + 1 /\ line[Len(line)] = EOS
         /\ \A j \in 1 .. L(n) : line[j] = g[n][j]
    <2> DEFINE h == g[n]
    <2>1. h \in Seq(Chars \cup {EOS})
      <3>1. h \in Seq(Chars)
        BY <1>1, <1>6 DEF Text
      <3>2. QED  BY <3>1
    <2>2. line = Append(h, EOS)
      BY <1>4 DEF n
    <2> HIDE DEF h
    <2>3. /\ line \in Seq(Chars \cup {EOS}) /\ Len(line) = Len(h) + 1 /\ line[Len(h) + 1] = EOS
          /\ \A j \in 1 .. Len(h) : line[j] = h[j]
      BY <2>1, <2>2, AppendProperties
    <2>4. QED  BY <2>3 DEF h
  <1>11. ASSUME NEW i \in 0 .. n
         PROVE  /\ L(i) <= L(n) /\ L(i) \in Nat /\ L(n) \in Nat
                /\ \A j \in 1 .. L(i) : line[j] = g[i][j]
    <2>1. n \in 0 .. n /\ i \in 0 .. n
      BY <1>1
    <2>2. L(i) <= L(n) /\ (\A j \in 1 .. L(i) : g[n][j] = g[i][j]) /\ L(i) \in Nat /\ L(n) \in Nat
      BY <1>6, <1>9, <2>1
    <2> HIDE DEF L
    <2>3. QED  BY <1>10, <2>2
  <1>12. Laid(from)
    <2>1. from \in [0 .. n -> 1 .. Len(line)]
      <3>1. \A i \in 0 .. n : L(i) + 1 \in 1 .. L(n) + 1
        <4> HIDE DEF L
        <4>1. QED  BY <1>11
      <3>2. QED  BY <1>10, <3>1
    <2>2. from[0] = 1 /\ from[n] = Len(line)
      <3>1. 0 \in 0 .. n /\ n \in 0 .. n /\ L(0) = 0
        BY <1>1, <1>5, EmptySeq
      <3>2. QED  BY <1>10, <3>1
    <2>3. \A i \in 0 .. n : from[i] = L(i) + 1 /\ L(i) \in Nat
      BY <1>6
    <2>4. ASSUME NEW i \in 0 .. n, NEW j \in 0 .. n, i <= j
          PROVE  from[i] <= from[j]
      <3>1. i \in 0 .. j
        BY <2>4
      <3>2. L(i) <= L(j)
        BY <1>9, <3>1
      <3> HIDE DEF L, from
      <3>3. QED  BY <2>3, <3>2
    <2>5. ASSUME NEW i \in 1 .. n
          PROVE  /\ from[i - 1] + Len(W(i)) <= from[i]
                 /\ i < n => from[i - 1] + Len(W(i)) < from[i]
      <3>1. /\ i - 1 \in 0 .. n /\ i \in 0 .. n /\ L(i) = L(i - 1) + Len(W(i)) + Len(gap(i))
        BY <1>7
      <3>2. Len(W(i)) \in Nat /\ Len(gap(i)) \in Nat /\ (i < n => Len(gap(i)) # 0)
        BY <1>3, <1>8
      <3>3. from[i - 1] = L(i - 1) + 1 /\ from[i] = L(i) + 1 /\ L(i) \in Nat /\ L(i - 1) \in Nat
        BY <2>3, <3>1
      <3> HIDE DEF L, from
      <3>4. QED  BY <3>1, <3>2, <3>3
    <2>6. \A i \in 1 .. n - 1 : i \in 1 .. n /\ i < n
      BY <1>1
    <2> HIDE DEF from
    <2>7. QED  BY <2>1, <2>2, <2>4, <2>5, <2>6 DEF Laid, n, W
  <1>13. ASSUME NEW i \in 1 .. n
         PROVE  AsWritten(from, i)
    <2>1. /\ i - 1 \in 0 .. n /\ i \in 0 .. n
          /\ L(i) = L(i - 1) + Len(W(i)) + Len(gap(i))
          /\ \A j \in 1 .. Len(W(i)) : g[i][L(i - 1) + j] = W(i)[j]
          /\ \A j \in 1 .. Len(gap(i)) : g[i][L(i - 1) + Len(W(i)) + j] = gap(i)[j]
      BY <1>7
    <2>2. /\ L(i) \in Nat /\ L(i - 1) \in Nat /\ Len(W(i)) \in Nat /\ Len(gap(i)) \in Nat
          /\ \A j \in 1 .. L(i) : line[j] = g[i][j]
      BY <1>6, <1>8, <1>11, <2>1
    <2>3. from[i - 1] = L(i - 1) + 1 /\ from[i] = L(i) + 1
      BY <2>1
    <2> HIDE DEF L, from
    <2>4. ASSUME NEW j \in 1 .. Len(W(i))
          PROVE  line[from[i - 1] + j - 1] = W(i)[j]
      <3>1. from[i - 1] + j - 1 = L(i - 1) + j /\ L(i - 1) + j \in 1 .. L(i)
        BY <2>1, <2>2, <2>3
      <3>2. QED  BY <2>1, <2>2, <3>1
    <2>5. ASSUME NEW q \in from[i - 1] + Len(W(i)) .. from[i] - 1
          PROVE  line[q] \in Spaces
      <3> DEFINE j == q - L(i - 1) - Len(W(i))
      <3>1. j \in 1 .. Len(gap(i)) /\ q = L(i - 1) + Len(W(i)) + j /\ q \in 1 .. L(i)
        <4> DEFINE a == L(i - 1)
                   b == L(i)
                   c == Len(W(i))
                   d == Len(gap(i))
        <4>1. a \in Nat /\ b \in Nat /\ c \in Nat /\ d \in Nat /\ b = a + c + d
          BY <2>1, <2>2
        <4>2. q \in (a + 1) + c .. (b + 1) - 1
          BY <2>3
        <4> HIDE DEF a, b, c, d
        <4>3. /\ q - a - c \in 1 .. d /\ q = a + c + (q - a - c) /\ q \in 1 .. b
          BY <4>1, <4>2
        <4>4. QED  BY <4>3 DEF a, b, c, d
      <3>2. line[q] = gap(i)[j]
        BY <2>1, <2>2, <3>1
      <3>3. QED  BY <1>3, <3>1, <3>2
    <2>6. QED  BY <2>4, <2>5 DEF AsWritten, W
  <1>14. Untouched(from, 0)
    BY <1>13 DEF Untouched, n
  <1>15. LineTypeOK
    BY <1>10 DEF LineTypeOK
  <1> HIDE DEF from
  <1>16. QED  BY <1>12, <1>14, <1>15

------------------------------------------------------------------------------
(* A pattern without wildcards *)

\* glob finds the pattern itself, and looks into no directory.
LiteralGlob ==
    gpc # "idle" /\ IsPlain(pattern) =>
        /\ dirs = <<>> /\ gpc \in {"glob2", "glob3", "done"}
        /\ gpc = "glob2" => path = <<>> /\ pat = Literals(pattern) /\ pathv = <<>>
        /\ gpc = "glob3" => pathv = <<>> \/ pathv = <<pattern>>
        /\ gpc = "done" => pathv = <<pattern>>

LEMMA CallLiteral ==
    ASSUME DirsOfFrames, NEW w \in Text, GlobCall(w)
    PROVE  LiteralGlob'
  <1>1. dirs = <<>>
    BY DEF DirsOfFrames, GlobCall
  <1>2. IsPlain(w) => Compile(w) = Literals(w)
    BY CompileIs
  <1>3. QED  BY <1>1, <1>2, Zenon DEF LiteralGlob, GlobCall

LEMMA GlobStepLiteral ==
    ASSUME MatchTypeOK, LiteralGlob, GlobStep
    PROVE  LiteralGlob'
  <1>0. pattern' = pattern /\ gpc # "idle"
    BY DEF GlobStep, Glob2End, Opendir, Readdir, Closedir, GlobReturn
  <1>1. CASE ~IsPlain(pattern)
    BY <1>0, <1>1, Zenon DEF LiteralGlob
  <1>2. CASE IsPlain(pattern)
    <2>0. /\ dirs = <<>> /\ gpc \in {"glob2", "glob3", "done"}
          /\ gpc = "glob2" => path = <<>> /\ pat = Literals(pattern) /\ pathv = <<>>
          /\ gpc = "glob3" => pathv = <<>> \/ pathv = <<pattern>>
      BY <1>0, <1>2, Zenon DEF LiteralGlob
    <2>1. pattern \in Text
      BY DEF MatchTypeOK
    <2>2. ASSUME gpc = "glob2"
          PROVE  FirstMeta = 0 /\ path \o TextOf(pat) = pattern
      <3>1. pat = Literals(pattern) /\ path = <<>> /\ pat \in Seq(Tokens)
        BY <2>0, <2>2 DEF MatchTypeOK
      <3>2. TextOf(pat) = pattern /\ \A i \in DOMAIN pattern : ~ismeta(pat[i])
        BY <2>1, <3>1, TextOfItsLiterals
      <3>3. DOMAIN pat = DOMAIN pattern
        BY <3>1 DEF Literals
      <3>4. FirstMeta = 0
        BY <3>1, <3>2, <3>3, SegmentFacts
      <3>5. <<>> \o pattern = pattern
        BY <2>1 DEF Text
      <3>6. QED  BY <3>1, <3>2, <3>4, <3>5
    <2>3. CASE Glob2End
      <3>1. path' = pattern /\ gpc = "glob2" /\ gpc' = "glob3" /\ dirs' = dirs
        BY <2>2, <2>3 DEF Glob2End
      <3>2. pathv' = <<>> \/ pathv' = Append(<<>>, pattern)
        BY <2>0, <2>3, <3>1 DEF Glob2End, globextend
      <3>3. Append(<<>>, pattern) = <<pattern>>
        OBVIOUS
      <3>4. QED  BY <1>0, <2>0, <3>1, <3>2, <3>3, Zenon DEF LiteralGlob
    <2>4. CASE Opendir
      BY <2>2, <2>4 DEF Opendir
    <2>5. CASE Readdir \/ Closedir
      BY <2>0, <2>5 DEF Readdir, Closedir
    <2>6. CASE GlobReturn
      <3>1. gpc = "glob3" /\ gpc' = "done" /\ dirs' = dirs
        BY <2>0, <2>6 DEF GlobReturn
      <3>2. CASE pathv = <<>>
        <4>1. pathv' = Append(<<>>, pattern)
          BY <2>6, <3>1, <3>2 DEF GlobReturn, globextend
        <4>2. pathv' = <<pattern>>
          BY <4>1
        <4>3. QED  BY <1>0, <2>0, <3>1, <4>2, Zenon DEF LiteralGlob
      <3>3. CASE pathv = <<pattern>>
        <4>1. DOMAIN pathv = {1} /\ pathv[1] = pattern /\ pathv # <<>>
          BY <3>3
        <4>2. PICK order \in Bijection(DOMAIN pathv, DOMAIN pathv) :
                    pathv' = [i \in DOMAIN pathv |-> pathv[order[i]]]
          BY <2>6, <3>1, <4>1 DEF GlobReturn
        <4>3. order[1] = 1
          BY <4>1, <4>2 DEF Bijection, Injection
        <4>4. pathv' = [i \in {1} |-> pattern]
          BY <4>1, <4>2, <4>3
        <4>5. [i \in {1} |-> pattern] = <<pattern>>
          OBVIOUS
        <4>6. QED  BY <1>0, <2>0, <3>1, <4>4, <4>5, Zenon DEF LiteralGlob
      <3>4. QED  BY <2>0, <3>1, <3>2, <3>3
    <2>7. QED  BY <2>3, <2>4, <2>5, <2>6 DEF GlobStep
  <1>3. QED  BY <1>1, <1>2

------------------------------------------------------------------------------
(* Where _setargv is *)

BlanksTo(from, k) ==
    /\ p \in Nat \ {0} /\ p <= from[k]
    /\ \A q \in p .. from[k] - 1 : line[q] \in Spaces

InWord(from, k) ==
    /\ k < Len(words) /\ Bare(words[k + 1])
    /\ s = from[k] /\ p \in s + 1 .. s + Len(Written(words[k + 1]))

Called(k) == k > 0 /\ Bare(words[k]) /\ pattern = WordText(words[k])

\* The first k words are read.
PlaceOK(from, k) ==
    /\ k \in 0 .. Len(words) /\ p \in 1 .. Len(line) /\ s \in 1 .. p
    /\ pc \in {"scan", "glob", "last_glob", "main", "parsed"}
    /\ pc = "scan" => (s = p /\ BlanksTo(from, k)) \/ InWord(from, k)
    /\ pc = "glob" => Called(k) /\ BlanksTo(from, k)
    /\ pc = "last_glob" => Called(k) /\ k = Len(words)
    /\ pc \in {"main", "parsed"} => k = Len(words)

\* What stands in the line from word k + 1 on.
LEMMA WordAt ==
    ASSUME LineTypeOK, NEW from, Laid(from), NEW k \in 0 .. Len(words) - 1, Untouched(from, k)
    PROVE  LET w == Written(words[k + 1])
           IN  /\ WordOK(words[k + 1]) /\ Len(w) \in Nat \ {0}
               /\ from[k] \in 1 .. Len(line) /\ from[k + 1] \in 1 .. Len(line) /\ Len(line) \in Nat
               /\ from[k] + Len(w) <= from[k + 1]
               /\ k + 1 < Len(words) => from[k] + Len(w) < from[k + 1]
               /\ k + 1 = Len(words) => from[k + 1] = Len(line)
               /\ \A j \in 1 .. Len(w) : line[from[k] + j - 1] = w[j]
               /\ \A q \in from[k] + Len(w) .. from[k + 1] - 1 : line[q] \in Spaces
  <1> DEFINE m == k + 1
             w == Written(words[m])
  <1>1. Len(words) \in Nat /\ \A i \in 1 .. Len(words) : WordOK(words[i])
    BY LinesFacts DEF LineTypeOK
  <1>2. /\ m \in 1 .. Len(words) /\ m - 1 = k /\ k \in 0 .. Len(words) /\ m \in 0 .. Len(words)
        /\ (m < Len(words) => m \in 1 .. Len(words) - 1) /\ m \in k + 1 .. Len(words)
    BY <1>1
  <1>3. WordOK(words[m]) /\ Len(w) \in Nat \ {0}
    BY <1>1, <1>2, WrittenFacts
  <1>4. from[k] \in 1 .. Len(line) /\ from[m] \in 1 .. Len(line) /\ Len(line) \in Nat
    <2>1. from \in [0 .. Len(words) -> 1 .. Len(line)]
      BY DEF Laid
    <2>2. Len(line) \in Nat
      BY DEF LineTypeOK
    <2>3. QED  BY <1>2, <2>1, <2>2
  <1> HIDE DEF m
  <1>5. /\ from[m - 1] + Len(w) <= from[m]
        /\ m < Len(words) => from[m - 1] + Len(w) < from[m]
        /\ m = Len(words) => from[m] = Len(line)
    BY <1>2 DEF Laid
  <1>6. AsWritten(from, m)
    BY <1>2 DEF Untouched
  <1>7. /\ \A j \in 1 .. Len(w) : line[from[m - 1] + j - 1] = w[j]
        /\ \A q \in from[m - 1] + Len(w) .. from[m] - 1 : line[q] \in Spaces
    BY <1>6 DEF AsWritten
  <1>8. /\ from[k] + Len(w) <= from[m]
        /\ m < Len(words) => from[k] + Len(w) < from[m]
        /\ m = Len(words) => from[m] = Len(line)
        /\ \A j \in 1 .. Len(w) : line[from[k] + j - 1] = w[j]
        /\ \A q \in from[k] + Len(w) .. from[m] - 1 : line[q] \in Spaces
    BY <1>2, <1>5, <1>7
  <1>9. QED  BY <1>3, <1>4, <1>8 DEF m

\* The first character of a word, and what is behind the last word.
LEMMA FirstChar ==
    ASSUME LineTypeOK, NEW from, Laid(from), NEW k \in 0 .. Len(words), Untouched(from, k)
    PROVE  /\ from[k] \in 1 .. Len(line) /\ Len(line) \in Nat /\ line[from[k]] \notin Spaces
           /\ line[from[k]] = EOS <=> k = Len(words)
           /\ line[from[k]] \in Quotes <=> k < Len(words) /\ ~Bare(words[k + 1])
           /\ k < Len(words) /\ ~Bare(words[k + 1]) => line[from[k]] = words[k + 1].quote
  <1>0. Len(words) \in Nat /\ Len(line) \in Nat /\ from[k] \in 1 .. Len(line)
    <2>1. from \in [0 .. Len(words) -> 1 .. Len(line)]
      BY DEF Laid
    <2>2. Len(line) \in Nat /\ Len(words) \in Nat
      BY LinesFacts DEF LineTypeOK
    <2>3. QED  BY <2>1, <2>2
  <1>1. CASE k = Len(words)
    <2>1. line[from[k]] = EOS
      BY <1>1 DEF Laid, LineTypeOK
    <2>2. ~(k < Len(words))
      BY <1>0, <1>1
    <2>3. QED  BY <1>0, <1>1, <2>1, <2>2, SpecialChars
  <1>2. CASE k # Len(words)
    <2> DEFINE word == words[k + 1]
               w == Written(word)
    <2>1. k \in 0 .. Len(words) - 1 /\ k < Len(words)
      BY <1>0, <1>2
    <2>2. WordOK(word) /\ Len(w) \in Nat \ {0} /\ \A j \in 1 .. Len(w) : line[from[k] + j - 1] = w[j]
      BY <2>1, WordAt
    <2>3. line[from[k]] = w[1]
      <3>1. 1 \in 1 .. Len(w) /\ from[k] + 1 - 1 = from[k]
        BY <1>0, <2>2
      <3>2. QED  BY <2>2, <3>1
    <2>4. /\ Bare(word) => w[1] \notin Spaces \cup Quotes \cup {EOS}
          /\ ~Bare(word) => w[1] = word.quote /\ word.quote \in Quotes
      BY <2>2, WrittenFacts
    <2>5. QED  BY <1>0, <1>2, <2>1, <2>3, <2>4, SpecialChars
  <1>3. QED  BY <1>1, <1>2

LEMMA SkipsBlanks ==
    ASSUME LineTypeOK, NEW from, Laid(from), NEW k \in 0 .. Len(words), Untouched(from, k),
           NEW i \in 1 .. from[k], \A q \in i .. from[k] - 1 : line[q] \in Spaces
    PROVE  Skip(i, {" ", "\t"}) = from[k]
  <1> DEFINE I == {q \in i .. Len(line) : line[q] \notin {" ", "\t"}}
             r == Skip(i, {" ", "\t"})
  <1>1. from[k] \in 1 .. Len(line) /\ Len(line) \in Nat /\ line[from[k]] \notin Spaces
    BY FirstChar
  <1>2. r = IF I # {} THEN Min(I) ELSE 0
    BY Zenon DEF Skip, SelectInSubSeq
  <1>3. I = {q \in i .. Len(line) : line[q] \notin Spaces}
    BY Zenon DEF Spaces
  <1> HIDE DEF r, I
  <1>4. from[k] \in I /\ I \subseteq Nat /\ \A q \in I : q >= i
    BY <1>1, <1>3
  <1>5. r \in I /\ \A q \in I : r <= q
    BY <1>2, <1>4, FirstOf
  <1>6. r <= from[k] /\ r \in i .. Len(line) /\ line[r] \notin Spaces
    BY <1>3, <1>4, <1>5
  <1>7. ~(r <= from[k] - 1)
    BY <1>1, <1>6
  <1>8. r = from[k]
    BY <1>1, <1>6, <1>7
  <1>9. QED  BY <1>8 DEF r

Scanned(from, k) == LineTypeOK /\ Laid(from) /\ Untouched(from, k) /\ PlaceOK(from, k)

\* Word k + 1 is ended at c.
LEMMA LineEnded ==
    ASSUME LineTypeOK, NEW from, Laid(from), NEW k \in 0 .. Len(words) - 1, Untouched(from, k),
           words' = words, NEW c \in from[k] .. from[k + 1] - 1, line' = [line EXCEPT ![c] = EOS]
    PROVE  /\ LineTypeOK' /\ Laid(from)' /\ Untouched(from, k + 1)'
           /\ c \in 1 .. Len(line) /\ Len(line') = Len(line) /\ line'[c] = EOS
           /\ \A q \in 1 .. Len(line) : q # c => line'[q] = line[q]
  <1>1. /\ from[k] \in 1 .. Len(line) /\ from[k + 1] \in 1 .. Len(line) /\ Len(line) \in Nat
    BY WordAt
  <1>2. c \in 1 .. Len(line)
    BY <1>1
  <1>3. line \in Seq(Chars \cup {EOS}) /\ line[Len(line)] = EOS /\ words \in Lines
    BY DEF LineTypeOK
  <1>4. line' \in Seq(Chars \cup {EOS}) /\ Len(line') = Len(line)
    BY <1>2, <1>3, ExceptSeq
  <1>5. line'[c] = EOS /\ \A q \in 1 .. Len(line) : q # c => line'[q] = line[q]
    BY <1>2, <1>3
  <1>6. LineTypeOK'
    <2>1. line'[Len(line)] = EOS
      BY <1>1, <1>3, <1>5
    <2>2. words' \in Lines /\ line'[Len(line')] = EOS
      BY <1>3, <1>4, <2>1
    <2>3. QED  BY <1>4, <2>2 DEF LineTypeOK
  <1>7. Laid(from)'
    BY <1>4 DEF Laid, Written, WordText, SegmentText
  <1>8. ASSUME NEW i \in k + 2 .. Len(words)
        PROVE  AsWritten(from, i)'
    <2>0. Len(words) \in Nat /\ WordOK(words[i])
      <3>1. Len(words) \in Nat /\ \A m \in 1 .. Len(words) : WordOK(words[m])
        BY <1>3, LinesFacts
      <3>2. i \in 1 .. Len(words)
        BY <3>1
      <3>3. QED  BY <3>1, <3>2
    <2> DEFINE w == Written(words[i])
    <2>1. /\ i \in k + 1 .. Len(words) /\ i \in 1 .. Len(words) /\ i - 1 \in 0 .. Len(words)
          /\ i \in 0 .. Len(words) /\ k + 1 \in 0 .. Len(words) /\ k + 1 <= i - 1
      BY <2>0
    <2>2. Len(w) \in Nat
      BY <2>0, WrittenFacts
    <2>3. from[k + 1] <= from[i - 1] /\ from[i - 1] + Len(w) <= from[i]
          /\ from[i - 1] \in 1 .. Len(line) /\ from[i] \in 1 .. Len(line)
      <3>1. /\ \A a, b \in 0 .. Len(words) : a <= b => from[a] <= from[b]
            /\ \A a \in 1 .. Len(words) : from[a - 1] + Len(Written(words[a])) <= from[a]
            /\ from \in [0 .. Len(words) -> 1 .. Len(line)]
        BY DEF Laid
      <3>2. QED  BY <2>1, <3>1
    <2>4. /\ \A j \in 1 .. Len(w) : line[from[i - 1] + j - 1] = w[j]
          /\ \A q \in from[i - 1] + Len(w) .. from[i] - 1 : line[q] \in Spaces
      BY <2>1 DEF Untouched, AsWritten
    <2>9. c < from[i - 1] /\ Len(line) \in Nat
      BY <1>1, <2>3
    <2>5. ASSUME NEW j \in 1 .. Len(w)
          PROVE  line'[from[i - 1] + j - 1] = w[j]
      <3>1. from[i - 1] + j - 1 \in 1 .. Len(line) /\ from[i - 1] + j - 1 # c
        <4> DEFINE a == from[i - 1]
        <4>1. a \in 1 .. Len(line) /\ a + Len(w) <= from[i] /\ from[i] \in 1 .. Len(line)
          BY <2>3
        <4>2. Len(w) \in Nat /\ Len(line) \in Nat /\ c < a
          BY <2>2, <2>9
        <4> HIDE DEF a, w
        <4>3. a + j - 1 \in 1 .. Len(line) /\ a + j - 1 # c
          BY <1>2, <4>1, <4>2
        <4>4. QED  BY <4>3 DEF a
      <3>2. QED  BY <1>5, <2>4, <3>1
    <2>6. ASSUME NEW q \in from[i - 1] + Len(w) .. from[i] - 1
          PROVE  line'[q] \in Spaces
      <3>1. q \in 1 .. Len(line) /\ q # c
        <4> DEFINE a == from[i - 1]
        <4>1. a \in 1 .. Len(line) /\ from[i] \in 1 .. Len(line)
          BY <2>3
        <4>2. Len(w) \in Nat /\ Len(line) \in Nat /\ c < a
          BY <2>2, <2>9
        <4> HIDE DEF a, w
        <4>3. q \in a + Len(w) .. from[i] - 1
          BY DEF a
        <4>4. QED  BY <1>2, <4>1, <4>2, <4>3
      <3>2. QED  BY <1>5, <2>4, <3>1
    <2> HIDE DEF w
    <2>7. w' = w
      BY DEF w, Written, WordText, SegmentText
    <2>8. QED  BY <2>5, <2>6 DEF AsWritten, w, Written, WordText, SegmentText
  <1>9. Untouched(from, k + 1)'
    <2>1. (k + 1) + 1 = k + 2
      OBVIOUS
    <2>2. QED  BY <1>8, <2>1 DEF Untouched
  <1>10. QED  BY <1>2, <1>4, <1>5, <1>6, <1>7, <1>9

LEMMA LineKept ==
    ASSUME LineTypeOK, NEW from, Laid(from), NEW k, Untouched(from, k), UNCHANGED <<words, line>>
    PROVE  LineTypeOK' /\ Laid(from)' /\ Untouched(from, k)'
  <1>1. \A word : Written(word)' = Written(word)
    BY DEF Written, WordText, SegmentText
  <1>2. LineTypeOK'
    BY DEF LineTypeOK
  <1>3. Laid(from)'
    BY <1>1 DEF Laid
  <1>4. \A i : AsWritten(from, i) => AsWritten(from, i)'
    BY <1>1 DEF AsWritten
  <1>5. Untouched(from, k)'
    BY <1>4 DEF Untouched
  <1>6. QED  BY <1>2, <1>3, <1>5

\* In a gap, unless it is one of the blanks, a character is the first of a word.
LEMMA InGap ==
    ASSUME NEW from, NEW k, Scanned(from, k), pc = "scan", s = p, BlanksTo(from, k), line[p] \notin Spaces
    PROVE  p = from[k]
  <1>1. k \in 0 .. Len(words) /\ from[k] \in Nat /\ p \in Nat
    BY FirstChar DEF Scanned, PlaceOK, BlanksTo
  <1>2. p = from[k] \/ p \in p .. from[k] - 1
    BY <1>1 DEF BlanksTo
  <1>3. QED  BY <1>2 DEF BlanksTo

\* Behind the first character of a bare word are its others, then its end.
LEMMA OnWord ==
    ASSUME NEW from, NEW k, Scanned(from, k), InWord(from, k)
    PROVE  LET t == WordText(words[k + 1])
           IN  /\ k \in 0 .. Len(words) - 1 /\ t \in Text /\ Len(t) \in Nat \ {0}
               /\ s = from[k] /\ s \in 1 .. Len(line) /\ p \in s + 1 .. s + Len(t) /\ s # p
               /\ Written(words[k + 1]) = t
               /\ \A j \in 1 .. Len(t) : line[s + j - 1] = t[j]
               /\ p < s + Len(t) => line[p] \notin Spaces \cup Quotes \cup {EOS}
               /\ p = s + Len(t) /\ p < from[k + 1] => line[p] \in Spaces
               /\ p = s + Len(t) /\ p >= from[k + 1]
                    => p = from[k + 1] /\ p = Len(line) /\ k + 1 = Len(words) /\ line[p] = EOS
  <1> DEFINE word == words[k + 1]
             t == WordText(word)
             w == Written(word)
  <1>0. k \in 0 .. Len(words) /\ k < Len(words) /\ Bare(word) /\ Len(words) \in Nat
    BY LinesFacts DEF Scanned, PlaceOK, InWord, LineTypeOK
  <1>1. k \in 0 .. Len(words) - 1
    BY <1>0
  <1>2. /\ WordOK(word) /\ Len(w) \in Nat \ {0}
        /\ from[k] \in 1 .. Len(line) /\ from[k + 1] \in 1 .. Len(line) /\ Len(line) \in Nat
        /\ from[k] + Len(w) <= from[k + 1]
        /\ k + 1 < Len(words) => from[k] + Len(w) < from[k + 1]
        /\ k + 1 = Len(words) => from[k + 1] = Len(line)
        /\ \A j \in 1 .. Len(w) : line[from[k] + j - 1] = w[j]
        /\ \A q \in from[k] + Len(w) .. from[k + 1] - 1 : line[q] \in Spaces
    BY <1>1, WordAt DEF Scanned
  <1>3. t \in Text /\ w = t /\ \A j \in 1 .. Len(t) : t[j] \notin Spaces \cup Quotes \cup {EOS}
    BY <1>0, <1>2, WrittenFacts
  <1>4. s = from[k] /\ p \in s + 1 .. s + Len(w) /\ line[Len(line)] = EOS
    BY DEF InWord, Scanned, LineTypeOK
  <1> HIDE DEF word, w, t
  <1>5. ASSUME p < s + Len(t)
        PROVE  line[p] \notin Spaces \cup Quotes \cup {EOS}
    <2>1. p - s + 1 \in 1 .. Len(t) /\ from[k] + (p - s + 1) - 1 = p
      <3>1. Len(t) \in Nat /\ s \in Nat /\ p \in s + 1 .. s + Len(t) /\ from[k] = s
        BY <1>2, <1>3, <1>4
      <3>2. QED  BY <1>5, <3>1
    <2>2. QED  BY <1>2, <1>3, <2>1
  <1>6. ASSUME p = s + Len(t), p < from[k + 1]
        PROVE  line[p] \in Spaces
    <2>1. p \in from[k] + Len(w) .. from[k + 1] - 1
      BY <1>2, <1>3, <1>4, <1>6
    <2>2. QED  BY <1>2, <2>1
  <1>7. ASSUME p = s + Len(t), p >= from[k + 1]
        PROVE  p = from[k + 1] /\ p = Len(line) /\ k + 1 = Len(words) /\ line[p] = EOS
    <2>1. /\ Len(t) \in Nat /\ s \in Nat /\ from[k + 1] \in Nat /\ Len(words) \in Nat
          /\ k \in 0 .. Len(words) - 1 /\ s + Len(t) <= from[k + 1]
          /\ k + 1 < Len(words) => s + Len(t) < from[k + 1]
          /\ k + 1 = Len(words) => from[k + 1] = Len(line)
      BY <1>0, <1>1, <1>2, <1>3, <1>4
    <2>2. p = from[k + 1] /\ ~(k + 1 < Len(words)) /\ k + 1 = Len(words)
      BY <1>7, <2>1
    <2>3. QED  BY <1>4, <2>1, <2>2
  <1>8. QED  BY <1>1, <1>2, <1>3, <1>4, <1>5, <1>6, <1>7 DEF word, w, t

LEMMA WordsConstant ==
    \A word : /\ Written(word)' = Written(word) /\ WordText(word)' = WordText(word)
              /\ Bare(word)' = Bare(word) /\ IsLiteral(word)' = IsLiteral(word)
  BY DEF Written, WordText, SegmentText, Bare, IsLiteral

LEMMA ScannedFacts ==
    ASSUME NEW from, NEW k, Scanned(from, k)
    PROVE  /\ k \in 0 .. Len(words) /\ Len(words) \in Nat /\ Len(line) \in Nat
           /\ p \in 1 .. Len(line) /\ s \in 1 .. p /\ from[k] \in 1 .. Len(line)
           /\ words \in Lines /\ line \in Seq(Chars \cup {EOS})
  <1>1. words \in Lines /\ line \in Seq(Chars \cup {EOS})
    BY DEF Scanned, LineTypeOK
  <1>2. Len(words) \in Nat /\ Len(line) \in Nat
    BY <1>1, LinesFacts
  <1>3. k \in 0 .. Len(words) /\ p \in 1 .. Len(line) /\ s \in 1 .. p
    BY DEF Scanned, PlaceOK
  <1>4. QED  BY <1>1, <1>2, <1>3, FirstChar DEF Scanned

\* A part of the line that is a text.
LEMMA TextThere ==
    ASSUME line \in Seq(Chars \cup {EOS}), NEW t \in Text, NEW a \in Nat \ {0},
           \A j \in 1 .. Len(t) : line[a + j - 1] = t[j]
    PROVE  SubSeq(line, a, a + Len(t) - 1) = t
  <1> DEFINE b == a + Len(t) - 1
  <1>1. Len(t) \in Nat /\ DOMAIN t = 1 .. Len(t) /\ \A j \in 1 .. Len(t) : t[j] \in Chars
    BY DEF Text
  <1>2. b \in Int /\ b - a + 1 = Len(t) /\ (a <= b <=> Len(t) # 0)
    BY <1>1
  <1>3. \A q \in a .. b : line[q] \in Chars
    <2> SUFFICES ASSUME NEW q \in a .. b PROVE line[q] \in Chars
      OBVIOUS
    <2>1. q - a + 1 \in 1 .. Len(t) /\ a + (q - a + 1) - 1 = q
      BY <1>1
    <2>2. QED  BY <1>1, <2>1
  <1> HIDE DEF b
  <1>4. /\ SubSeq(line, a, b) \in Seq(Chars)
        /\ Len(SubSeq(line, a, b)) = IF a <= b THEN b - a + 1 ELSE 0
        /\ \A j \in 1 .. b - a + 1 : SubSeq(line, a, b)[j] = line[a + j - 1]
    BY <1>2, <1>3, SubSeqProperties
  <1> DEFINE r == SubSeq(line, a, b)
  <1>5. r \in Seq(Chars) /\ Len(r) = Len(t) /\ \A j \in 1 .. Len(t) : r[j] = t[j]
    BY <1>1, <1>2, <1>4
  <1> HIDE DEF r
  <1>6. r = t
    BY <1>1, <1>5 DEF Text
  <1>7. QED  BY <1>6 DEF r, b

LEMMA FirstEnd ==
    ASSUME line \in Seq(Chars \cup {EOS}), NEW a \in Nat \ {0}, NEW b \in a .. Len(line),
           line[b] = EOS, \A q \in a .. b - 1 : line[q] # EOS
    PROVE  StringAt(a) = SubSeq(line, a, b - 1)
  <1> DEFINE I == {q \in a .. Len(line) : line[q] = EOS}
             r == SelectInSubSeq(line, a, Len(line), LAMBDA c : c = EOS)
  <1>1. r = IF I # {} THEN Min(I) ELSE 0
    BY DEF SelectInSubSeq
  <1>2. b \in I /\ I \subseteq Nat
    OBVIOUS
  <1>3. r \in I /\ \A q \in I : r <= q
    <2> HIDE DEF I, r
    <2>1. QED  BY <1>1, <1>2, FirstOf
  <1>4. r <= b /\ r \in a .. Len(line) /\ line[r] = EOS
    BY <1>2, <1>3
  <1> HIDE DEF r
  <1>5. r = b
    <2>1. Len(line) \in Nat
      OBVIOUS
    <2>2. r \notin a .. b - 1
      BY <1>4
    <2>3. QED  BY <1>4, <2>1, <2>2
  <1>6. StringAt(a) = SubSeq(line, a, r - 1)
    BY DEF StringAt, r
  <1>7. QED  BY <1>5, <1>6

LEMMA WithinWordPlace ==
    ASSUME NEW from, NEW k, Scanned(from, k), WithinWord
    PROVE  Scanned(from, k)'
  <1>0. /\ pc = "scan" /\ pc' = pc /\ p' = p + 1 /\ s' = s /\ words' = words /\ line' = line
        /\ pattern' = pattern
    BY DEF WithinWord, glob_t
  <1>1. line[p] \notin Spaces \cup Quotes \cup {EOS}
    BY Zenon DEF WithinWord, Spaces, Quotes
  <1>2. LineTypeOK' /\ Laid(from)' /\ Untouched(from, k)'
    BY <1>0, LineKept DEF Scanned
  <1>3. k \in 0 .. Len(words) /\ (InWord(from, k) \/ (s = p /\ BlanksTo(from, k))) /\ Len(words) \in Nat
        /\ p \in 1 .. Len(line) /\ s \in 1 .. p /\ Len(line) \in Nat
    BY <1>0, ScannedFacts DEF Scanned, PlaceOK
  <1>4. /\ k \in 0 .. Len(words) - 1 /\ Bare(words[k + 1]) /\ s = from[k]
        /\ p + 1 \in s + 1 .. s + Len(Written(words[k + 1]))
    <2>1. CASE InWord(from, k)
      <3> DEFINE t == WordText(words[k + 1])
      <3>1. /\ k \in 0 .. Len(words) - 1 /\ Bare(words[k + 1]) /\ s = from[k] /\ s \in Nat
            /\ Len(t) \in Nat /\ p \in s + 1 .. s + Len(t) /\ Written(words[k + 1]) = t
            /\ (p = s + Len(t) /\ p < from[k + 1] => line[p] \in Spaces)
            /\ (p = s + Len(t) /\ p >= from[k + 1] => line[p] = EOS)
        <4>1. Bare(words[k + 1])
          BY <2>1 DEF InWord
        <4>2. QED  BY <2>1, <4>1, OnWord
      <3>2. from[k + 1] \in Nat
        BY <3>1, WordAt DEF Scanned
      <3> HIDE DEF t
      <3>3. p # s + Len(t)
        BY <1>1, <1>3, <3>1, <3>2
      <3>4. QED  BY <3>1, <3>3
    <2>2. CASE s = p /\ BlanksTo(from, k)
      <3>1. p = from[k]
        BY <1>0, <1>1, <2>2, InGap
      <3>2. k # Len(words) /\ (k < Len(words) => Bare(words[k + 1]))
        BY <1>1, <1>3, <3>1, FirstChar DEF Scanned
      <3>3. k \in 0 .. Len(words) - 1
        BY <1>3, <3>2
      <3>4. Len(Written(words[k + 1])) \in Nat \ {0}
        BY <3>3, WordAt DEF Scanned
      <3>5. QED  BY <1>3, <2>2, <3>1, <3>2, <3>3, <3>4
    <2>3. QED  BY <1>3, <2>1, <2>2
  <1>5. p + 1 \in 1 .. Len(line)
    <2>1. /\ from[k] \in Nat /\ from[k + 1] \in 1 .. Len(line)
          /\ from[k] + Len(Written(words[k + 1])) <= from[k + 1] /\ Len(Written(words[k + 1])) \in Nat
      BY <1>4, WordAt DEF Scanned
    <2>2. QED  BY <1>3, <1>4, <2>1
  <1>6. InWord(from, k)'
    BY <1>0, <1>3, <1>4, WordsConstant DEF InWord
  <1>7. PlaceOK(from, k)'
    BY <1>0, <1>3, <1>5, <1>6 DEF PlaceOK
  <1>8. QED  BY <1>2, <1>7 DEF Scanned

LEMMA BlankPlace ==
    ASSUME NEW from, NEW k, Scanned(from, k), Blank
    PROVE  Scanned(from, k)'
  <1>0. /\ pc = "scan" /\ pc' = pc /\ s = p /\ s' = p' /\ words' = words /\ line' = line
    BY Zenon DEF Blank
  <1>1. LineTypeOK' /\ Laid(from)' /\ Untouched(from, k)'
    BY <1>0, LineKept DEF Scanned
  <1>2. k \in 0 .. Len(words) /\ (InWord(from, k) \/ BlanksTo(from, k))
    BY <1>0 DEF Scanned, PlaceOK
  <1>3. ~InWord(from, k)
    BY <1>0, OnWord
  <1>4. BlanksTo(from, k) /\ p \in 1 .. from[k] /\ from[k] \in 1 .. Len(line)
    BY <1>2, <1>3, FirstChar DEF BlanksTo, Scanned
  <1>5. p' = from[k]
    <2>1. Skip(p, {" ", "\t"}) = from[k]
      BY <1>2, <1>4, SkipsBlanks DEF BlanksTo, Scanned
    <2>2. QED  BY <2>1, Zenon DEF Blank
  <1>6. PlaceOK(from, k)'
    <2>1. BlanksTo(from, k)'
      BY <1>0, <1>4, <1>5 DEF BlanksTo
    <2>2. p' \in 1 .. Len(line') /\ s' \in 1 .. p'
      BY <1>0, <1>4, <1>5
    <2>3. QED  BY <1>0, <1>2, <2>1, <2>2 DEF PlaceOK
  <1>7. QED  BY <1>1, <1>6 DEF Scanned

LEMMA LineEndPlace ==
    ASSUME NEW from, NEW k, Scanned(from, k), LineEnd
    PROVE  Scanned(from, k)' /\ k = Len(words)
  <1>0. /\ pc = "scan" /\ pc' = "main" /\ s = p /\ line[p] = EOS /\ p' = p /\ s' = s /\ words' = words /\ line' = line
    BY DEF LineEnd, setargv_vars
  <1>1. LineTypeOK' /\ Laid(from)' /\ Untouched(from, k)'
    BY <1>0, LineKept DEF Scanned
  <1>2. k \in 0 .. Len(words) /\ (InWord(from, k) \/ BlanksTo(from, k)) /\ p \in 1 .. Len(line) /\ s \in 1 .. p
    BY <1>0 DEF Scanned, PlaceOK
  <1>3. BlanksTo(from, k)
    BY <1>0, <1>2, OnWord
  <1>4. p = from[k]
    BY <1>0, <1>3, SpecialChars, InGap
  <1>5. k = Len(words)
    BY <1>0, <1>2, <1>4, FirstChar DEF Scanned
  <1>6. PlaceOK(from, k)'
    BY <1>0, <1>2, <1>5 DEF PlaceOK
  <1>7. QED  BY <1>1, <1>5, <1>6 DEF Scanned

\* What stands before position end stays.
KeptBefore(end) ==
    /\ Len(line') = Len(line)
    /\ \A q \in 1 .. Len(line) : q < end => line'[q] = line[q]

LEMMA WordEndPlace ==
    ASSUME NEW from, NEW k, Scanned(from, k), WordEnd
    PROVE  /\ k \in 0 .. Len(words) - 1 /\ Scanned(from, k + 1)' /\ KeptBefore(from[k])
           /\ \E w \in Text : GlobCall(w)
  <1> DEFINE t == WordText(words[k + 1])
             r == SubSeq(line, s, p - 1)
  <1>0. /\ pc = "scan" /\ pc' = "glob" /\ s # p /\ line' = [line EXCEPT ![p] = EOS] /\ p' = p + 1
        /\ s' = s /\ words' = words /\ GlobCall(r)
    BY Zenon DEF WordEnd
  <1>1. line[p] \in Spaces
    BY Zenon DEF WordEnd, Spaces
  <1>2. /\ k \in 0 .. Len(words) /\ Len(words) \in Nat /\ Len(line) \in Nat
        /\ p \in 1 .. Len(line) /\ s \in 1 .. p /\ line \in Seq(Chars \cup {EOS})
    BY ScannedFacts
  <1>3. InWord(from, k)
    BY <1>0 DEF Scanned, PlaceOK
  <1>4. /\ k \in 0 .. Len(words) - 1 /\ t \in Text /\ Len(t) \in Nat \ {0}
        /\ s = from[k] /\ p \in s + 1 .. s + Len(t) /\ Written(words[k + 1]) = t
        /\ \A j \in 1 .. Len(t) : line[s + j - 1] = t[j]
        /\ p < s + Len(t) => line[p] \notin Spaces \cup Quotes \cup {EOS}
        /\ p = s + Len(t) /\ p >= from[k + 1] => line[p] = EOS
    BY <1>3, OnWord
  <1>5. /\ from[k] \in Nat \ {0} /\ from[k + 1] \in 1 .. Len(line)
        /\ \A q \in from[k] + Len(t) .. from[k + 1] - 1 : line[q] \in Spaces
    BY <1>4, WordAt DEF Scanned
  <1> HIDE DEF t, r
  <1>6. p = s + Len(t)
    <2>1. ~(p < s + Len(t))
      BY <1>1, <1>4
    <2>2. s \in Nat /\ Len(t) \in Nat
      BY <1>2, <1>4
    <2>3. p \in s + 1 .. s + Len(t)
      BY <1>4
    <2>4. QED  BY <2>1, <2>2, <2>3
  <1>7. p < from[k + 1]
    <2>1. line[p] # EOS
      BY <1>1, SpecialChars
    <2>2. ~(p >= from[k + 1])
      BY <1>4, <1>6, <2>1
    <2>3. p \in Nat /\ from[k + 1] \in Nat
      BY <1>2, <1>5
    <2>4. QED  BY <2>2, <2>3
  <1>8. r = t
    <2>1. SubSeq(line, s, s + Len(t) - 1) = t
      BY <1>2, <1>4, <1>5, TextThere
    <2>2. p - 1 = s + Len(t) - 1
      BY <1>2, <1>4, <1>6
    <2>3. QED  BY <2>1, <2>2, Zenon DEF r
  <1>9. p \in from[k] .. from[k + 1] - 1
    BY <1>2, <1>4, <1>5, <1>7
  <1>10. /\ LineTypeOK' /\ Laid(from)' /\ Untouched(from, k + 1)' /\ Len(line') = Len(line)
         /\ \A q \in 1 .. Len(line) : q # p => line'[q] = line[q]
    <2>1. PICK c : c = p
      OBVIOUS
    <2>2. c \in from[k] .. from[k + 1] - 1 /\ line' = [line EXCEPT ![c] = EOS]
      BY <1>0, <1>9, <2>1
    <2>3. LineTypeOK /\ Laid(from) /\ Untouched(from, k)
      BY DEF Scanned
    <2>4. /\ LineTypeOK' /\ Laid(from)' /\ Untouched(from, k + 1)' /\ Len(line') = Len(line)
          /\ \A q \in 1 .. Len(line) : q # c => line'[q] = line[q]
      <3>1. words' = words /\ k \in 0 .. Len(words) - 1
        BY <1>0, <1>4
      <3>2. QED  BY <2>2, <2>3, <3>1, LineEnded
    <2>5. QED  BY <2>1, <2>4
  <1>11. KeptBefore(from[k])
    <2>1. \A q \in 1 .. Len(line) : q < from[k] => q # p
      BY <1>2, <1>5, <1>9
    <2>2. QED  BY <1>10, <2>1 DEF KeptBefore
  <1>12. BlanksTo(from, k + 1)'
    <2>1. p + 1 \in Nat \ {0} /\ p + 1 <= from[k + 1]
      BY <1>2, <1>5, <1>7
    <2>2. ASSUME NEW q \in p + 1 .. from[k + 1] - 1
          PROVE  line'[q] \in Spaces
      <3>1. q \in from[k] + Len(t) .. from[k + 1] - 1 /\ q \in 1 .. Len(line) /\ q # p
        <4>1. from[k] + Len(t) = p
          BY <1>4, <1>6
        <4>2. p \in Nat \ {0} /\ from[k + 1] \in 1 .. Len(line) /\ Len(line) \in Nat
          BY <1>2, <1>5
        <4>3. QED  BY <4>1, <4>2
      <3>2. QED  BY <1>5, <1>10, <3>1
    <2>3. QED  BY <1>0, <2>1, <2>2 DEF BlanksTo
  <1>13. Called(k + 1)'
    <2>1. pattern' = t /\ Bare(words[k + 1])
      BY <1>0, <1>3, <1>8 DEF GlobCall, InWord
    <2>2. k + 1 > 0
      BY <1>4
    <2>3. QED  BY <1>0, <2>1, <2>2, WordsConstant DEF Called, t
  <1>14. PlaceOK(from, k + 1)'
    <2>1. k \in 0 .. Len(words) - 1 /\ Len(words) \in Nat /\ Len(line) \in Nat
      BY <1>2, <1>4
    <2>2. p \in 1 .. Len(line) /\ s \in 1 .. p /\ p < from[k + 1] /\ from[k + 1] \in 1 .. Len(line)
      BY <1>2, <1>5, <1>7
    <2>3. k + 1 \in 0 .. Len(words) /\ p + 1 \in 1 .. Len(line) /\ s \in 1 .. p + 1
      BY <2>1, <2>2
    <2>4. k + 1 \in 0 .. Len(words') /\ p' \in 1 .. Len(line') /\ s' \in 1 .. p'
      BY <1>0, <1>10, <2>3
    <2>5. QED  BY <1>0, <1>12, <1>13, <2>4 DEF PlaceOK
  <1>15. Scanned(from, k + 1)'
    BY <1>10, <1>14 DEF Scanned
  <1>16. QED  BY <1>0, <1>4, <1>8, <1>11, <1>15

LEMMA LastWordPlace ==
    ASSUME NEW from, NEW k, Scanned(from, k), LastWord
    PROVE  /\ k \in 0 .. Len(words) - 1 /\ Scanned(from, k + 1)'
           /\ \E w \in Text : GlobCall(w)
  <1> DEFINE t == WordText(words[k + 1])
             r == StringAt(s)
  <1>0. /\ pc = "scan" /\ pc' = "last_glob" /\ s # p /\ line[p] = EOS
        /\ p' = p /\ s' = s /\ words' = words /\ line' = line /\ GlobCall(r)
    BY Zenon DEF LastWord
  <1>2. /\ k \in 0 .. Len(words) /\ Len(words) \in Nat /\ Len(line) \in Nat
        /\ p \in 1 .. Len(line) /\ s \in 1 .. p /\ line \in Seq(Chars \cup {EOS})
    BY ScannedFacts
  <1>3. InWord(from, k)
    BY <1>0 DEF Scanned, PlaceOK
  <1>4. /\ k \in 0 .. Len(words) - 1 /\ t \in Text /\ Len(t) \in Nat \ {0}
        /\ s = from[k] /\ p \in s + 1 .. s + Len(t) /\ Written(words[k + 1]) = t
        /\ \A j \in 1 .. Len(t) : line[s + j - 1] = t[j]
        /\ p < s + Len(t) => line[p] \notin Spaces \cup Quotes \cup {EOS}
        /\ p = s + Len(t) /\ p < from[k + 1] => line[p] \in Spaces
        /\ p = s + Len(t) /\ p >= from[k + 1] => k + 1 = Len(words)
    BY <1>3, OnWord
  <1>5. from[k] \in Nat \ {0} /\ from[k + 1] \in 1 .. Len(line)
    BY <1>4, WordAt DEF Scanned
  <1> HIDE DEF t, r
  <1>6. p = s + Len(t)
    <2>1. ~(p < s + Len(t))
      BY <1>0, <1>4
    <2>2. s \in Nat /\ Len(t) \in Nat
      BY <1>2, <1>4
    <2>3. p \in s + 1 .. s + Len(t)
      BY <1>4
    <2>4. QED  BY <2>1, <2>2, <2>3
  <1>7. k + 1 = Len(words)
    <2>1. ~(p < from[k + 1])
      BY <1>0, <1>4, <1>6, SpecialChars
    <2>2. p >= from[k + 1]
      BY <1>2, <1>5, <2>1
    <2>3. QED  BY <1>4, <1>6, <2>2
  <1>8. r = t
    <2>1. SubSeq(line, s, s + Len(t) - 1) = t
      BY <1>2, <1>4, <1>5, TextThere
    <2>2. \A q \in s .. p - 1 : line[q] # EOS
      <3> SUFFICES ASSUME NEW q \in s .. p - 1 PROVE line[q] # EOS
        OBVIOUS
      <3>1. q - s + 1 \in 1 .. Len(t) /\ s + (q - s + 1) - 1 = q
        <4>1. s \in Nat /\ Len(t) \in Nat /\ p = s + Len(t)
          BY <1>2, <1>4, <1>6
        <4>2. q \in s .. s + Len(t) - 1
          BY <4>1
        <4>3. QED  BY <4>1, <4>2
      <3>2. \A j \in 1 .. Len(t) : t[j] \in Chars
        BY <1>4 DEF Text
      <3>3. line[q] \in Chars
        BY <1>4, <3>1, <3>2
      <3>4. QED  BY <3>3, SpecialChars
    <2>3. s \in Nat \ {0} /\ p \in s .. Len(line)
      BY <1>2
    <2>4. StringAt(s) = SubSeq(line, s, p - 1)
      BY <1>0, <1>2, <2>2, <2>3, FirstEnd
    <2>5. p - 1 = s + Len(t) - 1
      BY <1>2, <1>4, <1>6
    <2>6. QED  BY <2>1, <2>4, <2>5, Zenon DEF r
  <1>10. LineTypeOK' /\ Laid(from)' /\ Untouched(from, k)'
    BY <1>0, LineKept DEF Scanned
  <1>11. Untouched(from, k + 1)'
    BY <1>4, <1>7, <1>10 DEF Untouched
  <1>13. Called(k + 1)'
    <2>1. pattern' = t /\ Bare(words[k + 1])
      BY <1>0, <1>3, <1>8 DEF GlobCall, InWord
    <2>2. k + 1 > 0
      BY <1>4
    <2>3. QED  BY <1>0, <2>1, <2>2, WordsConstant DEF Called, t
  <1>14. PlaceOK(from, k + 1)'
    <2>1. k + 1 \in 0 .. Len(words') /\ p' \in 1 .. Len(line') /\ s' \in 1 .. p'
      BY <1>0, <1>2, <1>4
    <2>2. QED  BY <1>0, <1>7, <1>13, <2>1 DEF PlaceOK
  <1>15. Scanned(from, k + 1)'
    BY <1>10, <1>11, <1>14 DEF Scanned
  <1>16. QED  BY <1>0, <1>4, <1>8, <1>15

LEMMA ExpandedPlace ==
    ASSUME NEW from, NEW k, Scanned(from, k), Expanded
    PROVE  Scanned(from, k)' /\ k \in 1 .. Len(words) /\ pattern = WordText(words[k]) /\ Bare(words[k])
  <1>0. words' = words /\ line' = line /\ pc \in {"glob", "last_glob"}
    BY Zenon DEF Expanded
  <1>1. LineTypeOK' /\ Laid(from)' /\ Untouched(from, k)'
    BY <1>0, LineKept DEF Scanned
  <1>2. /\ k \in 0 .. Len(words) /\ Len(words) \in Nat /\ Len(line) \in Nat
        /\ p \in 1 .. Len(line) /\ s \in 1 .. p /\ from[k] \in 1 .. Len(line)
    BY ScannedFacts
  <1>3. Called(k) /\ (pc = "glob" => BlanksTo(from, k)) /\ (pc = "last_glob" => k = Len(words))
    BY <1>0 DEF Scanned, PlaceOK
  <1>4. k \in 1 .. Len(words) /\ pattern = WordText(words[k]) /\ Bare(words[k])
    BY <1>2, <1>3 DEF Called
  <1>5. CASE pc = "glob"
    <2>1. p \in 1 .. from[k] /\ BlanksTo(from, k)
      BY <1>2, <1>3, <1>5 DEF BlanksTo
    <2>2. Skip(p, {" ", "\t"}) = from[k]
      BY <1>2, <2>1, SkipsBlanks DEF BlanksTo, Scanned
    <2>3. p' = from[k] /\ s' = from[k] /\ pc' = "scan"
      BY <1>5, <2>2, Zenon DEF Expanded
    <2>4. BlanksTo(from, k)' /\ s' = p'
      BY <1>0, <1>2, <2>3 DEF BlanksTo
    <2>5. k \in 0 .. Len(words') /\ p' \in 1 .. Len(line') /\ s' \in 1 .. p'
      BY <1>0, <1>2, <2>3
    <2>6. PlaceOK(from, k)'
      BY <2>3, <2>4, <2>5 DEF PlaceOK
    <2>7. QED  BY <1>1, <1>4, <2>6 DEF Scanned
  <1>6. CASE pc = "last_glob"
    <2>1. pc' = "main" /\ p' = p /\ s' = s
      BY <1>6, Zenon DEF Expanded
    <2>2. PlaceOK(from, k)'
      BY <1>0, <1>2, <1>3, <1>6, <2>1 DEF PlaceOK
    <2>3. QED  BY <1>1, <1>4, <2>2 DEF Scanned
  <1>7. QED  BY <1>0, <1>5, <1>6

\* An entry of argv is string w, which is in the line before position end if it is there.
Holds(e, w, end) ==
    \/ e.at = 0 /\ e.string = w
    \/ /\ e.at \in 1 .. Len(line) /\ e.at + Len(w) < end /\ line[e.at + Len(w)] = EOS
       /\ \A j \in 1 .. Len(w) : line[e.at + j - 1] = w[j]

LEMMA QuotedPlace ==
    ASSUME NEW from, NEW k, Scanned(from, k), Quoted
    PROVE  /\ k \in 0 .. Len(words) - 1 /\ Scanned(from, k + 1)' /\ KeptBefore(from[k])
           /\ \E a \in 1 .. Len(line) : a = p + 1 /\ Holds(InLine(a), WordText(words[k + 1]), from[k + 1])'
  <1> DEFINE t == WordText(words[k + 1])
             w == Written(words[k + 1])
             close == SelectInSubSeq(line, p + 1, Len(line), LAMBDA c : c \in {line[p], EOS})
             I == {q \in p + 1 .. Len(line) : line[q] \in {line[p], EOS}}
  <1>0. /\ pc = "scan" /\ pc' = pc /\ line' = [line EXCEPT ![close] = EOS] /\ p' = close + 1
        /\ s' = p' /\ words' = words
    BY Zenon DEF Quoted
  <1>1. line[p] \in Quotes
    BY Zenon DEF Quoted, Quotes
  <1>2. /\ k \in 0 .. Len(words) /\ Len(words) \in Nat /\ Len(line) \in Nat
        /\ p \in 1 .. Len(line) /\ s \in 1 .. p /\ line \in Seq(Chars \cup {EOS})
    BY ScannedFacts
  <1>3. line[p] \notin Spaces /\ line[p] # EOS
    BY <1>1, SpecialChars
  <1>4. ~InWord(from, k)
    <2> SUFFICES ASSUME InWord(from, k) PROVE FALSE
      OBVIOUS
    <2>1. from[k + 1] \in Nat
      <3>1. k \in 0 .. Len(words) - 1
        BY OnWord
      <3>2. QED  BY <3>1, WordAt DEF Scanned
    <2>2. /\ p \in s + 1 .. s + Len(t) /\ Len(t) \in Nat
          /\ p < s + Len(t) => line[p] \notin Spaces \cup Quotes \cup {EOS}
          /\ p = s + Len(t) /\ p < from[k + 1] => line[p] \in Spaces
          /\ p = s + Len(t) /\ p >= from[k + 1] => line[p] = EOS
      BY OnWord
    <2> HIDE DEF t
    <2>3. p < s + Len(t) \/ (p = s + Len(t) /\ (p < from[k + 1] \/ p >= from[k + 1]))
      BY <1>2, <2>1, <2>2
    <2>4. QED  BY <1>1, <1>3, <2>2, <2>3
  <1>5. s = p /\ BlanksTo(from, k)
    BY <1>0, <1>4 DEF Scanned, PlaceOK
  <1>6. p = from[k]
    BY <1>0, <1>3, <1>5, InGap
  <1>7. k < Len(words) /\ ~Bare(words[k + 1]) /\ line[p] = words[k + 1].quote
    <2>1. k < Len(words) /\ ~Bare(words[k + 1])
      BY <1>1, <1>2, <1>6, FirstChar DEF Scanned
    <2>2. QED  BY <1>2, <1>6, <2>1, FirstChar DEF Scanned
  <1>8. k \in 0 .. Len(words) - 1
    BY <1>2, <1>7
  <1>9. /\ WordOK(words[k + 1]) /\ Len(w) \in Nat \ {0}
        /\ from[k + 1] \in 1 .. Len(line) /\ from[k] + Len(w) <= from[k + 1]
        /\ \A j \in 1 .. Len(w) : line[from[k] + j - 1] = w[j]
        /\ \A q \in from[k] + Len(w) .. from[k + 1] - 1 : line[q] \in Spaces
    BY <1>8, WordAt DEF Scanned
  <1>10. /\ t \in Text /\ Len(t) \in Nat /\ Len(w) = Len(t) + 2
         /\ w[Len(t) + 2] = line[p]
         /\ \A j \in 1 .. Len(t) : w[j + 1] = t[j] /\ t[j] \notin {line[p], EOS}
    BY <1>7, <1>9, WrittenFacts
  <1>11. close = IF I # {} THEN Min(I) ELSE 0
    BY DEF SelectInSubSeq
  <1> HIDE DEF close, w, t
  <1>24. /\ p \in Nat \ {0} /\ Len(t) \in Nat /\ Len(line) \in Nat /\ from[k + 1] \in 1 .. Len(line)
         /\ p + Len(t) + 2 <= from[k + 1] /\ from[k] = p /\ Len(w) = Len(t) + 2
    <2>1. p \in Nat \ {0} /\ Len(t) \in Nat /\ Len(line) \in Nat
      BY <1>2, <1>10
    <2>2. Len(w) = Len(t) + 2 /\ p + Len(w) <= from[k + 1] /\ from[k + 1] \in 1 .. Len(line)
      BY <1>6, <1>9, <1>10
    <2>3. QED  BY <1>6, <2>1, <2>2
  <1> DEFINE c0 == p + Len(t) + 1
  <1>12. line[c0] = line[p] /\ c0 \in p + 1 .. Len(line) /\ c0 < from[k + 1]
    <2>1. Len(t) + 2 \in 1 .. Len(w) /\ from[k] + (Len(t) + 2) - 1 = c0
      BY <1>2, <1>6, <1>10
    <2>2. c0 \in p + 1 .. Len(line) /\ c0 < from[k + 1]
      BY <1>24
    <2>3. QED  BY <1>9, <1>10, <2>1, <2>2
  <1>13. \A j \in 1 .. Len(t) : line[p + j] = t[j]
    <2> SUFFICES ASSUME NEW j \in 1 .. Len(t) PROVE line[p + j] = t[j]
      OBVIOUS
    <2>1. j + 1 \in 1 .. Len(w) /\ from[k] + (j + 1) - 1 = p + j
      BY <1>2, <1>6, <1>10
    <2>2. QED  BY <1>9, <1>10, <2>1
  <1>14. close = c0
    <2>1. I \subseteq Nat /\ c0 \in I
      <3> HIDE DEF c0
      <3>1. QED  BY <1>2, <1>12
    <2>2. close \in I /\ \A q \in I : close <= q
      <3> HIDE DEF I
      <3>1. QED  BY <1>11, <2>1, FirstOf
    <2>3. close <= c0 /\ close \in p + 1 .. Len(line) /\ line[close] \in {line[p], EOS}
      BY <2>1, <2>2
    <2>4. close \notin p + 1 .. p + Len(t)
      <3> SUFFICES ASSUME close \in p + 1 .. p + Len(t) PROVE FALSE
        OBVIOUS
      <3>1. close - p \in 1 .. Len(t) /\ p + (close - p) = close
        BY <1>24
      <3>2. line[close] = t[close - p] /\ t[close - p] \notin {line[p], EOS}
        BY <1>10, <1>13, <3>1
      <3>3. QED  BY <2>3, <3>2
    <2>5. close \in Int /\ close >= p + 1 /\ close <= p + Len(t) + 1
      BY <2>3
    <2>6. QED  BY <1>24, <2>4, <2>5
  <1> HIDE DEF c0
  <1>15. /\ LineTypeOK' /\ Laid(from)' /\ Untouched(from, k + 1)' /\ Len(line') = Len(line)
         /\ line'[c0] = EOS /\ \A q \in 1 .. Len(line) : q # c0 => line'[q] = line[q]
    <2>1. PICK c : c = c0
      OBVIOUS
    <2>2. c \in from[k] .. from[k + 1] - 1 /\ line' = [line EXCEPT ![c] = EOS]
      BY <1>0, <1>2, <1>6, <1>9, <1>12, <1>14, <2>1
    <2>3. LineTypeOK /\ Laid(from) /\ Untouched(from, k)
      BY DEF Scanned
    <2>4. /\ LineTypeOK' /\ Laid(from)' /\ Untouched(from, k + 1)' /\ Len(line') = Len(line)
          /\ line'[c] = EOS /\ \A q \in 1 .. Len(line) : q # c => line'[q] = line[q]
      <3>1. words' = words
        BY <1>0
      <3>2. QED  BY <1>8, <2>2, <2>3, <3>1, LineEnded
    <2>5. QED  BY <2>1, <2>4
  <1>16. KeptBefore(from[k])
    <2>1. \A q \in 1 .. Len(line) : q < from[k] => q # c0
      BY <1>2, <1>6, <1>12
    <2>2. QED  BY <1>15, <2>1 DEF KeptBefore
  <1>17. BlanksTo(from, k + 1)'
    <2>1. c0 + 1 \in Nat \ {0} /\ c0 + 1 <= from[k + 1] /\ c0 + 1 = from[k] + Len(w)
      BY <1>24 DEF c0
    <2>2. ASSUME NEW q \in c0 + 1 .. from[k + 1] - 1
          PROVE  line'[q] \in Spaces
      <3>1. q \in from[k] + Len(w) .. from[k + 1] - 1 /\ q \in 1 .. Len(line) /\ q # c0
        BY <1>2, <1>9, <1>12, <2>1
      <3>2. QED  BY <1>9, <1>15, <3>1
    <2>3. QED  BY <1>0, <1>14, <2>1, <2>2 DEF BlanksTo
  <1>18. PlaceOK(from, k + 1)'
    <2>1. k + 1 \in 0 .. Len(words') /\ p' \in 1 .. Len(line') /\ s' \in 1 .. p'
      BY <1>0, <1>2, <1>8, <1>9, <1>12, <1>14, <1>15
    <2>2. QED  BY <1>0, <1>17, <2>1 DEF PlaceOK
  <1>19. Scanned(from, k + 1)'
    BY <1>15, <1>18 DEF Scanned
  <1>20. PICK a : a = p + 1
    OBVIOUS
  <1>21. a \in 1 .. Len(line)
    BY <1>2, <1>12, <1>20
  <1>22. Holds(InLine(a), t, from[k + 1])'
    <2>1. InLine(a).at = a /\ t' = t
      BY <1>0, WordsConstant DEF InLine, t
    <2>2. a + Len(t) = c0 /\ a + Len(t) < from[k + 1]
      BY <1>2, <1>10, <1>12, <1>20 DEF c0
    <2>3. ASSUME NEW j \in 1 .. Len(t)
          PROVE  line'[a + j - 1] = t[j]
      <3>1. a + j - 1 = p + j /\ p + j \in 1 .. Len(line) /\ p + j # c0
        BY <1>2, <1>10, <1>12, <1>20 DEF c0
      <3>2. QED  BY <1>13, <1>15, <3>1
    <2>4. line'[a + Len(t)] = EOS
      BY <1>15, <2>2
    <2>5. /\ a \in 1 .. Len(line') /\ a + Len(t') < from[k + 1] /\ line'[a + Len(t')] = EOS
          /\ \A j \in 1 .. Len(t') : line'[a + j - 1] = t'[j]
      BY <1>15, <1>21, <2>1, <2>2, <2>3, <2>4
    <2> HIDE DEF t
    <2>6. QED  BY <2>1, <2>5 DEF Holds, InLine
  <1>23. QED  BY <1>8, <1>16, <1>19, <1>20, <1>21, <1>22 DEF t

EntryOK(e) == (e.at = 0 /\ e.string \in Text) \/ e.at \in 1 .. Len(line)
EntriesOK == argv \in Seq(ToSet(argv)) /\ \A i \in 1 .. Len(argv) : EntryOK(argv[i])

\* The entries of argv up to cut[i] are for the first i words.
CutAt(from, cut, i) ==
    IF IsLiteral(words[i])
    THEN cut[i] = cut[i - 1] + 1 /\ Holds(argv[cut[i]], WordText(words[i]), from[i])
    ELSE cut[i] >= cut[i - 1]

CutOK(from, cut, m) ==
    /\ cut \in [0 .. m -> 1 .. Len(argv)] /\ cut[0] = 1 /\ cut[m] = Len(argv)
    /\ \A i \in 1 .. m : CutAt(from, cut, i)

Cuts(from, m) == \E cut : CutOK(from, cut, m)

LEMMA HoldsKept ==
    ASSUME NEW end \in Nat, Len(line) \in Nat, end <= Len(line), KeptBefore(end),
           NEW w \in Text, NEW e, Holds(e, w, end)
    PROVE  Holds(e, w, end)'
  <1>1. Len(w) \in Nat
    BY DEF Text
  <1>2. CASE e.at = 0 /\ e.string = w
    BY <1>2 DEF Holds
  <1>3. CASE /\ e.at \in 1 .. Len(line) /\ e.at + Len(w) < end /\ line[e.at + Len(w)] = EOS
             /\ \A j \in 1 .. Len(w) : line[e.at + j - 1] = w[j]
    <2>1. e.at + Len(w) \in 1 .. Len(line)
      BY <1>1, <1>3
    <2>2. line'[e.at + Len(w)] = EOS
      BY <1>3, <2>1 DEF KeptBefore
    <2>3. ASSUME NEW j \in 1 .. Len(w)
          PROVE  line'[e.at + j - 1] = w[j]
      <3>1. e.at + j - 1 \in 1 .. Len(line) /\ e.at + j - 1 < end
        BY <1>1, <1>3
      <3>2. QED  BY <1>3, <3>1 DEF KeptBefore
    <2>4. QED  BY <1>3, <2>2, <2>3 DEF Holds, KeptBefore
  <1>4. QED  BY <1>2, <1>3 DEF Holds

LEMMA CutAtKept ==
    ASSUME LineTypeOK, words' = words, NEW from, Laid(from), NEW m \in 0 .. Len(words), KeptBefore(from[m]),
           NEW cut, NEW i \in 1 .. m, NEW e, argv[cut[i]] = e, argv'[cut[i]] = e, CutAt(from, cut, i)
    PROVE  CutAt(from, cut, i)'
  <1>1. CASE IsLiteral(words[i])
    <2>1. cut[i] = cut[i - 1] + 1 /\ Holds(e, WordText(words[i]), from[i])
      BY <1>1 DEF CutAt
    <2>2. WordText(words[i]) \in Text
      <3>1. i \in 1 .. Len(words) /\ WordOK(words[i])
        BY LinesFacts DEF LineTypeOK
      <3>2. QED  BY <3>1, WrittenFacts
    <2> DEFINE w == WordText(words[i])
    <2>3. /\ from[i] \in Nat /\ from[i] <= Len(line) /\ Len(line) \in Nat /\ from[i] <= from[m]
          /\ from[m] \in Nat
      <3>1. from \in [0 .. Len(words) -> 1 .. Len(line)] /\ \A a, b \in 0 .. Len(words) : a <= b => from[a] <= from[b]
        BY DEF Laid
      <3>2. Len(line) \in Nat /\ Len(words) \in Nat
        BY LinesFacts DEF LineTypeOK
      <3>3. i \in 0 .. Len(words) /\ m \in 0 .. Len(words) /\ i <= m
        BY <3>2
      <3>4. QED  BY <3>1, <3>2, <3>3
    <2>4. KeptBefore(from[i])
      BY <2>3 DEF KeptBefore
    <2>5. PICK u : u = w
      OBVIOUS
    <2>6. PICK end : end = from[i]
      OBVIOUS
    <2>7. Holds(e, u, end)'
      <3>1. Holds(e, u, end) /\ KeptBefore(end) /\ u \in Text
        BY <2>1, <2>2, <2>4, <2>5, <2>6
      <3>2. QED  BY <2>3, <2>6, <3>1, HoldsKept
    <2>8. Holds(argv[cut[i]], WordText(words[i]), from[i])'
      <3>1. w' = u
        BY <2>5, WordsConstant
      <3> HIDE DEF w
      <3>2. Holds(argv[cut[i]], w, from[i])'
        BY <2>6, <2>7, <3>1 DEF Holds
      <3>3. QED  BY <3>2 DEF w
    <2>9. QED  BY <1>1, <2>1, <2>8, WordsConstant DEF CutAt
  <1>2. CASE ~IsLiteral(words[i])
    BY <1>2, WordsConstant DEF CutAt
  <1>3. QED  BY <1>1, <1>2

LEMMA EntriesKept ==
    ASSUME EntriesOK, Len(line') = Len(line), argv' = argv
    PROVE  EntriesOK'
  BY DEF EntriesOK, EntryOK, ToSet

LEMMA CutsKept ==
    ASSUME LineTypeOK, words' = words, NEW from, Laid(from), NEW m \in 0 .. Len(words), KeptBefore(from[m]),
           argv' = argv, Cuts(from, m)
    PROVE  Cuts(from, m)'
  <1>1. PICK cut : CutOK(from, cut, m)
    BY DEF Cuts
  <1>2. \A i \in 1 .. m : CutAt(from, cut, i)'
    <2> SUFFICES ASSUME NEW i \in 1 .. m PROVE CutAt(from, cut, i)'
      OBVIOUS
    <2>1. PICK e : e = argv[cut[i]]
      OBVIOUS
    <2>2. argv'[cut[i]] = e /\ CutAt(from, cut, i)
      BY <1>1, <2>1 DEF CutOK
    <2>3. QED  BY <2>1, <2>2, CutAtKept
  <1>3. CutOK(from, cut, m)'
    BY <1>1, <1>2 DEF CutOK
  <1>4. QED  BY <1>3 DEF Cuts

\* The entries for word m + 1 come.
LEMMA CutsMore ==
    ASSUME LineTypeOK, words' = words, NEW from, Laid(from), NEW m \in 0 .. Len(words) - 1, KeptBefore(from[m]),
           EntriesOK, Cuts(from, m), NEW S, NEW entries \in Seq(S), argv' = argv \o entries,
           \A i \in 1 .. Len(entries) : EntryOK(entries[i])',
           IsLiteral(words[m + 1]) =>
              Len(entries) = 1 /\ Holds(entries[1], WordText(words[m + 1]), from[m + 1])'
    PROVE  EntriesOK' /\ Cuts(from, m + 1)'
  <1>0. PICK old : CutOK(from, old, m)
    BY DEF Cuts
  <1>1. Len(argv) \in Nat /\ Len(entries) \in Nat /\ Len(words) \in Nat /\ argv \in Seq(ToSet(argv))
    BY LinesFacts DEF EntriesOK, LineTypeOK
  <1>2. /\ argv' \in Seq(ToSet(argv) \cup S) /\ Len(argv') = Len(argv) + Len(entries)
        /\ \A i \in 1 .. Len(argv) : argv'[i] = argv[i]
        /\ \A i \in 1 .. Len(entries) : argv'[Len(argv) + i] = entries[i]
    <2>1. argv \in Seq(ToSet(argv) \cup S) /\ entries \in Seq(ToSet(argv) \cup S)
      BY <1>1
    <2>2. /\ argv' \in Seq(ToSet(argv) \cup S) /\ Len(argv') = Len(argv) + Len(entries)
          /\ \A i \in 1 .. Len(argv) + Len(entries) :
                argv'[i] = IF i <= Len(argv) THEN argv[i] ELSE entries[i - Len(argv)]
      BY <2>1, ConcatProperties
    <2>3. \A i \in 1 .. Len(argv) : i \in 1 .. Len(argv) + Len(entries) /\ i <= Len(argv)
      BY <1>1
    <2>4. \A i \in 1 .. Len(entries) : /\ Len(argv) + i \in 1 .. Len(argv) + Len(entries)
                                       /\ ~(Len(argv) + i <= Len(argv)) /\ (Len(argv) + i) - Len(argv) = i
      BY <1>1
    <2>5. \A i \in 1 .. Len(argv) : argv'[i] = argv[i]
      BY <2>2, <2>3
    <2>6. \A i \in 1 .. Len(entries) : argv'[Len(argv) + i] = entries[i]
      BY <2>2, <2>4
    <2>7. QED  BY <2>2, <2>5, <2>6
  <1>3. EntriesOK'
    <2>1. argv' \in Seq(ToSet(argv'))
      BY <1>2, SeqOfItsElements
    <2>2. Len(line') = Len(line)
      BY DEF KeptBefore
    <2>3. ASSUME NEW i \in 1 .. Len(argv')
          PROVE  EntryOK(argv[i])'
      <3>1. CASE i \in 1 .. Len(argv)
        BY <1>2, <2>2, <3>1 DEF EntriesOK, EntryOK
      <3>2. CASE i \notin 1 .. Len(argv)
        <4>1. i - Len(argv) \in 1 .. Len(entries) /\ Len(argv) + (i - Len(argv)) = i
          BY <1>1, <1>2, <3>2
        <4>2. argv'[i] = entries[i - Len(argv)]
          BY <1>2, <4>1
        <4>3. \A j \in 1 .. Len(entries) : (entries[j].at = 0 /\ entries[j].string \in Text)
                                           \/ entries[j].at \in 1 .. Len(line')
          BY DEF EntryOK
        <4>4. QED  BY <4>1, <4>2, <4>3 DEF EntryOK
      <3>3. QED  BY <3>1, <3>2
    <2>4. QED  BY <2>1, <2>3 DEF EntriesOK
  <1> DEFINE cut == [i \in 0 .. m + 1 |-> IF i <= m THEN old[i] ELSE Len(argv) + Len(entries)]
  <1>4. /\ old \in [0 .. m -> 1 .. Len(argv)] /\ old[0] = 1 /\ old[m] = Len(argv)
        /\ \A i \in 1 .. m : CutAt(from, old, i)
    BY <1>0 DEF CutOK
  <1>5. PICK new : new = cut
    OBVIOUS
  <1>6. /\ new \in [0 .. m + 1 -> 1 .. Len(argv')]
        /\ \A i \in 0 .. m : new[i] = old[i]
        /\ new[m + 1] = Len(argv) + Len(entries)
    <2>1. \A i \in 0 .. m : old[i] \in 1 .. Len(argv')
      BY <1>1, <1>2, <1>4
    <2>2. Len(argv) # 0
      <3>1. m \in 0 .. m
        BY <1>1
      <3>2. QED  BY <1>1, <1>4, <3>1
    <2>3. Len(argv) + Len(entries) \in 1 .. Len(argv')
      BY <1>1, <1>2, <2>2
    <2>4. \A i \in 0 .. m + 1 : i <= m => i \in 0 .. m
      BY <1>1
    <2>5. cut \in [0 .. m + 1 -> 1 .. Len(argv')]
      BY <2>1, <2>3, <2>4
    <2>6. \A i \in 0 .. m : i \in 0 .. m + 1 /\ i <= m
      BY <1>1
    <2>7. m + 1 \in 0 .. m + 1 /\ ~(m + 1 <= m)
      BY <1>1
    <2>8. QED  BY <1>5, <2>5, <2>6, <2>7
  <1> HIDE DEF cut
  <1>7. ASSUME NEW i \in 1 .. m
        PROVE  CutAt(from, new, i)'
    <2>1. i \in 0 .. m /\ i - 1 \in 0 .. m /\ m \in 0 .. Len(words)
      BY <1>1
    <2>2. new[i] = old[i] /\ new[i - 1] = old[i - 1] /\ old[i] \in 1 .. Len(argv)
      BY <1>4, <1>6, <2>1
    <2>3. PICK e : e = argv[new[i]]
      OBVIOUS
    <2>4. argv'[new[i]] = e
      BY <1>2, <2>2, <2>3
    <2>5. CutAt(from, new, i)
      BY <1>4, <2>2 DEF CutAt
    <2>6. QED  BY <2>1, <2>3, <2>4, <2>5, CutAtKept
  <1>8. CutAt(from, new, m + 1)'
    <2>1. (m + 1) - 1 = m /\ m \in 0 .. m
      BY <1>1
    <2>2. new[(m + 1) - 1] = Len(argv)
      BY <1>4, <1>6, <2>1
    <2>3. CASE IsLiteral(words[m + 1])
      <3>1. Len(entries) = 1 /\ Holds(entries[1], WordText(words[m + 1]), from[m + 1])'
        BY <2>3
      <3>2. argv'[new[m + 1]] = entries[1] /\ new[m + 1] = Len(argv) + 1
        BY <1>2, <1>6, <3>1
      <3>3. Holds(argv[new[m + 1]], WordText(words[m + 1]), from[m + 1])'
        BY <3>1, <3>2 DEF Holds
      <3>4. QED  BY <2>2, <2>3, <3>2, <3>3, WordsConstant DEF CutAt
    <2>4. CASE ~IsLiteral(words[m + 1])
      <3>1. new[m + 1] >= new[(m + 1) - 1]
        BY <1>1, <1>6, <2>2
      <3>2. QED  BY <2>4, <3>1, WordsConstant DEF CutAt
    <2>5. QED  BY <2>3, <2>4
  <1>9. CutOK(from, new, m + 1)'
    <2>1. \A i \in 1 .. m + 1 : i \in 1 .. m \/ i = m + 1
      BY <1>1
    <2>2. \A i \in 1 .. m + 1 : CutAt(from, new, i)'
      BY <1>7, <1>8, <2>1
    <2>3. 0 \in 0 .. m
      BY <1>1
    <2>4. QED  BY <1>2, <1>4, <1>6, <2>2, <2>3 DEF CutOK
  <1>10. QED  BY <1>3, <1>9 DEF Cuts

\* The words whose entries are in argv: not yet that of the word glob is called for.
Taken(k) == IF pc \in {"glob", "last_glob"} THEN k - 1 ELSE k

ScanInv == \E from, k : Scanned(from, k) /\ Cuts(from, Taken(k))

LEMMA NothingIsEnded ==
    ASSUME Len(line) \in Nat, line' = line
    PROVE  \A end : KeptBefore(end)
  BY DEF KeptBefore

LEMMA ScanStutter ==
    ASSUME ScanInv, EntriesOK, UNCHANGED <<words, line, p, s, argv, pattern>>,
           pc' = pc \/ (pc \in {"main", "parsed"} /\ pc' \in {"main", "parsed"})
    PROVE  ScanInv' /\ EntriesOK'
  <1>1. PICK from, k : Scanned(from, k) /\ Cuts(from, Taken(k))
    BY DEF ScanInv
  <1>2. LineTypeOK' /\ Laid(from)' /\ Untouched(from, k)'
    BY <1>1, LineKept DEF Scanned
  <1>3. PlaceOK(from, k)'
    <2>1. /\ InWord(from, k) => InWord(from, k)'
          /\ BlanksTo(from, k) => BlanksTo(from, k)'
          /\ Called(k) => Called(k)'
      BY WordsConstant DEF InWord, BlanksTo, Called
    <2>2. PlaceOK(from, k)
      BY <1>1 DEF Scanned
    <2>3. CASE pc' = pc
      BY <2>1, <2>2, <2>3 DEF PlaceOK
    <2>4. CASE pc \in {"main", "parsed"} /\ pc' \in {"main", "parsed"}
      BY <2>2, <2>4 DEF PlaceOK
    <2>5. QED  BY <2>3, <2>4
  <1>4. PICK m : m = Taken(k)
    OBVIOUS
  <1>5. Taken(k)' = m
    BY <1>4 DEF Taken
  <1>6. /\ k \in 0 .. Len(words) /\ Len(words) \in Nat /\ Len(line) \in Nat
        /\ m \in 0 .. Len(words)
    <2>1. k \in 0 .. Len(words) /\ Len(words) \in Nat /\ Len(line) \in Nat
      BY <1>1, ScannedFacts
    <2>2. pc \in {"glob", "last_glob"} => k > 0
      BY <1>1 DEF Scanned, PlaceOK, Called
    <2>3. QED  BY <1>4, <2>1, <2>2 DEF Taken
  <1>7. Cuts(from, m)'
    <2>1. Cuts(from, m) /\ LineTypeOK /\ Laid(from)
      BY <1>1, <1>4 DEF Scanned
    <2>2. KeptBefore(from[m])
      BY <1>6, NothingIsEnded
    <2>3. QED  BY <1>6, <2>1, <2>2, CutsKept
  <1>8. Cuts(from, Taken(k))'
    BY <1>5, <1>7 DEF Cuts, CutOK
  <1>9. EntriesOK'
    BY EntriesKept
  <1>10. QED  BY <1>2, <1>3, <1>8, <1>9 DEF ScanInv, Scanned

\* The scan of a word or of blanks goes on, or ends, with or without a word.
LEMMA ScanOn ==
    ASSUME NEW from, NEW k, Scanned(from, k), Cuts(from, k), EntriesOK, NEW l, Scanned(from, l)',
           words' = words, argv' = argv, KeptBefore(from[k]),
           \/ l = k /\ pc' \notin {"glob", "last_glob"}
           \/ l = k + 1 /\ pc' \in {"glob", "last_glob"}
    PROVE  ScanInv' /\ EntriesOK'
  <1>1. k \in 0 .. Len(words) /\ LineTypeOK /\ Laid(from)
    BY ScannedFacts DEF Scanned
  <1>2. Cuts(from, k)'
    BY <1>1, CutsKept
  <1>3. Taken(l)' = k
    BY <1>1, ScannedFacts DEF Taken
  <1>4. Cuts(from, Taken(l))'
    BY <1>2, <1>3 DEF Cuts, CutOK
  <1>5. EntriesOK'
    BY EntriesKept DEF KeptBefore
  <1>6. QED  BY <1>4, <1>5 DEF ScanInv

LEMMA ScanQuoted ==
    ASSUME ScanInv, EntriesOK, Quoted
    PROVE  ScanInv' /\ EntriesOK'
  <1>0. pc = "scan" /\ pc' = "scan" /\ words' = words
    BY Zenon DEF Quoted
  <1>1. PICK from, k : Scanned(from, k) /\ Cuts(from, k)
    BY <1>0 DEF ScanInv, Taken, Cuts, CutOK
  <1>2. /\ k \in 0 .. Len(words) - 1 /\ Scanned(from, k + 1)' /\ KeptBefore(from[k])
    BY <1>1, QuotedPlace
  <1>3. PICK a \in 1 .. Len(line) : a = p + 1 /\ Holds(InLine(a), WordText(words[k + 1]), from[k + 1])'
    BY <1>1, QuotedPlace
  <1> DEFINE entries == <<InLine(a)>>
  <1>4. argv' = argv \o entries
    BY <1>3 DEF Quoted, argv_append
  <1>5. /\ entries \in Seq({InLine(a)}) /\ Len(entries) = 1 /\ entries[1] = InLine(a)
    OBVIOUS
  <1> HIDE DEF entries
  <1>6. EntryOK(InLine(a))'
    BY <1>2 DEF EntryOK, InLine, KeptBefore
  <1>7. \A i \in 1 .. Len(entries) : EntryOK(entries[i])'
    <2>1. \A i \in 1 .. Len(entries) : entries[i] = InLine(a)
      BY <1>5
    <2>2. QED  BY <1>6, <2>1 DEF EntryOK
  <1>8. Len(entries) = 1 /\ Holds(entries[1], WordText(words[k + 1]), from[k + 1])'
    BY <1>3, <1>5 DEF Holds
  <1>9. PICK e : e = entries
    OBVIOUS
  <1>10. EntriesOK' /\ Cuts(from, k + 1)'
    <2>1. /\ e \in Seq({InLine(a)}) /\ argv' = argv \o e
          /\ \A i \in 1 .. Len(e) : EntryOK(e[i])'
          /\ Len(e) = 1 /\ Holds(e[1], WordText(words[k + 1]), from[k + 1])'
      BY <1>4, <1>5, <1>7, <1>8, <1>9
    <2>2. LineTypeOK /\ Laid(from)
      BY <1>1 DEF Scanned
    <2>3. QED  BY <1>0, <1>1, <1>2, <2>1, <2>2, CutsMore
  <1>11. Cuts(from, Taken(k + 1))'
    <2>1. Taken(k + 1)' = k + 1
      BY <1>0 DEF Taken
    <2>2. QED  BY <1>10, <2>1 DEF Cuts, CutOK
  <1>12. QED  BY <1>2, <1>10, <1>11 DEF ScanInv

LEMMA ScanExpanded ==
    ASSUME ScanInv, EntriesOK, LiteralGlob, pathv \in Seq(Text), Expanded
    PROVE  ScanInv' /\ EntriesOK'
  <1>0. /\ pc \in {"glob", "last_glob"} /\ pc' \notin {"glob", "last_glob"}
        /\ words' = words /\ line' = line /\ gpc = "done"
    BY Zenon DEF Expanded
  <1>1. PICK from, k : Scanned(from, k) /\ Cuts(from, k - 1)
    BY <1>0 DEF ScanInv, Taken, Cuts, CutOK
  <1>2. /\ Scanned(from, k)' /\ k \in 1 .. Len(words) /\ pattern = WordText(words[k]) /\ Bare(words[k])
    BY <1>1, ExpandedPlace
  <1>3. Len(words) \in Nat /\ Len(line) \in Nat
    BY <1>1, ScannedFacts
  <1> DEFINE entries == [i \in DOMAIN pathv |-> OfGlob(pathv[i])]
             S == {OfGlob(w) : w \in Text}
             m == k - 1
  <1>4. argv' = argv \o entries
    BY Zenon DEF Expanded, argv_append
  <1>5. entries \in Seq(S)
    <2>1. DOMAIN pathv = 1 .. Len(pathv) /\ Len(pathv) \in Nat
      OBVIOUS
    <2>2. entries \in [1 .. Len(pathv) -> S]
      BY <2>1
    <2> HIDE DEF entries, S
    <2>3. QED  BY <2>1, <2>2, FunctionsAreSequences
  <1>6. IsLiteral(words[k]) => Len(entries) = 1 /\ entries[1] = OfGlob(WordText(words[k]))
    <2> SUFFICES ASSUME IsLiteral(words[k])
                 PROVE  Len(entries) = 1 /\ entries[1] = OfGlob(WordText(words[k]))
      OBVIOUS
    <2>1. IsPlain(pattern)
      BY <1>2 DEF IsLiteral, IsPlain
    <2>2. pathv = <<pattern>>
      BY <1>0, <2>1 DEF LiteralGlob
    <2>3. entries = [i \in {1} |-> OfGlob(pattern)]
      BY <2>2
    <2>4. [i \in {1} |-> OfGlob(pattern)] = <<OfGlob(pattern)>>
      OBVIOUS
    <2>5. entries = <<OfGlob(pattern)>>
      BY <2>3, <2>4
    <2> HIDE DEF entries
    <2>6. QED  BY <1>2, <2>5
  <1> HIDE DEF entries
  <1>7. PICK e : e = entries
    OBVIOUS
  <1>8. \A i \in 1 .. Len(e) : EntryOK(e[i])'
    <2>1. \A i \in 1 .. Len(e) : e[i] \in S
      BY <1>5, <1>7
    <2>2. \A w \in Text : EntryOK(OfGlob(w))'
      BY DEF EntryOK, OfGlob
    <2>3. QED  BY <2>1, <2>2 DEF EntryOK
  <1>9. IsLiteral(words[m + 1]) =>
            Len(e) = 1 /\ Holds(e[1], WordText(words[m + 1]), from[m + 1])'
    <2>1. m + 1 = k
      BY <1>2
    <2>2. PICK w : w = WordText(words[k])
      OBVIOUS
    <2>3. WordText(words[k])' = w
      BY <1>0, <2>2, WordsConstant
    <2>4. IsLiteral(words[k]) => Len(e) = 1 /\ e[1].at = 0 /\ e[1].string = w
      BY <1>6, <1>7, <2>2 DEF OfGlob
    <2>5. IsLiteral(words[k]) => Len(e) = 1 /\ Holds(e[1], WordText(words[k]), from[k])'
      BY <2>3, <2>4 DEF Holds
    <2> HIDE DEF m
    <2>6. QED  BY <2>1, <2>5
  <1>10. m \in 0 .. Len(words) - 1
    BY <1>2, <1>3
  <1> HIDE DEF m
  <1>11. EntriesOK' /\ Cuts(from, m + 1)'
    <2>1. e \in Seq(S) /\ argv' = argv \o e
      BY <1>4, <1>5, <1>7
    <2>2. LineTypeOK /\ Laid(from) /\ KeptBefore(from[m]) /\ Cuts(from, m)
      BY <1>0, <1>1, <1>3, NothingIsEnded DEF Scanned, m
    <2> HIDE DEF S
    <2>3. QED  BY <1>0, <1>8, <1>9, <1>10, <2>1, <2>2, CutsMore
  <1>12. Cuts(from, Taken(k))'
    <2>1. Taken(k)' = m + 1
      BY <1>0, <1>2 DEF Taken, m
    <2>2. QED  BY <1>11, <2>1 DEF Cuts, CutOK
  <1>13. QED  BY <1>2, <1>11, <1>12 DEF ScanInv

\* What main sees of the line.
LEMMA StringAtIsText ==
    ASSUME LineTypeOK, NEW i \in 1 .. Len(line)
    PROVE  StringAt(i) \in Text
  <1> DEFINE I == {q \in i .. Len(line) : line[q] = EOS}
             r == SelectInSubSeq(line, i, Len(line), LAMBDA c : c = EOS)
  <1>1. line \in Seq(Chars \cup {EOS}) /\ line[Len(line)] = EOS /\ Len(line) \in Nat
    BY DEF LineTypeOK
  <1>2. r = IF I # {} THEN Min(I) ELSE 0
    BY DEF SelectInSubSeq
  <1>3. Len(line) \in I /\ I \subseteq Nat
    BY <1>1
  <1>4. r \in I /\ \A q \in I : r <= q
    <2> HIDE DEF I, r
    <2>1. QED  BY <1>2, <1>3, FirstOf
  <1>5. r \in i .. Len(line) /\ \A q \in i .. r - 1 : line[q] \in Chars
    <2>1. r \in i .. Len(line)
      BY <1>4
    <2> HIDE DEF r
    <2>2. ASSUME NEW q \in i .. r - 1
          PROVE  line[q] \in Chars
      <3>1. q \in i .. Len(line) /\ ~(r <= q)
        BY <1>1, <2>1
      <3>2. line[q] # EOS
        BY <1>4, <3>1
      <3>3. QED  BY <1>1, <3>1, <3>2
    <2>3. QED  BY <2>1, <2>2
  <1> HIDE DEF r
  <1>6. SubSeq(line, i, r - 1) \in Seq(Chars)
    BY <1>1, <1>5, SubSeqProperties
  <1>7. QED  BY <1>6 DEF StringAt, r, Text

LEMMA HeldArgument ==
    ASSUME LineTypeOK, NEW e, NEW w \in Text, NEW end \in 0 .. Len(line), Holds(e, w, end)
    PROVE  Argument(e) = w
  <1>1. CASE e.at = 0 /\ e.string = w
    BY <1>1 DEF Argument
  <1>2. CASE /\ e.at \in 1 .. Len(line) /\ e.at + Len(w) < end /\ line[e.at + Len(w)] = EOS
             /\ \A j \in 1 .. Len(w) : line[e.at + j - 1] = w[j]
    <2> DEFINE a == e.at
               b == a + Len(w)
    <2>1. /\ line \in Seq(Chars \cup {EOS}) /\ Len(line) \in Nat /\ Len(w) \in Nat
          /\ \A j \in 1 .. Len(w) : w[j] \in Chars
      BY DEF LineTypeOK, Text
    <2>2. a \in Nat \ {0} /\ b \in a .. Len(line) /\ line[b] = EOS
      BY <1>2, <2>1
    <2>3. \A j \in 1 .. Len(w) : line[a + j - 1] = w[j]
      BY <1>2
    <2> HIDE DEF a
    <2>4. SubSeq(line, a, a + Len(w) - 1) = w
      BY <2>1, <2>2, <2>3, TextThere
    <2>5. \A q \in a .. b - 1 : line[q] # EOS
      <3> SUFFICES ASSUME NEW q \in a .. b - 1 PROVE line[q] # EOS
        OBVIOUS
      <3>1. q - a + 1 \in 1 .. Len(w) /\ a + (q - a + 1) - 1 = q
        BY <2>1, <2>2
      <3>2. line[q] \in Chars
        BY <2>1, <2>3, <3>1
      <3>3. QED  BY <3>2, SpecialChars
    <2>6. b - 1 = a + Len(w) - 1
      BY <2>1, <2>2
    <2> HIDE DEF b
    <2>7. StringAt(a) = SubSeq(line, a, b - 1)
      BY <2>1, <2>2, <2>5, FirstEnd
    <2>10. StringAt(a) = w
      BY <2>4, <2>6, <2>7, Zenon
    <2>8. a # 0
      BY <2>2
    <2>9. QED  BY <2>8, <2>10 DEF Argument, a
  <1>3. QED  BY <1>1, <1>2 DEF Holds

\* What the command line is known to be at any time.
LineInv ==
    /\ DirsOfFrames /\ Room
    /\ FilesTypeOK /\ MatchTypeOK /\ LiteralGlob
    /\ EntriesOK /\ ScanInv

LEMMA ScanStays ==
    ASSUME ScanInv, EntriesOK
    PROVE  LiteralsStay
  <1> SUFFICES ASSUME pc \in {"main", "parsed"}
               PROVE  \E cut \in [0..Len(words) -> DOMAIN argv] :
                        /\ cut[0] = 1 /\ cut[Len(words)] = Len(argv)
                        /\ \A i \in DOMAIN words :
                              IF IsLiteral(words[i])
                              THEN cut[i] = cut[i - 1] + 1 /\ Argument(argv[cut[i]]) = WordText(words[i])
                              ELSE cut[i] >= cut[i - 1]
    BY DEF LiteralsStay
  <1>1. PICK from, k : Scanned(from, k) /\ Cuts(from, k)
    BY DEF ScanInv, Taken, Cuts, CutOK
  <1>2. k = Len(words) /\ LineTypeOK /\ Laid(from)
    BY <1>1 DEF Scanned, PlaceOK
  <1>3. PICK cut : CutOK(from, cut, k)
    BY <1>1 DEF Cuts
  <1>4. Len(words) \in Nat /\ DOMAIN words = 1 .. Len(words) /\ \A i \in 1 .. Len(words) : WordOK(words[i])
    BY <1>2, LinesFacts DEF LineTypeOK
  <1>5. /\ cut \in [0 .. Len(words) -> 1 .. Len(argv)] /\ cut[0] = 1 /\ cut[Len(words)] = Len(argv)
        /\ \A i \in 1 .. Len(words) : CutAt(from, cut, i)
    BY <1>2, <1>3 DEF CutOK
  <1>6. ASSUME NEW i \in 1 .. Len(words)
        PROVE  IF IsLiteral(words[i])
               THEN cut[i] = cut[i - 1] + 1 /\ Argument(argv[cut[i]]) = WordText(words[i])
               ELSE cut[i] >= cut[i - 1]
    <2>1. CASE IsLiteral(words[i])
      <3>1. cut[i] = cut[i - 1] + 1 /\ Holds(argv[cut[i]], WordText(words[i]), from[i])
        BY <1>5, <2>1 DEF CutAt
      <3>2. WordText(words[i]) \in Text
        BY <1>4, WrittenFacts
      <3>3. from[i] \in 0 .. Len(line)
        <4>1. i \in 0 .. Len(words) /\ from \in [0 .. Len(words) -> 1 .. Len(line)]
          BY <1>2, <1>4 DEF Laid
        <4>2. QED  BY <4>1
      <3>4. Argument(argv[cut[i]]) = WordText(words[i])
        BY <1>2, <3>1, <3>2, <3>3, HeldArgument
      <3>5. QED  BY <2>1, <3>1, <3>4
    <2>2. CASE ~IsLiteral(words[i])
      BY <1>5, <2>2 DEF CutAt
    <2>3. QED  BY <2>1, <2>2
  <1>7. DOMAIN argv = 1 .. Len(argv)
    BY DEF EntriesOK
  <1>8. QED  BY <1>4, <1>5, <1>6, <1>7

------------------------------------------------------------------------------
(* Every step keeps it *)

LEMMA ProgramNameIsText == ProgramName \in Text
  <1> DEFINE back == "\\"
  <1>1. Program \in Seq(Chars) /\ "/" \in Chars
    BY LinesFacts, CharsAssumption, Zenon DEF Text
  <1>2. ProgramName = [i \in DOMAIN Program |-> IF Program[i] = back THEN "/" ELSE Program[i]]
    BY Zenon DEF ProgramName
  <1> HIDE DEF back
  <1>3. DOMAIN Program = 1 .. Len(Program) /\ Len(Program) \in Nat
    BY <1>1
  <1>4. ProgramName \in [1 .. Len(Program) -> Chars]
    BY <1>1, <1>2, <1>3
  <1>5. QED  BY <1>3, <1>4, FunctionsAreSequences DEF Text

\* The scanner stands before the first word, which no entry is yet for.
LEMMA StartScans ==
    ASSUME words \in Lines, LineTypeOK, p = 1, s = 1, pc = "scan",
           NEW e, argv = <<e>>, NEW from, Laid(from), Untouched(from, 0)
    PROVE  ScanInv
  <1>1. Len(words) \in Nat /\ Len(line) \in Nat
    BY LinesFacts DEF LineTypeOK
  <1>2. from[0] = 1 /\ 1 \in 1 .. Len(line)
    BY <1>1 DEF Laid
  <1>3. PlaceOK(from, 0)
    BY <1>1, <1>2 DEF PlaceOK, BlanksTo
  <1>4. Scanned(from, 0)
    BY <1>3 DEF Scanned
  <1>5. Taken(0) = 0
    BY DEF Taken
  <1>6. Len(argv) = 1
    OBVIOUS
  <1>7. CutOK(from, [i \in 0 .. 0 |-> 1], 0)
    BY <1>6 DEF CutOK
  <1>8. Cuts(from, Taken(0))
    BY <1>5, <1>7 DEF Cuts
  <1>9. QED  BY <1>4, <1>8 DEF ScanInv

LEMMA StartGlobs ==
    ASSUME tree \in InitialTrees, changes = 0, always = tree, ever = tree,
           gpc = "idle", pattern = <<>>, path = <<>>, pat = <<>>, dirs = <<>>, pathv = <<>>,
           aborted = FALSE
    PROVE  FilesTypeOK /\ MatchTypeOK /\ LiteralGlob
  <1>1. FilesTypeOK
    BY FilesAssumption DEF FilesTypeOK
  <1>2. <<>> \in Seq(Text) /\ <<>> \in Text /\ <<>> \in Seq(Tokens)
    BY EmptySeq, TextFacts
  <1>3. DOMAIN dirs = {}
    OBVIOUS
  <1>4. aborted \in BOOLEAN
    BY Zenon
  <1>5. QED  BY <1>1, <1>2, <1>3, <1>4 DEF MatchTypeOK, LiteralGlob

LEMMA InitLine == Init => LineInv
  <1> SUFFICES ASSUME Init PROVE LineInv
    OBVIOUS
  <1>1. DirsOfFrames /\ Room
    BY InitDirs, InitRoom
  <1>2. /\ tree \in InitialTrees /\ changes = 0 /\ always = tree /\ ever = tree
        /\ gpc = "idle" /\ pattern = <<>> /\ path = <<>> /\ pat = <<>> /\ dirs = <<>> /\ pathv = <<>>
        /\ aborted = FALSE
    BY Zenon DEF Init, GlobInit
  <1>3. FilesTypeOK /\ MatchTypeOK /\ LiteralGlob
    BY <1>2, StartGlobs
  <1> DEFINE e == [at |-> 0, string |-> ProgramName]
  <1>4. words \in Lines /\ p = 1 /\ s = 1 /\ pc = "scan" /\ argv = <<e>>
    BY Zenon DEF Init
  <1>5. EntryOK(e)
    BY ProgramNameIsText DEF EntryOK
  <1> HIDE DEF e
  <1>6. EntriesOK
    <2>1. Len(argv) = 1 /\ argv[1] = e
      BY <1>4
    <2>2. argv \in Seq(ToSet(argv))
      BY <1>1 DEF Room
    <2>3. QED  BY <1>5, <2>1, <2>2 DEF EntriesOK
  <1>7. \A b, l \in Seq(Spaces \cap Chars) :
           b # <<>> /\ line = Line(words, b, l) => ScanInv
    <2> SUFFICES ASSUME NEW b \in Seq(Spaces \cap Chars), NEW l \in Seq(Spaces \cap Chars),
                        b # <<>>, line = Line(words, b, l)
                 PROVE  ScanInv
      OBVIOUS
    <2>1. PICK from : LineTypeOK /\ Laid(from) /\ Untouched(from, 0)
      BY <1>4, StartLaid
    <2>2. QED  BY <1>4, <2>1, StartScans
  <1>8. ScanInv
    <2>1. PICK blank \in Blanks, last \in {<<>>, <<" ">>} : line = Line(words, blank, last)
      BY Zenon DEF Init
    <2>2. blank \in Seq(Spaces \cap Chars) /\ blank # <<>>
      BY LinesFacts, Zenon
    <2>3. <<>> \in Seq(Spaces \cap Chars)
      BY EmptySeq, Zenon
    <2>4. last \in Seq(Spaces \cap Chars)
      BY <2>3, OneBlank, Zenon
    <2>5. QED  BY <1>7, <2>1, <2>2, <2>4, Zenon
  <1>9. QED  BY <1>1, <1>3, <1>6, <1>8 DEF LineInv

LEMMA NextLine ==
    ASSUME LineInv, [Next]_vars
    PROVE  LineInv'
  <1>0. DirsOfFrames' /\ Room'
    BY NextDirs, NextRoom DEF LineInv
  <1>1. FilesTypeOK /\ MatchTypeOK /\ LiteralGlob /\ EntriesOK /\ ScanInv /\ dirs \in Seq(ToSet(dirs))
    BY DEF LineInv, DirsOfFrames
  <1>2. ASSUME UNCHANGED glob_t
        PROVE  MatchTypeOK' /\ LiteralGlob'
    BY <1>1, <1>2 DEF MatchTypeOK, LiteralGlob, glob_t, FrameTypeOK
  <1>3. ASSUME UNCHANGED files
        PROVE  FilesTypeOK'
    BY <1>1, <1>3, GlobStepFiles
  <1>4. CASE Quoted
    <2>1. UNCHANGED <<files, glob_t>>
      BY <1>4, Zenon DEF Quoted
    <2>2. ScanInv' /\ EntriesOK'
      BY <1>1, <1>4, ScanQuoted
    <2>3. QED  BY <1>0, <1>2, <1>3, <2>1, <2>2 DEF LineInv
  <1>5. CASE WithinWord \/ Blank \/ LineEnd
    <2>1. /\ UNCHANGED <<files, glob_t>> /\ words' = words /\ argv' = argv /\ line' = line
          /\ pc = "scan" /\ pc' \notin {"glob", "last_glob"}
      <3>1. /\ UNCHANGED <<files, glob_t>> /\ words' = words /\ argv' = argv /\ line' = line
            /\ pc = "scan" /\ (pc' = "scan" \/ pc' = "main")
        BY <1>5, Zenon DEF WithinWord, Blank, LineEnd, setargv_vars
      <3>2. QED  BY <3>1
    <2>2. PICK from, k : Scanned(from, k) /\ Cuts(from, k)
      BY <1>1, <2>1 DEF ScanInv, Taken, Cuts, CutOK
    <2>3. Scanned(from, k)'
      BY <1>5, <2>2, WithinWordPlace, BlankPlace, LineEndPlace
    <2>4. KeptBefore(from[k])
      BY <2>1, <2>2, ScannedFacts, NothingIsEnded
    <2>5. ScanInv' /\ EntriesOK'
      BY <1>1, <2>1, <2>2, <2>3, <2>4, ScanOn
    <2>6. QED  BY <1>0, <1>2, <1>3, <2>1, <2>5 DEF LineInv
  <1>6. CASE WordEnd \/ LastWord
    <2>1. /\ words' = words /\ argv' = argv /\ pc = "scan" /\ pc' \in {"glob", "last_glob"}
      <3>1. /\ words' = words /\ argv' = argv /\ pc = "scan" /\ (pc' = "glob" \/ pc' = "last_glob")
        BY <1>6, Zenon DEF WordEnd, LastWord
      <3>2. QED  BY <3>1
    <2>2. PICK from, k : Scanned(from, k) /\ Cuts(from, k)
      BY <1>1, <2>1 DEF ScanInv, Taken, Cuts, CutOK
    <2>3. /\ Scanned(from, k + 1)' /\ KeptBefore(from[k])
          /\ \E w \in Text : GlobCall(w)
      <3>1. CASE WordEnd
        BY <2>2, <3>1, WordEndPlace
      <3>2. CASE LastWord
        <4>1. line' = line
          BY <3>2, Zenon DEF LastWord
        <4>2. KeptBefore(from[k])
          BY <2>2, <4>1, ScannedFacts, NothingIsEnded
        <4>3. QED  BY <2>2, <3>2, <4>2, LastWordPlace
      <3>3. QED  BY <1>6, <3>1, <3>2
    <2>4. PICK l : l = k + 1
      OBVIOUS
    <2>5. ScanInv' /\ EntriesOK'
      BY <1>1, <2>1, <2>2, <2>3, <2>4, ScanOn
    <2>6. PICK w \in Text : GlobCall(w)
      BY <2>3
    <2>7. FilesTypeOK' /\ MatchTypeOK' /\ LiteralGlob'
      BY <1>1, <2>6, CallTypes, CallLiteral DEF LineInv
    <2>8. QED  BY <1>0, <2>5, <2>7 DEF LineInv
  <1>7. CASE Expanded
    <2>1. /\ gpc' = "idle"
          /\ UNCHANGED <<files, pattern, path, pat, dirs, open, pathv, aborted>>
      BY <1>7, Zenon DEF Expanded
    <2>2. pathv \in Seq(Text)
      BY <1>1 DEF MatchTypeOK
    <2>3. ScanInv' /\ EntriesOK'
      BY <1>1, <1>7, <2>2, ScanExpanded
    <2>4. MatchTypeOK' /\ LiteralGlob'
      BY <1>1, <2>1 DEF MatchTypeOK, LiteralGlob, FrameTypeOK
    <2>5. QED  BY <1>0, <1>3, <2>1, <2>3, <2>4 DEF LineInv
  <1>8. CASE Globbing
    <2>1. GlobStep /\ UNCHANGED <<words, line, p, s, argv, pc>>
      BY <1>8, Zenon DEF Globbing, setargv_vars
    <2>2. UNCHANGED <<files, pattern>>
      BY <2>1 DEF GlobStep, Glob2End, Opendir, Readdir, Closedir, GlobReturn
    <2>3. ScanInv' /\ EntriesOK'
      BY <1>1, <2>1, <2>2, ScanStutter
    <2>4. FilesTypeOK' /\ MatchTypeOK' /\ LiteralGlob'
      BY <1>1, <1>3, <2>1, <2>2, GlobStepTypes, GlobStepLiteral
    <2>5. QED  BY <1>0, <2>3, <2>4 DEF LineInv
  <1>9. CASE ReadOption \/ OptionsRead \/ Restart
    <2>1. /\ UNCHANGED <<files, glob_t>> /\ UNCHANGED <<words, line, p, s, argv, pattern>>
          /\ pc \in {"main", "parsed"} /\ pc' \in {"main", "parsed"}
      <3>1. /\ UNCHANGED <<files, glob_t>> /\ UNCHANGED <<words, line, p, s, argv, pattern>>
            /\ (pc = "main" \/ pc \in {"main", "parsed"}) /\ (pc' = pc \/ pc' = "main" \/ pc' = "parsed")
        BY <1>9, Zenon DEF ReadOption, OptionsRead, Restart, setargv_vars, glob_t
      <3>2. QED  BY <3>1
    <2>2. ScanInv' /\ EntriesOK'
      BY <1>1, <2>1, ScanStutter
    <2>3. QED  BY <1>0, <1>2, <1>3, <2>1, <2>2 DEF LineInv
  <1>10. CASE Others
    <2>1. Change /\ UNCHANGED <<words, line, p, s, argv, pc>> /\ UNCHANGED glob_t
      BY <1>10, Zenon DEF Others, Change, setargv_vars
    <2>2. pattern' = pattern
      BY <2>1 DEF glob_t
    <2>3. ScanInv' /\ EntriesOK'
      BY <1>1, <2>1, <2>2, ScanStutter
    <2>4. QED  BY <1>0, <1>1, <1>2, <2>1, <2>3, ChangeFiles DEF LineInv
  <1>11. CASE UNCHANGED vars
    <2>1. UNCHANGED <<files, glob_t>> /\ UNCHANGED <<words, line, p, s, argv, pattern, pc>>
      BY <1>11, Zenon DEF vars, setargv_vars, glob_t
    <2>2. ScanInv' /\ EntriesOK'
      BY <1>1, <2>1, ScanStutter
    <2>3. QED  BY <1>0, <1>2, <1>3, <2>1, <2>2 DEF LineInv
  <1>12. QED
    BY <1>4, <1>5, <1>6, <1>7, <1>8, <1>9, <1>10, <1>11 DEF Next, ProgramStep

\* Whatever the other words stand for and whoever changes the files, a quoted word or
\* one without wildcards is in argv as it was written, once and in its place
\* (ceargv.c:84-105).
THEOREM LiteralsAlwaysStay == Spec => []LiteralsStay
  <1>1. LineInv /\ [Next]_vars => LineInv'
    BY NextLine
  <1>2. LineInv => LiteralsStay
    BY ScanStays DEF LineInv
  <1>3. QED  BY InitLine, <1>1, <1>2, PTL DEF Spec

------------------------------------------------------------------------------
(* The types of getopt's variables *)

Places == [arg : Nat, pos : Nat \ {0}]

GetoptKept ==
    /\ ostr \in OptStrings /\ optind \in Nat \ {0} /\ optreset \in BOOLEAN
    /\ place \in Places /\ optarg \in Places \cup {NULL}
    /\ seen \in Seq(ToSet(seen)) /\ \A i \in DOMAIN seen : Len(seen[i]) = 3

LEMMA KeptIsTyped == GetoptKept => GetoptTypeOK
  BY DEF GetoptKept, GetoptTypeOK, Places

LEMMA InitGetopt ==
    ASSUME GetoptInit
    PROVE  GetoptKept
  <1>1. /\ ostr \in OptStrings /\ optind = 1 /\ optreset = FALSE /\ place = EMSG /\ seen = <<>>
        /\ optarg = NULL
    BY Zenon DEF GetoptInit
  <1>2. optreset \in BOOLEAN
    BY <1>1, Zenon
  <1>3. place \in Places
    BY <1>1 DEF EMSG, Places
  <1>4. seen \in Seq(ToSet(seen)) /\ \A i \in DOMAIN seen : Len(seen[i]) = 3
    BY <1>1, EmptySeq
  <1>5. optind \in Nat \ {0}
    BY <1>1
  <1>7. optarg \in Places \cup {NULL}
    BY <1>1, Zenon
  <1>6. QED  BY <1>1, <1>2, <1>3, <1>4, <1>5, <1>7, Zenon DEF GetoptKept

LEMMA StutterGetopt ==
    ASSUME GetoptKept, UNCHANGED getopt_vars
    PROVE  GetoptKept'
  BY DEF GetoptKept, getopt_vars, ToSet

\* Another result.
LEMMA ResultTyped ==
    ASSUME GetoptKept, NEW a, NEW b, NEW c, seen' = Append(seen, <<a, b, c>>)
    PROVE  seen' \in Seq(ToSet(seen')) /\ \A i \in DOMAIN seen' : Len(seen'[i]) = 3
  <1> DEFINE r == <<a, b, c>>
             S == ToSet(seen) \cup {r}
  <1>1. Len(r) = 3
    OBVIOUS
  <1> HIDE DEF r
  <1>2. seen \in Seq(S)
    BY DEF GetoptKept
  <1>3. seen' = Append(seen, r)
    BY DEF r
  <1>4. r \in S
    OBVIOUS
  <1> HIDE DEF S
  <1>5. /\ seen' \in Seq(S) /\ DOMAIN seen = 1 .. Len(seen) /\ DOMAIN seen' = 1 .. Len(seen) + 1
        /\ Len(seen) \in Nat /\ seen'[Len(seen) + 1] = r /\ \A i \in 1 .. Len(seen) : seen'[i] = seen[i]
    <2>1. \A q \in Seq(S) : /\ Append(q, r) \in Seq(S) /\ DOMAIN q = 1 .. Len(q) /\ Len(q) \in Nat
                            /\ DOMAIN Append(q, r) = 1 .. Len(q) + 1
                            /\ Append(q, r)[Len(q) + 1] = r
                            /\ \A i \in 1 .. Len(q) : Append(q, r)[i] = q[i]
      BY <1>4
    <2>2. QED  BY <1>2, <1>3, <2>1
  <1>6. seen' \in Seq(ToSet(seen'))
    BY <1>5, SeqOfItsElements
  <1>7. \A i \in 1 .. Len(seen) : Len(seen[i]) = 3
    BY <1>5 DEF GetoptKept
  <1>8. ASSUME NEW i \in DOMAIN seen'
        PROVE  Len(seen'[i]) = 3
    <2>1. i \in 1 .. Len(seen) \/ i = Len(seen) + 1
      BY <1>5
    <2>2. QED  BY <1>1, <1>5, <1>7, <2>1
  <1>9. QED  BY <1>6, <1>8

LEMMA PlacesTyped ==
    ASSUME GetoptKept, NEW args
    PROVE  Rest(args) \in Places /\ EMSG \in Places
  <1>1. Here(args) \in Places
    BY DEF GetoptKept, Here, Places
  <1>2. PICK h \in Places : h = Here(args)
    BY <1>1
  <1>3. [h EXCEPT !.pos = @ + 1] \in Places
    BY DEF Places
  <1>4. QED  BY <1>2, <1>3 DEF Rest, After, Places, EMSG

LEMMA GetoptStepTypes ==
    ASSUME GetoptKept, NEW args, GetoptLetter(args) \/ GetoptMinusOne(args)
    PROVE  GetoptKept'
  <1>1. ostr' = ostr /\ optreset' = FALSE
    BY DEF GetoptLetter, GetoptMinusOne, GetoptEnd, GetoptDash, GetoptUnknown, GetoptFlag, GetoptAttached,
           GetoptSeparate, GetoptMissing, GetoptNeeds, GetoptReads, Returns
  <1>2. place' = Rest(args) \/ place' = EMSG
    BY DEF GetoptLetter, GetoptMinusOne, GetoptEnd, GetoptDash, GetoptUnknown, GetoptFlag, GetoptAttached,
           GetoptSeparate, GetoptMissing, GetoptNeeds
  <1>3. optind' = optind \/ optind' = optind + 1 \/ optind' = optind + 2
    BY DEF GetoptLetter, GetoptMinusOne, GetoptEnd, GetoptDash, GetoptUnknown, GetoptFlag, GetoptAttached,
           GetoptSeparate, GetoptMissing, Passed
  <1>4. seen' = seen \/ \E a, b, c : seen' = Append(seen, <<a, b, c>>)
    BY DEF GetoptLetter, GetoptMinusOne, GetoptEnd, GetoptDash, GetoptUnknown, GetoptFlag, GetoptAttached,
           GetoptSeparate, GetoptMissing, Returns
  <1>5. place' \in Places
    BY <1>2, PlacesTyped DEF Places, EMSG
  <1>6. optind' \in Nat \ {0}
    BY <1>3 DEF GetoptKept
  <1>7. seen' \in Seq(ToSet(seen')) /\ \A i \in DOMAIN seen' : Len(seen'[i]) = 3
    <2>1. CASE seen' = seen
      BY <2>1 DEF GetoptKept
    <2>2. CASE \E a, b, c : seen' = Append(seen, <<a, b, c>>)
      BY <2>2, ResultTyped
    <2>3. QED  BY <1>4, <2>1, <2>2
  <1>8. optreset' \in BOOLEAN /\ ostr' \in OptStrings
    BY <1>1, Zenon DEF GetoptKept
  <1>10. \/ optarg' = optarg \/ optarg' = NULL \/ optarg' = Rest(args)
         \/ optarg' = [arg |-> optind + 2, pos |-> 1]
    BY DEF GetoptLetter, GetoptMinusOne, GetoptEnd, GetoptDash, GetoptUnknown, GetoptFlag, GetoptAttached,
           GetoptSeparate, GetoptMissing
  <1>11. [arg |-> optind + 2, pos |-> 1] \in Places
    BY DEF GetoptKept, Places
  <1>12. optarg' \in Places \cup {NULL}
    BY <1>10, <1>11, PlacesTyped, Zenon DEF GetoptKept
  <1>9. QED  BY <1>5, <1>6, <1>7, <1>8, <1>12, Zenon DEF GetoptKept

------------------------------------------------------------------------------
(* All types *)

Kept == LineInv /\ GetoptKept /\ restarted \in BOOLEAN

LEMMA NextKept ==
    ASSUME Kept, [Next]_vars
    PROVE  Kept'
  <1>1. LineInv'
    BY NextLine DEF Kept
  <1>2. UNCHANGED getopt_vars \/ ReadOption \/ OptionsRead \/ Restart
    BY Zenon DEF Next, ProgramStep, Quoted, WithinWord, Blank, WordEnd, LastWord, Expanded, LineEnd,
                 Globbing, Others, vars
  <1>3. GetoptKept'
    <2>1. CASE UNCHANGED getopt_vars
      BY <2>1, StutterGetopt DEF Kept
    <2>2. CASE ReadOption \/ OptionsRead
      <3>1. PICK args : args = Arguments
        OBVIOUS
      <3>2. GetoptLetter(args) \/ GetoptMinusOne(args)
        BY <2>2, <3>1, Zenon DEF ReadOption, OptionsRead
      <3>3. QED  BY <3>2, GetoptStepTypes DEF Kept
    <2>3. CASE Restart
      <3>1. /\ optind' = 1 /\ optreset' = TRUE /\ seen' = <<>> /\ UNCHANGED <<ostr, place, optarg>>
        BY <2>3, Zenon DEF Restart
      <3>2. optreset' \in BOOLEAN /\ ostr' \in OptStrings
        BY <3>1, Zenon DEF Kept, GetoptKept
      <3>3. place' \in Places' /\ optind' \in Nat \ {0}
        BY <3>1 DEF Kept, GetoptKept, Places
      <3>4. seen' \in Seq(ToSet(seen')) /\ \A i \in DOMAIN seen' : Len(seen'[i]) = 3
        BY <3>1, EmptySeq
      <3>6. optarg' \in Places \cup {NULL}
        BY <3>1, Zenon DEF Kept, GetoptKept
      <3>5. QED  BY <3>2, <3>3, <3>4, <3>6, Zenon DEF GetoptKept
    <2>4. QED  BY <1>2, <2>1, <2>2, <2>3
  <1>4. restarted' \in BOOLEAN
    <2>1. restarted' = restarted \/ restarted' = TRUE
      BY Zenon DEF Next, ProgramStep, Quoted, WithinWord, Blank, WordEnd, LastWord, Expanded, LineEnd,
                   Globbing, ReadOption, OptionsRead, Restart, Others, vars
    <2>2. QED  BY <2>1, Zenon DEF Kept
  <1>5. QED  BY <1>1, <1>3, <1>4 DEF Kept

LEMMA InitKept == Init => Kept
  <1> SUFFICES ASSUME Init PROVE Kept
    OBVIOUS
  <1>1. LineInv
    BY InitLine
  <1>2. GetoptInit /\ restarted = FALSE
    BY Zenon DEF Init
  <1>3. GetoptKept
    BY <1>2, InitGetopt
  <1>4. restarted \in BOOLEAN
    BY <1>2, Zenon
  <1>5. QED  BY <1>1, <1>3, <1>4 DEF Kept

LEMMA KeptIsTypeOK == Kept => TypeOK
  <1> SUFFICES ASSUME Kept PROVE TypeOK
    OBVIOUS
  <1>1. /\ DirsOfFrames /\ Room /\ FilesTypeOK /\ MatchTypeOK /\ EntriesOK /\ ScanInv
        /\ GetoptKept /\ restarted \in BOOLEAN
    BY DEF Kept, LineInv
  <1>2. open \in Nat
    BY <1>1 DEF DirsOfFrames
  <1>3. GlobTypeOK
    BY <1>1, <1>2 DEF GlobTypeOK, FilesTypeOK, MatchTypeOK
  <1>4. PICK from, k : Scanned(from, k)
    BY <1>1 DEF ScanInv
  <1>5. /\ words \in Lines /\ line \in Seq(Chars \cup {EOS}) /\ s \in 1 .. p
        /\ p \in 1 .. Len(line) /\ Len(line) \in Nat
    BY <1>4, ScannedFacts
  <1>6. p \in 1 .. (Len(line) + 1)
    BY <1>5
  <1>7. pc \in {"scan", "glob", "last_glob", "main", "parsed"}
    BY <1>4 DEF Scanned, PlaceOK
  <1>8. argc = Len(argv) /\ size \in Nat
    BY <1>1 DEF Room
  <1>9. QED  BY <1>1, <1>3, <1>5, <1>6, <1>7, <1>8, KeptIsTyped DEF TypeOK

\* The types of all variables hold always.  That a pointer stays within the line, that
\* the parts of a pattern and of a path are sequences of characters, and that getopt's
\* place is one, takes all that is known of the scanner (ceargv.c:63-118), of glob
\* (glob.c:318-715) and of getopt (getopt.c:61-139).
THEOREM AlwaysTypeOK == Spec => []TypeOK
  <1>1. Kept /\ [Next]_vars => Kept'
    BY NextKept
  <1>2. QED  BY InitKept, <1>1, KeptIsTypeOK, PTL DEF Spec

------------------------------------------------------------------------------
(* The options *)

LEMMA ArgumentsAreText ==
    ASSUME ScanInv, EntriesOK
    PROVE  Args(Arguments)
  <1>1. PICK from, k, cut : Scanned(from, k) /\ CutOK(from, cut, Taken(k))
    BY DEF ScanInv, Cuts
  <1>2. LineTypeOK
    BY <1>1 DEF Scanned
  <1>3. /\ DOMAIN argv = 1 .. Len(argv) /\ Len(argv) \in Nat
        /\ \A i \in 1 .. Len(argv) : EntryOK(argv[i])
    BY DEF EntriesOK
  <1>4. \A e : EntryOK(e) => Argument(e) \in Text
    BY <1>2, StringAtIsText DEF EntryOK, Argument
  <1>5. Arguments \in [1 .. Len(argv) -> Text]
    BY <1>3, <1>4 DEF Arguments
  <1>6. Arguments \in Seq(Text) /\ Len(Arguments) = Len(argv)
    BY <1>3, <1>5
  <1>7. Len(argv) # 0
    <2>1. Taken(k) \in Nat
      <3>1. k \in 0 .. Len(words) /\ Len(words) \in Nat
        BY <1>1, ScannedFacts
      <3>2. pc \in {"glob", "last_glob"} => k > 0
        BY <1>1 DEF Scanned, PlaceOK, Called
      <3>3. QED  BY <3>1, <3>2 DEF Taken
    <2>2. PICK m \in Nat : m = Taken(k)
      BY <2>1
    <2>3. cut \in [0 .. m -> 1 .. Len(argv)]
      BY <1>1, <2>2 DEF CutOK
    <2>4. cut[0] \in 1 .. Len(argv)
      BY <2>3
    <2>5. QED  BY <1>3, <2>4
  <1>8. QED  BY <1>3, <1>6, <1>7 DEF Args

\* getopt is where it starts, or within the arguments, or behind their options.
OptionsInv ==
    /\ pc \notin {"main", "parsed"} => seen = <<>> /\ optind = 1 /\ place = EMSG
    /\ pc = "main" => \E R : IsReading(R, Arguments) /\ Ready(R, Arguments)
    /\ pc = "parsed" => \E R : IsReading(R, Arguments) /\ Done(R, Arguments)

LEMMA DoneIsRead ==
    ASSUME ScanInv, EntriesOK, OptionsInv
    PROVE  OptionsAsRead
  <1> SUFFICES ASSUME pc = "parsed"
               PROVE  seen = Reading(Arguments).out /\ optind = Reading(Arguments).optind
    BY DEF OptionsAsRead
  <1>1. PICK args : args = Arguments
    OBVIOUS
  <1>2. Args(args)
    BY <1>1, ArgumentsAreText
  <1>3. PICK R : IsReading(R, args) /\ Done(R, args)
    BY <1>1 DEF OptionsInv
  <1>4. Readings(args) = R
    BY <1>2, <1>3, ReadingIsReadings
  <1>5. Reading(args) = [out |-> IF R[Len(args)].waits = NULL THEN R[Len(args)].out
                                 ELSE Append(R[Len(args)].out, Missing(R[Len(args)].waits)),
                         optind |-> R[Len(args)].optind]
    BY <1>4, Zenon DEF Reading
  <1>6. seen = Reading(args).out /\ optind = Reading(args).optind
    BY <1>3, <1>5 DEF Done
  <1>7. QED  BY <1>1, <1>6

\* getopt is called for the first time, or starts over.
LEMMA StartIsReady ==
    ASSUME NEW args, Args(args), ostr' = ostr, seen' = <<>>, optind' = 1, ~Scanning(args)'
    PROVE  \E R : (IsReading(R, args) /\ Ready(R, args))'
  <1>1. PICK R : IsReading(R, args)
    BY ReadingExists
  <1>2. IsReading(R, args)'
    BY <1>1, SameReading
  <1>3. R[1] = [out |-> <<>>, optind |-> 1, waits |-> NULL, ended |-> FALSE]
    BY <1>1 DEF IsReading, Start
  <1>4. 1 \in 1 .. Len(args)
    BY DEF Args
  <1>5. Between(R, args)'
    BY <1>3, <1>4 DEF Between
  <1>6. QED  BY <1>2, <1>5 DEF Ready

LEMMA InitOptions == Init => OptionsInv
  <1> SUFFICES ASSUME Init PROVE OptionsInv
    OBVIOUS
  <1>1. pc = "scan" /\ seen = <<>> /\ optind = 1 /\ place = EMSG
    BY Zenon DEF Init, GetoptInit
  <1>2. QED  BY <1>1 DEF OptionsInv

LEMMA NextOptions ==
    ASSUME LineInv, LineInv', OptionsInv, [Next]_vars
    PROVE  OptionsInv'
  <1>1. PICK args : args = Arguments'
    OBVIOUS
  <1>2. Args(args)
    <2>1. Args(Arguments)'
      BY ArgumentsAreText, PTL DEF LineInv
    <2>2. QED  BY <1>1, <2>1 DEF Args, Text
  <1>3. ASSUME UNCHANGED <<argv, line>>
        PROVE  Arguments = args
    BY <1>1, <1>3 DEF Arguments, Argument, StringAt, SelectInSubSeq
  <1>4. CASE Quoted \/ WithinWord \/ Blank \/ WordEnd \/ LastWord \/ Globbing \/ Others \/ UNCHANGED vars
    <2>1. UNCHANGED <<ostr, optind, optreset, place, seen>>
      BY <1>4, Zenon DEF Quoted, WithinWord, Blank, WordEnd, LastWord, Globbing, Others, vars, getopt_vars
    <2>2. \/ pc' \notin {"main", "parsed"} /\ pc \notin {"main", "parsed"}
          \/ pc' = pc /\ UNCHANGED <<argv, line>>
      <3>1. \/ pc = "scan" /\ (pc' = "scan" \/ pc' = "glob" \/ pc' = "last_glob")
            \/ pc' = pc /\ UNCHANGED <<argv, line>>
        BY <1>4, Zenon DEF Quoted, WithinWord, Blank, WordEnd, LastWord, Globbing, Others, vars, setargv_vars
      <3>2. QED  BY <3>1
    <2>3. CASE pc' \notin {"main", "parsed"} /\ pc \notin {"main", "parsed"}
      BY <2>1, <2>3 DEF OptionsInv, EMSG
    <2>4. CASE pc' = pc /\ UNCHANGED <<argv, line>>
      <3>1. Arguments = args
        BY <1>3, <2>4
      <3>2. \A R : IsReading(R, args) => IsReading(R, args)'
        BY <2>1, SameReading
      <3>3. \A R : Ready(R, args) => Ready(R, args)'
        BY <2>1, SameOptions DEF Ready, Between, Within, Behind, Missed, Scanning, At, Open, EMSG, Reads, Results
      <3>4. \A R : Done(R, args) => Done(R, args)'
        BY <2>1, SameOptions DEF Done
      <3>5. QED  BY <1>1, <2>1, <2>4, <3>1, <3>2, <3>3, <3>4 DEF OptionsInv, EMSG
    <2>5. QED  BY <2>2, <2>3, <2>4
  <1>5. CASE Expanded \/ LineEnd
    <2>1. UNCHANGED <<ostr, optind, optreset, place, seen>> /\ pc \notin {"main", "parsed"}
          /\ (pc' = "scan" \/ pc' = "main")
      <3>1. /\ UNCHANGED <<ostr, optind, optreset, place, seen>> /\ (pc = "scan" \/ pc \in {"glob", "last_glob"})
            /\ (pc' = "scan" \/ pc' = "main")
        BY <1>5, Zenon DEF Expanded, LineEnd, getopt_vars
      <3>2. QED  BY <3>1
    <2>2. seen' = <<>> /\ optind' = 1 /\ place' = EMSG
      BY <2>1 DEF OptionsInv
    <2>3. CASE pc' = "scan"
      BY <2>2, <2>3 DEF OptionsInv, EMSG
    <2>4. CASE pc' = "main"
      <3>1. ~Scanning(args)'
        BY <2>2 DEF Scanning, At, EMSG
      <3>2. \E R : (IsReading(R, args) /\ Ready(R, args))'
        BY <1>2, <2>1, <2>2, <3>1, StartIsReady
      <3>3. QED  BY <1>1, <2>4, <3>2 DEF OptionsInv
    <2>5. QED  BY <2>1, <2>3, <2>4
  <1>6. CASE Restart
    <2>1. /\ ostr' = ostr /\ seen' = <<>> /\ optind' = 1 /\ optreset' = TRUE /\ pc' = "main"
      BY <1>6, Zenon DEF Restart
    <2>2. ~Scanning(args)'
      BY <2>1, Zenon DEF Scanning
    <2>3. \E R : (IsReading(R, args) /\ Ready(R, args))'
      BY <1>2, <2>1, <2>2, StartIsReady
    <2>4. QED  BY <1>1, <2>1, <2>3 DEF OptionsInv
  <1>7. CASE ReadOption \/ OptionsRead
    <2>1. /\ pc = "main" /\ UNCHANGED <<argv, line>>
      BY <1>7, Zenon DEF ReadOption, OptionsRead, setargv_vars
    <2>2. Arguments = args
      BY <1>3, <2>1
    <2>3. /\ ostr' = ostr
          /\ \/ pc' = "main" /\ GetoptLetter(args)
             \/ pc' = "parsed" /\ GetoptMinusOne(args)
      <3>1. \/ pc' = "main" /\ GetoptLetter(args)
            \/ pc' = "parsed" /\ GetoptMinusOne(args)
        BY <1>7, <2>1, <2>2, Zenon DEF ReadOption, OptionsRead
      <3>2. GetoptLetter(args) \/ GetoptMinusOne(args) => ostr' = ostr
        BY DEF GetoptLetter, GetoptMinusOne, GetoptEnd, GetoptDash, GetoptUnknown, GetoptFlag,
               GetoptAttached, GetoptSeparate, GetoptMissing, GetoptNeeds, GetoptReads, Returns
      <3>3. QED  BY <3>1, <3>2
    <2>4. PICK R : IsReading(R, args) /\ Ready(R, args)
      BY <2>1, <2>2 DEF OptionsInv
    <2>5. IsReading(R, args)'
      BY <2>3, <2>4, SameReading
    <2>6. CASE pc' = "main" /\ GetoptLetter(args)
      <3>1. Ready(R, args)'
        BY <1>2, <2>4, <2>6, LetterStep
      <3>2. QED  BY <1>1, <2>5, <2>6, <3>1 DEF OptionsInv
    <2>7. CASE pc' = "parsed" /\ GetoptMinusOne(args)
      <3>1. Done(R, args)'
        BY <1>2, <2>4, <2>7, MinusOneStep
      <3>2. QED  BY <1>1, <2>5, <2>7, <3>1 DEF OptionsInv
    <2>8. QED  BY <2>3, <2>6, <2>7
  <1>8. QED  BY <1>4, <1>5, <1>6, <1>7 DEF Next, ProgramStep

\* For every option string and whatever the arguments are, the calls of getopt up to the
\* one that returns -1 return the options as they are written, and optind is behind
\* them, also when the program starts over in the middle of an argument (getopt.c:86-137).
THEOREM OptionsAreRead == Spec => []OptionsAsRead
  <1>1. LineInv /\ OptionsInv /\ [Next]_vars => LineInv' /\ OptionsInv'
    BY NextLine, NextOptions
  <1>2. LineInv /\ OptionsInv => OptionsAsRead
    BY DoneIsRead DEF LineInv
  <1>3. QED  BY InitLine, InitOptions, <1>1, <1>2, PTL DEF Spec
================================================================================
