---------------------------- MODULE CurrentDirProofs ----------------------------
(***************************************************************************)
(* What a file name reaches, for every tree, every name without doubled    *)
(* separators and every current directory.                                 *)
(*                                                                         *)
(* Three functions are computed segment by segment: the string fixpath.c   *)
(* writes, the names between its separators, and the walk of UnixCwd.      *)
(* Each is given by its first value and its steps (Iterates), and they are *)
(* compared step by step: what has been written is what has been walked,   *)
(* with at most one segment before it (Spells).                            *)
(***************************************************************************)
EXTENDS CurrentDir, SequenceTheorems, WellFoundedInduction, TLAPS

------------------------------------------------------------------------------
(* Induction over an interval, as a fact about sets *)

\* A set with 0 that has i + 1 where it has i holds all numbers up to n.
LEMMA IntervalInduction ==
    ASSUME NEW n \in Nat, NEW T, 0 \in T, \A i \in 0 .. n - 1 : i \in T => i + 1 \in T
    PROVE  0 .. n \subseteq T
  <1> DEFINE out == (0 .. n) \ T
             less == {p \in Nat \X Nat : p[1] < p[2]}
  <1> SUFFICES ASSUME out # {} PROVE FALSE
    OBVIOUS
  <1>1. out \subseteq Nat
    OBVIOUS
  <1>0. IsWellFoundedOn(less, Nat)
    BY NatLessThanWellFounded DEF OpToRel
  <1>2. PICK i \in out : \A j \in out : ~(<<j, i>> \in less)
    <2> HIDE DEF out, less
    <2>1. QED  BY <1>0, <1>1, WFMin
  <1>3. i \in 1 .. n /\ i - 1 \in 0 .. n - 1 /\ i - 1 \notin out
    <2>1. i \in 1 .. n
      OBVIOUS
    <2>2. <<i - 1, i>> \in less
      BY <2>1
    <2>3. QED  BY <1>2, <2>1, <2>2
  <1>4. i - 1 \in T
    BY <1>3
  <1>5. i \in T
    BY <1>3, <1>4
  <1>6. QED  BY <1>5

\* g goes from first in n steps.
Iterates(g, first, step, n) ==
    g[0] = first /\ \A i \in 1 .. n : g[i] = step[<<g[i - 1], i>>]

\* There is a function with a given first value and given steps.
LEMMA Iteration ==
    ASSUME NEW S, NEW first \in S, NEW n \in Nat, NEW step \in [S \X (1 .. n) -> S]
    PROVE  \E g \in [0 .. n -> S] : Iterates(g, first, step, n)
  <1> DEFINE Up(g, m) == g \in [0 .. n -> S] /\ g[0] = first
                         /\ \A i \in 1 .. m : g[i] = step[<<g[i - 1], i>>]
             T == {m \in 0 .. n : \E g : Up(g, m)}
  <1>1. 0 \in T
    <2>1. Up([i \in 0 .. n |-> first], 0)
      OBVIOUS
    <2> HIDE DEF Up
    <2>2. QED  BY <2>1
  <1>2. ASSUME NEW m \in 0 .. n - 1, m \in T
        PROVE  m + 1 \in T
    <2>1. PICK g : Up(g, m)
      BY <1>2
    <2> DEFINE h == [g EXCEPT ![m + 1] = step[<<g[m], m + 1>>]]
    <2>2. m + 1 \in 1 .. n /\ g \in [0 .. n -> S] /\ g[m] \in S
      BY <2>1
    <2>3. h \in [0 .. n -> S] /\ h[m + 1] = step[<<g[m], m + 1>>]
          /\ \A i \in 0 .. m : h[i] = g[i]
      BY <2>2
    <2>4. ASSUME NEW i \in 1 .. m + 1
          PROVE  h[i] = step[<<h[i - 1], i>>]
      <3>1. CASE i = m + 1
        BY <2>3, <3>1
      <3>2. CASE i # m + 1
        BY <2>1, <2>3, <3>2
      <3>3. QED  BY <3>1, <3>2
    <2>5. Up(h, m + 1)
      BY <2>1, <2>3, <2>4
    <2> HIDE DEF Up, h
    <2>6. QED  BY <2>2, <2>5
  <1>3. n \in T
    <2> HIDE DEF T
    <2>1. QED  BY <1>1, <1>2, IntervalInduction
  <1>4. QED  BY <1>3 DEF Iterates

------------------------------------------------------------------------------
(* Strings *)

\* The literals are strings; they are named for the provers, which do not know it.
\* The segment of a string that is a separator alone is named for the SMT solver,
\* which has no empty string.
Lone == ""
Segment == STRING \cup {Lone, ".", ".."}
Proper == Segment \ {Lone, ".", ".."}
Name == Seq(Segment)

LEMMA Literals ==
    /\ Lone \in Segment /\ "." \in Segment /\ ".." \in Segment
    /\ Lone # "." /\ Lone # ".." /\ "." # ".."
    /\ \A seg : seg \in Proper <=> seg \in Segment /\ seg \notin {Lone, ".", ".."}
  <1>1. Lone # "." /\ Lone # ".." /\ "." # ".."
    BY Zenon DEF Lone
  <1>2. QED  BY <1>1 DEF Segment, Proper

LEMMA OneSegment ==
    ASSUME NEW seg \in Segment
    PROVE  /\ <<seg>> \in Name /\ Len(<<seg>>) = 1 /\ <<seg>>[1] = seg
           /\ <<seg>> # <<>> /\ Append(<<>>, seg) = <<seg>>
  <1>1. <<seg>> \in Name /\ Len(<<seg>>) = 1 /\ <<seg>>[1] = seg
    BY DEF Name
  <1>2. Len(<<>>) = 0
    OBVIOUS
  <1>3. <<>> \in Seq(Segment)
    OBVIOUS
  <1>4. /\ Append(<<>>, seg) \in Seq(Segment) /\ Len(Append(<<>>, seg)) = 1
        /\ Append(<<>>, seg)[1] = seg
    BY <1>2, <1>3, AppendProperties
  <1>5. Append(<<>>, seg) = <<seg>>
    BY <1>1, <1>4, SeqEqual DEF Name
  <1>6. QED  BY <1>1, <1>2, <1>5

LEMMA EmptyOrLonger ==
    ASSUME NEW S, NEW s \in Seq(S)
    PROVE  /\ Len(s) \in Nat /\ (s = <<>> <=> Len(s) = 0)
           /\ <<>> \in Seq(S) /\ Len(<<>>) = 0
  <1>1. Len(<<>>) = 0 /\ <<>> \in Seq(S)
    OBVIOUS
  <1>2. s # <<>> => Len(s) \in Nat \ {0}
    BY EmptySeq
  <1>3. Len(s) \in Nat
    OBVIOUS
  <1>4. QED  BY <1>1, <1>2, <1>3

LEMMA FrontOfName ==
    ASSUME NEW S, NEW s \in Seq(S), s # <<>>
    PROVE  /\ Front(s) \in Seq(S) /\ Len(s) \in Nat \ {0} /\ Len(Front(s)) = Len(s) - 1
           /\ \A i \in 1 .. Len(s) - 1 : Front(s)[i] = s[i]
  <1> DEFINE n == Len(s) - 1
  <1>1. n \in Nat
    BY EmptySeq
  <1>2. \A i \in 1 .. n : s[i] \in S
    BY <1>1
  <1>3. Front(s) = SubSeq(s, 1, n) /\ Len(s) = n + 1
    BY <1>1 DEF Front
  <1> HIDE DEF n
  <1>4. /\ SubSeq(s, 1, n) \in Seq(S) /\ Len(SubSeq(s, 1, n)) = n
        /\ \A i \in 1 .. n : SubSeq(s, 1, n)[i] = s[i]
    BY <1>1, <1>2, SubSeqProperties
  <1>5. QED  BY <1>1, <1>3, <1>4

LEMMA NameFacts ==
    ASSUME NEW s \in Name
    PROVE  /\ Len(s) \in Nat /\ (s = <<>> <=> Len(s) = 0)
           /\ s # <<>> => Front(s) \in Name /\ Len(Front(s)) = Len(s) - 1
           /\ s # <<>> => (Front(s) = <<>> <=> Len(s) = 1)
  <1>1. s \in Seq(Segment)
    BY DEF Name
  <1>2. Len(s) \in Nat /\ (s = <<>> <=> Len(s) = 0)
    BY <1>1, EmptyOrLonger
  <1>3. s # <<>> => Front(s) \in Seq(Segment) /\ Len(Front(s)) = Len(s) - 1
    BY <1>1, FrontOfName
  <1>4. ASSUME s # <<>> PROVE Front(s) = <<>> <=> Len(s) = 1
    <2>1. PICK shorter \in Seq(Segment) : shorter = Front(s) /\ Len(shorter) = Len(s) - 1
      BY <1>3, <1>4
    <2>2. shorter = <<>> <=> Len(shorter) = 0
      BY EmptyOrLonger
    <2>3. QED  BY <1>2, <2>1, <2>2
  <1>5. QED  BY <1>2, <1>3, <1>4 DEF Name

\* Written, with the lone separator named.
LEMMA WrittenCases ==
    ASSUME NEW out, NEW seg, NEW end
    PROVE  Written(out, seg, end) =
              IF seg = "." THEN IF end /\ out = <<>> THEN <<Lone>> ELSE out
              ELSE IF seg = ".." /\ end /\ Len(out) = 1 THEN <<Lone>>
              ELSE IF seg = ".." /\ out # <<>> THEN Front(out)
              ELSE Append(out, seg)
  BY Zenon DEF Written, Lone

LEMMA WrittenType ==
    ASSUME NEW out \in Name, NEW seg \in Segment, NEW end \in BOOLEAN
    PROVE  Written(out, seg, end) \in Name
  <1>1. <<Lone>> \in Name
    BY OneSegment, Literals
  <1>2. out # <<>> => Front(out) \in Name
    BY FrontOfName DEF Name
  <1>3. Append(out, seg) \in Name
    BY DEF Name
  <1>4. QED  BY <1>1, <1>2, <1>3, WrittenCases

\* XCECanonicalizePath by its steps.
LEMMA CanonicalizedBySteps ==
    ASSUME NEW s \in Name
    PROVE  \E out \in [0 .. Len(s) -> Name] :
              /\ out[0] = <<>>
              /\ \A i \in 1 .. Len(s) : out[i] = Written(out[i - 1], s[i], i = Len(s))
              /\ XCECanonicalizePath(s) = out[Len(s)]
  <1> DEFINE n == Len(s)
             step == [v \in Name \X (1 .. n) |-> Written(v[1], s[v[2]], v[2] = n)]
             Is(g) == g = [i \in 0 .. n |->
                              IF i = 0 THEN <<>> ELSE Written(g[i - 1], s[i], i = n)]
             out == CHOOSE g : Is(g)
  <1>1. n \in Nat /\ \A i \in 1 .. n : s[i] \in Segment
    BY DEF Name
  <1>2. step \in [Name \X (1 .. n) -> Name]
    <2>1. ASSUME NEW o \in Name, NEW i \in 1 .. n
          PROVE  Written(o, s[i], i = n) \in Name
      BY <1>1, WrittenType
    <2>2. QED  BY <2>1
  <1>3. PICK g \in [0 .. n -> Name] : Iterates(g, <<>>, step, n)
    <2> HIDE DEF step, n
    <2>1. <<>> \in Name
      BY DEF Name
    <2>2. QED  BY <1>1, <1>2, <2>1, Iteration
  <1>4. ASSUME NEW i \in 1 .. n
        PROVE  g[i] = Written(g[i - 1], s[i], i = n)
    <2>1. g[i - 1] \in Name /\ <<g[i - 1], i>> \in Name \X (1 .. n)
      BY <1>1, <1>3
    <2>2. step[<<g[i - 1], i>>] = Written(g[i - 1], s[i], i = n)
      BY <2>1
    <2>3. QED  BY <1>3, <2>2 DEF Iterates
  <1>5. Is(g)
    BY <1>1, <1>3, <1>4 DEF Iterates
  <1>6. Is(out)
    BY <1>5
  <1>7. XCECanonicalizePath(s) = out[n]
    BY DEF XCECanonicalizePath
  <1> HIDE DEF out
  <1>8. out[0] = <<>> /\ \A i \in 1 .. n : out[i] = Written(out[i - 1], s[i], i = n)
    BY <1>1, <1>6
  <1>9. \A i \in 0 .. n : out[i] \in Name
    <2> DEFINE T == {i \in 0 .. n : out[i] \in Name}
    <2>1. 0 \in T
      <3>1. <<>> \in Name
        BY DEF Name
      <3>2. QED  BY <1>1, <1>8, <3>1
    <2>2. ASSUME NEW i \in 0 .. n - 1, i \in T
          PROVE  i + 1 \in T
      <3>1. out[i + 1] = Written(out[i], s[i + 1], i + 1 = n) /\ i + 1 \in 1 .. n
        BY <1>1, <1>8
      <3>2. s[i + 1] \in Segment /\ out[i] \in Name
        BY <1>1, <2>2, <3>1
      <3>3. out[i + 1] \in Name
        BY <3>1, <3>2, WrittenType
      <3>4. QED  BY <3>1, <3>3
    <2>3. 0 .. n \subseteq T
      <3> HIDE DEF T
      <3>1. QED  BY <1>1, <2>1, <2>2, IntervalInduction
    <2>4. QED  BY <2>3
  <1>10. out \in [0 .. n -> Name]
    BY <1>6, <1>9
  <1>11. QED  BY <1>7, <1>8, <1>10

\* Names by its steps.
LEMMA NamesBySteps ==
    ASSUME NEW s \in Name
    PROVE  \E names \in [0 .. Len(s) -> Name] :
              /\ names[0] = <<>>
              /\ \A i \in 1 .. Len(s) :
                    names[i] = IF s[i] = Lone THEN names[i - 1] ELSE Append(names[i - 1], s[i])
              /\ Names(s) = names[Len(s)]
  <1> DEFINE n == Len(s)
             More(g, i) == IF s[i] = Lone THEN g ELSE Append(g, s[i])
             step == [v \in Name \X (1 .. n) |-> More(v[1], v[2])]
             Is(g) == g = [i \in 0 .. n |-> IF i = 0 THEN <<>> ELSE More(g[i - 1], i)]
             names == CHOOSE g : Is(g)
  <1>1. n \in Nat /\ \A i \in 1 .. n : s[i] \in Segment
    BY DEF Name
  <1>2. <<>> \in Name /\ \A o \in Name, i \in 1 .. n : More(o, i) \in Name
    <2>1. \A o \in Name, seg \in Segment : Append(o, seg) \in Name
      BY DEF Name
    <2>2. <<>> \in Name
      BY DEF Name
    <2>3. QED  BY <1>1, <2>1, <2>2
  <1>3. Names(s) = names[n]
    BY Zenon DEF Names, Lone
  <1> HIDE DEF More
  <1>4. step \in [Name \X (1 .. n) -> Name]
    BY <1>2
  <1>5. PICK g \in [0 .. n -> Name] : Iterates(g, <<>>, step, n)
    <2> HIDE DEF step, n
    <2>1. QED  BY <1>1, <1>2, <1>4, Iteration
  <1>6. ASSUME NEW i \in 1 .. n
        PROVE  g[i] = More(g[i - 1], i)
    <2>1. g[i - 1] \in Name /\ <<g[i - 1], i>> \in Name \X (1 .. n)
      BY <1>1, <1>5
    <2>2. step[<<g[i - 1], i>>] = More(g[i - 1], i)
      BY <2>1
    <2>3. QED  BY <1>5, <2>2 DEF Iterates
  <1>7. Is(g)
    BY <1>1, <1>5, <1>6 DEF Iterates
  <1>8. Is(names)
    BY <1>7
  <1> HIDE DEF names
  <1>9. names[0] = <<>> /\ \A i \in 1 .. n : names[i] = More(names[i - 1], i)
    BY <1>1, <1>8
  <1>10. \A i \in 0 .. n : names[i] \in Name
    <2> DEFINE T == {i \in 0 .. n : names[i] \in Name}
    <2>1. 0 \in T
      BY <1>1, <1>2, <1>9
    <2>2. ASSUME NEW i \in 0 .. n - 1, i \in T
          PROVE  i + 1 \in T
      <3>1. names[i + 1] = More(names[i], i + 1) /\ i + 1 \in 1 .. n
        BY <1>1, <1>9
      <3>2. QED  BY <1>2, <2>2, <3>1
    <2>3. 0 .. n \subseteq T
      <3> HIDE DEF T
      <3>1. QED  BY <1>1, <2>1, <2>2, IntervalInduction
    <2>4. QED  BY <2>3
  <1>11. names \in [0 .. n -> Name]
    BY <1>8, <1>10
  <1>12. \A i \in 1 .. n :
            names[i] = IF s[i] = Lone THEN names[i - 1] ELSE Append(names[i - 1], s[i])
    BY <1>9 DEF More
  <1>13. QED  BY <1>3, <1>9, <1>11, <1>12

\* A walk is at a sequence of proper names, and may have tried to leave the root.
Place == [at : Seq(Proper), refusable : BOOLEAN]

LEMMA StepType ==
    ASSUME NEW w \in Place, NEW seg \in Segment
    PROVE  /\ Unix!Step(w, seg) \in Place
           /\ seg \in {Lone, "."} => Unix!Step(w, seg) = w
           /\ seg \in Proper => /\ Unix!Step(w, seg).at = Append(w.at, seg)
                                /\ Unix!Step(w, seg).refusable = w.refusable
           /\ seg = ".." /\ w.at = <<>> => /\ Unix!Step(w, seg).at = <<>>
                                           /\ Unix!Step(w, seg).refusable
           /\ seg = ".." /\ w.at # <<>> => /\ Unix!Step(w, seg).at = Front(w.at)
                                           /\ Unix!Step(w, seg).refusable = w.refusable
  <1>0. w.at \in Seq(Proper) /\ w.refusable \in BOOLEAN
        /\ w = [at |-> w.at, refusable |-> w.refusable]
    BY DEF Place
  <1>1. /\ seg \in {Lone, "."} => Unix!Step(w, seg) = w
        /\ seg \in Proper => Unix!Step(w, seg) = [w EXCEPT !.at = Append(@, seg)]
        /\ seg = ".." /\ w.at = <<>> => Unix!Step(w, seg) = [w EXCEPT !.refusable = TRUE]
        /\ seg = ".." /\ w.at # <<>> => Unix!Step(w, seg) = [w EXCEPT !.at = Unix!Front(@)]
    <2>1. ".." \notin {"", "."}
      BY Literals DEF Lone
    <2>2. seg \in Proper => seg \notin {"", "."} /\ seg # ".."
      BY Zenon DEF Proper, Lone
    <2>3. QED  BY <2>1, <2>2, Zenon DEF Unix!Step, Lone
  <1>2. CASE seg \in {Lone, "."}
    BY <1>1, <1>2, Literals
  <1>3. CASE seg \in Proper
    <2>1. PICK longer \in Seq(Proper) : longer = Append(w.at, seg)
      BY <1>0, <1>3, AppendProperties
    <2>2. Unix!Step(w, seg) = [at |-> longer, refusable |-> w.refusable]
      BY <1>0, <1>1, <1>3, <2>1 DEF Place
    <2>3. Unix!Step(w, seg) \in Place
      BY <1>0, <2>2 DEF Place
    <2>4. Unix!Step(w, seg).at = longer /\ Unix!Step(w, seg).refusable = w.refusable
      BY <2>2
    <2>5. seg \notin {Lone, "."} /\ seg # ".."
      BY <1>3, Literals
    <2>6. QED  BY <2>1, <2>3, <2>4, <2>5, Zenon
  <1>4. CASE seg = ".." /\ w.at = <<>>
    <2>1. Unix!Step(w, seg) = [at |-> w.at, refusable |-> TRUE]
      BY <1>0, <1>1, <1>4 DEF Place
    <2>2. seg \notin {Lone, "."} /\ seg \notin Proper
      BY <1>4, Literals
    <2>3. Unix!Step(w, seg) \in Place
      BY <1>0, <2>1 DEF Place
    <2>4. Unix!Step(w, seg).at = w.at /\ Unix!Step(w, seg).refusable
      BY <2>1
    <2>5. QED  BY <1>4, <2>2, <2>3, <2>4, Zenon
  <1>5. CASE seg = ".." /\ w.at # <<>>
    <2>1. PICK shorter \in Seq(Proper) : shorter = Front(w.at)
      BY <1>0, <1>5, FrontOfName
    <2>2. Unix!Front(w.at) = shorter
      BY <2>1 DEF Front, Unix!Front
    <2>3. Unix!Step(w, seg) = [at |-> shorter, refusable |-> w.refusable]
      BY <1>0, <1>1, <1>5, <2>2 DEF Place
    <2>4. seg \notin Proper /\ seg \notin {Lone, "."}
      BY <1>5, Literals
    <2>5. QED  BY <1>0, <1>5, <2>1, <2>3, <2>4 DEF Place
  <1>6. QED  BY <1>2, <1>3, <1>4, <1>5, Literals

\* Walk by its steps.
LEMMA WalkBySteps ==
    ASSUME NEW p, NEW segs \in Name, p.segs = segs, NEW first \in Place,
           first = [at |-> IF p.abs THEN <<>> ELSE Names(cdir), refusable |-> FALSE]
    PROVE  \E walked \in [0 .. Len(segs) -> Place] :
              /\ walked[0] = first
              /\ \A i \in 1 .. Len(segs) : walked[i] = Unix!Step(walked[i - 1], segs[i])
              /\ Unix!Walk(p) = walked[Len(segs)]
  <1> DEFINE n == Len(segs)
             More(w, i) == Unix!Step(w, segs[i])
             step == [v \in Place \X (1 .. n) |-> More(v[1], v[2])]
             Is(g) == g = [i \in 0 .. n |-> IF i = 0 THEN first ELSE More(g[i - 1], i)]
             walked == CHOOSE g : Is(g)
  <1>1. n \in Nat /\ \A i \in 1 .. n : segs[i] \in Segment
    BY DEF Name
  <1>2. \A w \in Place, i \in 1 .. n : More(w, i) \in Place
    BY <1>1, StepType
  <1>3. Unix!Walk(p) = walked[n]
    BY Zenon DEF Unix!Walk
  <1> HIDE DEF More
  <1>4. step \in [Place \X (1 .. n) -> Place]
    BY <1>2
  <1>5. PICK g \in [0 .. n -> Place] : Iterates(g, first, step, n)
    <2> HIDE DEF step, n
    <2>1. QED  BY <1>1, <1>2, <1>4, Iteration
  <1> HIDE DEF n
  <1>6. ASSUME NEW i \in 1 .. n
        PROVE  g[i] = More(g[i - 1], i)
    <2> HIDE DEF step
    <2>0. i - 1 \in 0 .. n
      BY <1>1
    <2>1. g[i - 1] \in Place /\ <<g[i - 1], i>> \in Place \X (1 .. n)
      BY <1>5, <2>0
    <2> USE DEF step
    <2>2. step[<<g[i - 1], i>>] = More(g[i - 1], i)
      BY <2>1
    <2>3. QED  BY <1>5, <2>2 DEF Iterates
  <1>7. Is(g)
    BY <1>1, <1>5, <1>6 DEF Iterates
  <1>8. Is(walked)
    BY <1>7
  <1> HIDE DEF walked
  <1>9. walked[0] = first /\ \A i \in 1 .. n : walked[i] = More(walked[i - 1], i)
    <2>1. 0 \in 0 .. n /\ \A i \in 1 .. n : i \in 0 .. n /\ i # 0
      BY <1>1
    <2>2. QED  BY <1>8, <2>1
  <1>10. \A i \in 0 .. n : walked[i] \in Place
    <2> DEFINE T == {i \in 0 .. n : walked[i] \in Place}
    <2>1. 0 \in T
      BY <1>1, <1>9
    <2>2. ASSUME NEW i \in 0 .. n - 1, i \in T
          PROVE  i + 1 \in T
      <3>1. walked[i + 1] = More(walked[i], i + 1) /\ i + 1 \in 1 .. n
        BY <1>1, <1>9
      <3>2. QED  BY <1>2, <2>2, <3>1
    <2>3. 0 .. n \subseteq T
      <3> HIDE DEF T
      <3>1. QED  BY <1>1, <2>1, <2>2, IntervalInduction
    <2>4. QED  BY <2>3
  <1>11. walked \in [0 .. n -> Place]
    BY <1>8, <1>10
  <1>12. QED  BY <1>3, <1>9, <1>11 DEF n, More

------------------------------------------------------------------------------
(* What is written is what is walked *)

\* out is the names of at after d segments, which may be the separator that stands
\* for the root, or the .. of a name that leaves it.
SpellsAfter(d, out, at, refusable) ==
    /\ Len(out) = Len(at) + d
    /\ \A i \in 1 .. Len(at) : out[i + d] = at[i]
    /\ d = 1 => out[1] = Lone \/ (out[1] = ".." /\ refusable)

Spells(out, at, refusable) == \E d \in {0, 1} : SpellsAfter(d, out, at, refusable)

LEMMA AppendSpells ==
    ASSUME NEW out \in Name, NEW at \in Seq(Proper), NEW r \in BOOLEAN,
           Spells(out, at, r), NEW seg \in Proper
    PROVE  Append(out, seg) # <<>> /\ Spells(Append(out, seg), Append(at, seg), r)
  <1>1. PICK d \in {0, 1} : SpellsAfter(d, out, at, r)
    BY DEF Spells
  <1>2. PICK longer : longer = Append(out, seg)
    OBVIOUS
  <1>3. PICK further : further = Append(at, seg)
    OBVIOUS
  <1>4. /\ Len(longer) = Len(out) + 1 /\ longer[Len(out) + 1] = seg
        /\ \A i \in 1 .. Len(out) : longer[i] = out[i]
    <2>1. out \in Seq(Segment) /\ seg \in Segment
      BY DEF Name, Proper
    <2>2. QED  BY <1>2, <2>1, AppendProperties
  <1>5. /\ Len(further) = Len(at) + 1 /\ further[Len(at) + 1] = seg
        /\ \A i \in 1 .. Len(at) : further[i] = at[i]
    BY <1>3, AppendProperties
  <1>6. Len(out) \in Nat /\ Len(at) \in Nat
    BY DEF Name
  <1>7. SpellsAfter(d, longer, further, r)
    <2>1. Len(out) = Len(at) + d /\ \A i \in 1 .. Len(at) : out[i + d] = at[i]
      BY <1>1 DEF SpellsAfter
    <2>2. Len(longer) = Len(further) + d
      BY <1>4, <1>5, <1>6, <2>1
    <2>3. ASSUME NEW i \in 1 .. Len(further)
          PROVE  longer[i + d] = further[i]
      <3>1. CASE i = Len(at) + 1
        BY <1>4, <1>5, <1>6, <2>1, <3>1
      <3>2. CASE i # Len(at) + 1
        <4>1. i \in 1 .. Len(at) /\ i + d \in 1 .. Len(out)
          BY <1>5, <1>6, <2>1, <3>2
        <4>2. QED  BY <1>4, <1>5, <2>1, <4>1
      <3>3. QED  BY <3>1, <3>2
    <2>4. d = 1 => longer[1] = out[1]
      BY <1>4, <1>6, <2>1
    <2>5. QED  BY <1>1, <2>2, <2>3, <2>4 DEF SpellsAfter
  <1>8. longer # <<>>
    BY <1>4, <1>6
  <1>9. QED  BY <1>2, <1>3, <1>7, <1>8 DEF Spells

LEMMA FrontSpells ==
    ASSUME NEW out \in Name, NEW at \in Seq(Proper), NEW r \in BOOLEAN,
           Spells(out, at, r), at # <<>>
    PROVE  out # <<>> /\ Spells(Front(out), Front(at), r)
  <1>1. PICK d \in {0, 1} : SpellsAfter(d, out, at, r)
    BY DEF Spells
  <1>2. Len(at) \in Nat \ {0} /\ Len(out) = Len(at) + d
    BY <1>1, EmptySeq DEF SpellsAfter
  <1>3. out # <<>>
    BY <1>2, EmptySeq
  <1>4. PICK shorter : shorter = Front(out)
    OBVIOUS
  <1>5. PICK nearer : nearer = Front(at)
    OBVIOUS
  <1>6. Len(shorter) = Len(out) - 1 /\ \A i \in 1 .. Len(out) - 1 : shorter[i] = out[i]
    BY <1>3, <1>4, FrontOfName DEF Name
  <1>7. Len(nearer) = Len(at) - 1 /\ \A i \in 1 .. Len(at) - 1 : nearer[i] = at[i]
    BY <1>5, FrontOfName
  <1>8. SpellsAfter(d, shorter, nearer, r)
    <2>1. \A i \in 1 .. Len(at) : out[i + d] = at[i]
      BY <1>1 DEF SpellsAfter
    <2>2. Len(shorter) = Len(nearer) + d
      BY <1>2, <1>6, <1>7
    <2>3. ASSUME NEW i \in 1 .. Len(nearer)
          PROVE  shorter[i + d] = nearer[i]
      <3>1. i \in 1 .. Len(at) /\ i \in 1 .. Len(at) - 1 /\ i + d \in 1 .. Len(out) - 1
        BY <1>2, <1>7
      <3>2. QED  BY <1>6, <1>7, <2>1, <3>1
    <2>4. d = 1 => shorter[1] = out[1]
      BY <1>2, <1>6
    <2>5. QED  BY <1>1, <2>2, <2>3, <2>4 DEF SpellsAfter
  <1>9. QED  BY <1>3, <1>4, <1>5, <1>8 DEF Spells

\* At the root there is at most one segment.
LEMMA SpellsRoot ==
    ASSUME NEW out \in Name, NEW r \in BOOLEAN
    PROVE  /\ Spells(out, <<>>, r) => out = <<>> \/ Len(out) = 1
           /\ Spells(<<>>, <<>>, r) /\ Spells(<<Lone>>, <<>>, r) /\ Spells(<<"..">>, <<>>, TRUE)
           /\ Spells(out, <<>>, r) => Spells(out, <<>>, TRUE)
  <1>1. Len(<<>>) = 0 /\ (Len(out) = 0 => out = <<>>) /\ Len(out) \in Nat
    BY EmptyOrLonger DEF Name
  <1>2. Spells(out, <<>>, r) => out = <<>> \/ Len(out) = 1
    <2>1. ASSUME NEW d \in {0, 1}, SpellsAfter(d, out, <<>>, r)
          PROVE  out = <<>> \/ Len(out) = 1
      <3>1. Len(out) = Len(<<>>) + d
        BY <2>1 DEF SpellsAfter
      <3>2. QED  BY <1>1, <3>1
    <2>2. QED  BY <2>1 DEF Spells
  <1>3. SpellsAfter(0, <<>>, <<>>, r)
    BY <1>1 DEF SpellsAfter
  <1>4. /\ Len(<<Lone>>) = 1 /\ <<Lone>>[1] = Lone
        /\ Len(<<"..">>) = 1 /\ <<"..">>[1] = ".."
    OBVIOUS
  <1>5. SpellsAfter(1, <<Lone>>, <<>>, r) /\ SpellsAfter(1, <<"..">>, <<>>, TRUE)
    <2>1. 1 .. Len(<<>>) = {}
      BY <1>1
    <2>2. QED  BY <1>1, <1>4, <2>1 DEF SpellsAfter
  <1>6. \A d \in {0, 1} : SpellsAfter(d, out, <<>>, r) => SpellsAfter(d, out, <<>>, TRUE)
    BY DEF SpellsAfter
  <1>7. QED  BY <1>2, <1>3, <1>5, <1>6 DEF Spells

\* One segment more is written as it is walked.
LEMMA WrittenSpells ==
    ASSUME NEW out \in Name, NEW w \in Place, Spells(out, w.at, w.refusable),
           NEW seg \in Segment, seg = Lone => out = <<>>, NEW end \in BOOLEAN
    PROVE  /\ Spells(Written(out, seg, end),
                     Unix!Step(w, seg).at, Unix!Step(w, seg).refusable)
           /\ end => Written(out, seg, end) # <<>>
  <1>1. w.at \in Seq(Proper) /\ w.refusable \in BOOLEAN
    BY DEF Place
  <1>2. CASE seg \in {Lone, "."}
    <2>1. Unix!Step(w, seg) = w
      BY <1>2, StepType
    <2>2. out = <<>> => w.at = <<>>
      BY <1>1, FrontSpells
    <2>3. Spells(<<>>, <<>>, w.refusable) /\ Spells(<<Lone>>, <<>>, w.refusable)
      BY <1>1, SpellsRoot
    <2>4. Append(<<>>, Lone) = <<Lone>> /\ <<Lone>> # <<>>
      BY OneSegment, Literals
    <2>5. CASE out = <<>> /\ (end \/ seg = Lone)
      <3>1. Written(out, seg, end) = <<Lone>>
        <4>1. CASE seg = Lone
          BY <2>4, <2>5, <4>1, WrittenCases, Literals
        <4>2. CASE seg = "." /\ end
          BY <2>5, <4>2, WrittenCases
        <4>3. QED  BY <1>2, <2>5, <4>1, <4>2
      <3>2. QED  BY <2>1, <2>2, <2>3, <2>4, <2>5, <3>1
    <2>6. CASE ~(out = <<>> /\ (end \/ seg = Lone))
      <3>1. seg = "." /\ ~(end /\ out = <<>>)
        BY <1>2, <2>6
      <3>2. Written(out, seg, end) = out
        BY <3>1, WrittenCases
      <3>3. QED  BY <2>1, <3>1, <3>2
    <2>7. QED  BY <2>5, <2>6
  <1>3. CASE seg \in Proper
    <2>1. Written(out, seg, end) = Append(out, seg)
      BY <1>3, WrittenCases, Literals
    <2>2. /\ Unix!Step(w, seg).at = Append(w.at, seg)
          /\ Unix!Step(w, seg).refusable = w.refusable
      BY <1>3, StepType
    <2>3. QED  BY <1>1, <1>3, <2>1, <2>2, AppendSpells
  <1>4. CASE seg = ".." /\ w.at = <<>>
    <2>1. Unix!Step(w, seg).at = <<>> /\ Unix!Step(w, seg).refusable = TRUE
      BY <1>4, StepType DEF Place
    <2>2. out = <<>> \/ Len(out) = 1
      BY <1>1, <1>4, SpellsRoot
    <2>3. out = <<>> => Len(out) # 1
      BY NameFacts
    <2>4. Len(out) = 1 => out # <<>> /\ Front(out) = <<>>
      BY <2>3, NameFacts
    <2>5. Append(<<>>, "..") = <<"..">> /\ <<"..">> # <<>> /\ <<Lone>> # <<>>
      BY OneSegment, Literals
    <2>6. \/ Written(out, seg, end) = <<Lone>>
          \/ Written(out, seg, end) = <<"..">>
          \/ Written(out, seg, end) = <<>> /\ ~end
      <3>1. CASE out = <<>>
        BY <1>4, <2>3, <2>5, <3>1, WrittenCases
      <3>2. CASE Len(out) = 1
        BY <1>4, <2>4, <3>2, WrittenCases
      <3>3. QED  BY <2>2, <3>1, <3>2
    <2>7. Spells(<<Lone>>, <<>>, TRUE) /\ Spells(<<"..">>, <<>>, TRUE) /\ Spells(<<>>, <<>>, TRUE)
      BY SpellsRoot
    <2>8. QED  BY <2>1, <2>5, <2>6, <2>7
  <1>5. CASE seg = ".." /\ w.at # <<>>
    <2>1. /\ Unix!Step(w, seg).at = Front(w.at)
          /\ Unix!Step(w, seg).refusable = w.refusable
      BY <1>5, StepType
    <2>2. out # <<>> /\ Spells(Front(out), Front(w.at), w.refusable)
      BY <1>1, <1>5, FrontSpells
    <2>3. Front(out) \in Name /\ (Front(out) = <<>> <=> Len(out) = 1)
      BY <2>2, NameFacts
    <2>4. CASE end /\ Len(out) = 1
      <3>1. Front(out) = <<>>
        BY <2>3, <2>4
      <3>2. Front(w.at) = <<>>
        <4>1. Front(w.at) \in Seq(Proper)
          BY <1>1, <1>5, FrontOfName
        <4>2. Front(out) \in Name
          BY <2>3
        <4>3. ASSUME Front(w.at) # <<>> PROVE FALSE
          <5>1. <<>> \in Name /\ Spells(<<>>, Front(w.at), w.refusable)
            BY <2>2, <3>1, <4>2
          <5>2. <<>> # <<>>
            BY <1>1, <4>1, <4>3, <5>1, FrontSpells
          <5>3. QED  BY <5>2
        <4>4. QED  BY <4>3
      <3>3. Written(out, seg, end) = <<Lone>>
        BY <1>5, <2>4, WrittenCases
      <3>4. Spells(<<Lone>>, <<>>, w.refusable)
        BY <1>1, SpellsRoot
      <3>5. <<Lone>> # <<>>
        BY OneSegment, Literals
      <3>6. QED  BY <2>1, <3>2, <3>3, <3>4, <3>5
    <2>5. CASE ~(end /\ Len(out) = 1)
      <3>1. Written(out, seg, end) = Front(out)
        BY <1>5, <2>2, <2>5, WrittenCases
      <3>2. end => Front(out) # <<>>
        BY <2>3, <2>5
      <3>3. QED  BY <2>1, <2>2, <3>1, <3>2
    <2>6. QED  BY <2>4, <2>5
  <1>6. QED  BY <1>2, <1>3, <1>4, <1>5 DEF Proper

------------------------------------------------------------------------------
(* Directories as chdir keeps them *)

\* Proper names, after a lone separator perhaps: at the root, or when a relative
\* name was taken from there.
Canonical(s) ==
    /\ s \in Name
    /\ \A i \in 1 .. Len(s) : s[i] \in Proper \/ (i = 1 /\ s[i] = Lone)

\* Reading the names of a string gives back what it spells.
LEMMA NamesSpelt ==
    ASSUME NEW s \in Name, NEW at \in Seq(Proper), NEW r, NEW d \in {0, 1},
           SpellsAfter(d, s, at, r), d = 1 => s[1] = Lone
    PROVE  Names(s) = at /\ Canonical(s)
  <1>1. /\ Len(s) \in Nat /\ Len(at) \in Nat /\ Len(s) = Len(at) + d
        /\ \A i \in 1 .. Len(at) : s[i + d] = at[i] /\ at[i] \in Proper
    BY NameFacts DEF SpellsAfter
  <1>2. \A i \in 1 .. Len(s) : s[i] \in Proper \/ (i = 1 /\ d = 1 /\ s[i] = Lone)
    <2>1. ASSUME NEW i \in 1 .. Len(s)
          PROVE  s[i] \in Proper \/ (i = 1 /\ d = 1 /\ s[i] = Lone)
      <3>1. CASE i = 1 /\ d = 1
        BY <3>1
      <3>2. CASE ~(i = 1 /\ d = 1)
        <4>1. i - d \in 1 .. Len(at) /\ (i - d) + d = i
          BY <1>1, <3>2
        <4>2. QED  BY <1>1, <4>1
      <3>3. QED  BY <3>1, <3>2
    <2>2. QED  BY <2>1
  <1>3. Canonical(s)
    BY <1>2 DEF Canonical
  <1>4. PICK names \in [0 .. Len(s) -> Name] :
           /\ names[0] = <<>>
           /\ \A i \in 1 .. Len(s) :
                 names[i] = IF s[i] = Lone THEN names[i - 1] ELSE Append(names[i - 1], s[i])
           /\ Names(s) = names[Len(s)]
    BY NamesBySteps
  <1> DEFINE Read(o, i) == /\ Len(o) = IF i < d THEN 0 ELSE i - d
                           /\ \A j \in 1 .. Len(o) : o[j] = s[j + d]
             T == {i \in 0 .. Len(s) : Read(names[i], i)}
  <1>5. 0 \in T
    <2>1. Len(<<>>) = 0 /\ 0 \in 0 .. Len(s)
      BY <1>1
    <2>2. QED  BY <1>4, <2>1
  <1>6. ASSUME NEW i \in 0 .. Len(s) - 1, i \in T
        PROVE  i + 1 \in T
    <2>1. PICK o \in Name : o = names[i]
      BY <1>1, <1>4
    <2>2. PICK q \in Name : q = names[i + 1]
      BY <1>1, <1>4
    <2>3. i + 1 \in 1 .. Len(s) /\ (i + 1) - 1 = i
      BY <1>1
    <2>4. q = IF s[i + 1] = Lone THEN o ELSE Append(o, s[i + 1])
      BY <1>4, <2>1, <2>2, <2>3
    <2>5. Read(o, i) /\ Len(o) \in Nat
      BY <1>6, <2>1, NameFacts
    <2>6. Read(q, i + 1)
      <3>1. CASE s[i + 1] = Lone
        <4>1. i = 0 /\ d = 1 /\ q = o
          BY <1>2, <2>3, <2>4, <3>1 DEF Proper
        <4>2. QED  BY <2>5, <4>1
      <3>2. CASE s[i + 1] # Lone
        <4>1. i >= d
          BY <1>2, <2>3, <3>2
        <4>2. o \in Seq(Segment) /\ s[i + 1] \in Segment
          BY <2>3 DEF Name
        <4>3. /\ Len(q) = Len(o) + 1 /\ q[Len(o) + 1] = s[i + 1]
              /\ \A j \in 1 .. Len(o) : q[j] = o[j]
          BY <2>4, <3>2, <4>2, AppendProperties
        <4>4. Len(o) = i - d /\ \A j \in 1 .. Len(o) : o[j] = s[j + d]
          BY <2>5, <4>1
        <4>5. Len(q) = i + 1 - d
          BY <4>3, <4>4
        <4>6. ASSUME NEW j \in 1 .. Len(q)
              PROVE  q[j] = s[j + d]
          <5>1. CASE j = Len(o) + 1
            BY <4>3, <4>4, <5>1
          <5>2. CASE j # Len(o) + 1
            BY <2>5, <4>3, <4>4, <5>2
          <5>3. QED  BY <5>1, <5>2
        <4>7. QED  BY <4>1, <4>5, <4>6
      <3>3. QED  BY <3>1, <3>2
    <2>7. QED  BY <2>2, <2>3, <2>6
  <1>7. Len(s) \in T
    <2> HIDE DEF T
    <2>1. 0 .. Len(s) \subseteq T
      BY <1>1, <1>5, <1>6, IntervalInduction
    <2>2. QED  BY <1>1, <2>1
  <1>8. PICK o \in Name : o = Names(s)
    BY <1>1, <1>4
  <1>9. Len(o) = Len(at) /\ \A j \in 1 .. Len(o) : o[j] = s[j + d]
    BY <1>1, <1>4, <1>7, <1>8
  <1>10. \A j \in 1 .. Len(o) : o[j] = at[j]
    BY <1>1, <1>9
  <1>11. at \in Seq(Segment) /\ o \in Seq(Segment)
    BY SeqMonotonic DEF Name, Proper
  <1>12. o = at
    BY <1>9, <1>10, <1>11, SeqEqual
  <1>13. QED  BY <1>3, <1>8, <1>12

LEMMA CanonicalSpells ==
    ASSUME NEW s, Canonical(s)
    PROVE  Names(s) \in Seq(Proper) /\ Spells(s, Names(s), FALSE)
  <1>1. /\ s \in Name /\ Len(s) \in Nat
        /\ \A i \in 1 .. Len(s) : s[i] \in Proper \/ (i = 1 /\ s[i] = Lone)
    BY NameFacts DEF Canonical
  <1> DEFINE d == IF Len(s) > 0 /\ s[1] = Lone THEN 1 ELSE 0
             at == SubSeq(s, d + 1, Len(s))
  <1>2. d \in {0, 1} /\ (d = 1 => s[1] = Lone) /\ Len(s) >= d
    BY <1>1
  <1>3. \A i \in d + 1 .. Len(s) : s[i] \in Proper
    BY <1>1
  <1> HIDE DEF d
  <1>4. /\ at \in Seq(Proper)
        /\ Len(at) = IF d + 1 <= Len(s) THEN Len(s) - (d + 1) + 1 ELSE 0
        /\ \A i \in 1 .. Len(s) - (d + 1) + 1 : at[i] = s[d + 1 + i - 1]
    BY <1>1, <1>2, <1>3, SubSeqProperties
  <1> HIDE DEF at
  <1>5. Len(s) = Len(at) + d /\ Len(s) - (d + 1) + 1 = Len(at)
    BY <1>1, <1>2, <1>4
  <1>6. SpellsAfter(d, s, at, FALSE)
    <2>1. ASSUME NEW i \in 1 .. Len(at)
          PROVE  s[i + d] = at[i]
      <3>1. at[i] = s[d + 1 + i - 1] /\ d + 1 + i - 1 = i + d
        BY <1>1, <1>2, <1>4, <1>5
      <3>2. QED  BY <3>1
    <2>2. QED  BY <1>2, <1>5, <2>1 DEF SpellsAfter
  <1>7. Names(s) = at
    BY <1>1, <1>2, <1>4, <1>6, NamesSpelt
  <1>8. QED  BY <1>2, <1>4, <1>6, <1>7 DEF Spells

\* What is canonical already is written as it stands.
LEMMA CanonicalIsCopied ==
    ASSUME NEW s \in Name, NEW k \in 0 .. Len(s), NEW out \in [0 .. Len(s) -> Name],
           out[0] = <<>>,
           \A i \in 1 .. Len(s) : out[i] = Written(out[i - 1], s[i], i = Len(s)),
           \A i \in 1 .. k : s[i] \in Proper \/ (i = 1 /\ s[i] = Lone)
    PROVE  Len(out[k]) = k /\ \A j \in 1 .. k : out[k][j] = s[j]
  <1> DEFINE Copy(o, i) == Len(o) = i /\ \A j \in 1 .. i : o[j] = s[j]
             T == {i \in 0 .. k : Copy(out[i], i)}
  <1>1. Len(s) \in Nat /\ k \in Nat /\ Len(<<>>) = 0
    BY NameFacts
  <1>2. 0 \in T
    BY <1>1
  <1>3. ASSUME NEW i \in 0 .. k - 1, i \in T
        PROVE  i + 1 \in T
    <2>1. /\ i + 1 \in 1 .. Len(s) /\ i + 1 \in 1 .. k /\ (i + 1) - 1 = i
          /\ i \in 0 .. Len(s) /\ i + 1 \in 0 .. Len(s)
      BY <1>1
    <2>2. PICK o \in Name : o = out[i]
      BY <2>1
    <2>3. PICK q \in Name : q = out[i + 1]
      BY <2>1
    <2>4. s[i + 1] \in Segment /\ o \in Seq(Segment)
      BY <2>1 DEF Name
    <2>5. s[i + 1] \notin {".", ".."}
      BY <2>1, Literals
    <2>6. q = Append(o, s[i + 1])
      BY <2>1, <2>2, <2>3, <2>5, WrittenCases
    <2>7. Copy(o, i)
      BY <1>3, <2>2
    <2>8. Copy(q, i + 1)
      <3>1. /\ Len(q) = Len(o) + 1 /\ q[Len(o) + 1] = s[i + 1]
            /\ \A j \in 1 .. Len(o) : q[j] = o[j]
        BY <2>4, <2>6, AppendProperties
      <3>2. ASSUME NEW j \in 1 .. i + 1
            PROVE  q[j] = s[j]
        BY <2>7, <3>1
      <3>3. QED  BY <2>7, <3>1, <3>2
    <2>9. QED  BY <2>1, <2>3, <2>8
  <1>4. k \in T
    <2> HIDE DEF T
    <2>1. 0 .. k \subseteq T
      BY <1>1, <1>2, <1>3, IntervalInduction
    <2>2. QED  BY <1>1, <2>1
  <1>5. QED  BY <1>4

------------------------------------------------------------------------------
(* What XCEFixPath makes of a name, and what the system answers *)

LEMMA StripCases ==
    ASSUME NEW s \in Name, s # <<>>
    PROVE  \/ Strip(s) = s /\ (Len(s) = 1 \/ s[Len(s)] # Lone)
           \/ Strip(s) = Front(s) /\ Len(s) > 1 /\ s[Len(s)] = Lone
  <1>1. Strip(s) = IF Len(s) > 1 /\ s[Len(s)] = Lone THEN Front(s) ELSE s
    BY Zenon DEF Strip, Last, Lone
  <1>2. Len(s) = 1 \/ Len(s) > 1
    BY NameFacts
  <1>3. QED  BY <1>1, <1>2, Zenon

\* No two separators next to each other in a caller's name.
PlainName(segs) == \A i \in 1 .. Len(segs) - 1 : segs[i] # Lone

LEMMA FixedSpells ==
    ASSUME Canonical(cdir), NEW p, NEW segs \in Name, p.segs = segs, segs # <<>>,
           PlainName(segs)
    PROVE  /\ Unix!Walk(p) \in Place
           /\ XCEFixPath(cdir, p) \in Name /\ XCEFixPath(cdir, p) # <<>>
           /\ Spells(XCEFixPath(cdir, p), Unix!Walk(p).at, Unix!Walk(p).refusable)
  <1>1. PICK start : start = IF p.abs THEN <<>> ELSE cdir
    OBVIOUS
  <1>2. PICK first : first = [at |-> IF p.abs THEN <<>> ELSE Names(cdir), refusable |-> FALSE]
    OBVIOUS
  <1>3. /\ start \in Name /\ first \in Place
        /\ \A i \in 1 .. Len(start) : start[i] \in Proper \/ (i = 1 /\ start[i] = Lone)
        /\ Spells(start, first.at, first.refusable)
    <2>1. Names(cdir) \in Seq(Proper) /\ Spells(cdir, Names(cdir), FALSE)
      BY CanonicalSpells
    <2>2. <<>> \in Name /\ <<>> \in Seq(Proper) /\ Len(<<>>) = 0
      BY DEF Name
    <2>3. Spells(<<>>, <<>>, FALSE)
      BY <2>2, SpellsRoot
    <2>4. CASE p.abs
      <3>1. start = <<>> /\ first = [at |-> <<>>, refusable |-> FALSE]
        BY <1>1, <1>2, <2>4
      <3>2. first \in Place /\ first.at = <<>> /\ first.refusable = FALSE
        BY <2>2, <3>1 DEF Place
      <3>3. \A i \in 1 .. Len(start) : FALSE
        BY <2>2, <3>1
      <3>4. QED  BY <2>2, <2>3, <3>1, <3>2, <3>3
    <2>5. CASE ~p.abs
      BY <1>1, <1>2, <2>1, <2>5 DEF Place, Canonical
    <2>6. QED  BY <2>4, <2>5
  <1>3a. \E walked \in [0 .. Len(segs) -> Place] :
            /\ walked[0] = first
            /\ \A i \in 1 .. Len(segs) : walked[i] = Unix!Step(walked[i - 1], segs[i])
            /\ Unix!Walk(p) = walked[Len(segs)]
    <2>1. first \in Place /\ p.segs = segs /\ segs \in Name
      BY <1>3
    <2>2. first = [at |-> IF p.abs THEN <<>> ELSE Names(cdir), refusable |-> FALSE]
      BY <1>2
    <2>3. QED  BY <2>1, <2>2, WalkBySteps, SMTT(30)
  <1>3b. \A i \in 1 .. Len(segs) : segs[i] \in Segment
    BY DEF Name
  <1>4. PICK c \in Nat, m \in Nat \ {0} : c = Len(start) /\ m = Len(segs)
    BY <1>3, NameFacts
  <1>5. PICK whole \in Name :
           /\ whole = start \o segs /\ Len(whole) = c + m /\ whole # <<>>
           /\ \A i \in 1 .. c : whole[i] = start[i]
           /\ \A i \in 1 .. m : whole[c + i] = segs[i]
    <2>1. PICK whole : whole = start \o segs
      OBVIOUS
    <2>2. /\ whole \in Seq(Segment) /\ Len(whole) = c + m
          /\ \A i \in 1 .. c + m : whole[i] = IF i <= c THEN start[i] ELSE segs[i - c]
      BY <1>3, <1>4, <2>1, ConcatProperties DEF Name
    <2>3. \A i \in 1 .. c : whole[i] = start[i]
      BY <2>2
    <2>4. ASSUME NEW i \in 1 .. m
          PROVE  whole[c + i] = segs[i]
      <3>1. c + i \in 1 .. c + m /\ ~(c + i <= c) /\ (c + i) - c = i
        OBVIOUS
      <3>2. QED  BY <2>2, <3>1
    <2>5. whole \in Name
      BY <2>2 DEF Name
    <2>6. whole # <<>>
      BY <2>2, <2>5, NameFacts
    <2>7. QED  BY <2>1, <2>2, <2>3, <2>4, <2>5, <2>6
  <1>6. PICK s \in Name, k \in {m - 1, m} :
           /\ s = Strip(whole) /\ Len(s) = c + k /\ c + k > 0
           /\ \A i \in 1 .. c : s[i] = start[i]
           /\ \A i \in 1 .. k : s[c + i] = segs[i]
           /\ k = m - 1 => segs[m] = Lone
           /\ k = m => segs[m] # Lone \/ (c = 0 /\ m = 1)
    <2>1. CASE Strip(whole) = whole /\ (Len(whole) = 1 \/ whole[Len(whole)] # Lone)
      <3>1. segs[m] # Lone \/ (c = 0 /\ m = 1)
        BY <1>5, <2>1
      <3>2. m \in {m - 1, m} /\ m # m - 1 /\ c + m > 0
        OBVIOUS
      <3>3. QED  BY <1>5, <2>1, <3>1, <3>2
    <2>2. CASE Strip(whole) = Front(whole) /\ Len(whole) > 1 /\ whole[Len(whole)] = Lone
      <3>1. PICK s \in Name : /\ s = Front(whole) /\ Len(s) = c + m - 1
                              /\ \A i \in 1 .. c + m - 1 : s[i] = whole[i]
        <4>1. whole # <<>> /\ Len(whole) = c + m
          BY <1>5
        <4>2. Front(whole) \in Name /\ Len(Front(whole)) = Len(whole) - 1
          BY <4>1, NameFacts
        <4>3. \A i \in 1 .. Len(whole) - 1 : Front(whole)[i] = whole[i]
          <5>1. whole \in Seq(Segment)
            BY DEF Name
          <5>2. QED  BY <4>1, <5>1, FrontOfName
        <4>4. QED  BY <4>1, <4>2, <4>3
      <3>2. ASSUME NEW i \in 1 .. c
            PROVE  s[i] = start[i]
        <4>1. i \in 1 .. c + m - 1
          OBVIOUS
        <4>2. QED  BY <1>5, <3>1, <4>1
      <3>3. ASSUME NEW i \in 1 .. m - 1
            PROVE  s[c + i] = segs[i]
        <4>1. c + i \in 1 .. c + m - 1 /\ i \in 1 .. m
          OBVIOUS
        <4>2. s[c + i] = whole[c + i]
          BY <3>1, <4>1
        <4>3. whole[c + i] = segs[i]
          BY <1>5, <4>1
        <4>4. QED  BY <4>2, <4>3
      <3>4. segs[m] = Lone
        BY <1>5, <2>2
      <3>5. /\ m - 1 \in {m - 1, m} /\ m - 1 # m /\ c + (m - 1) > 0
            /\ c + m - 1 = c + (m - 1)
        BY <1>5, <2>2
      <3>6. QED  BY <2>2, <3>1, <3>2, <3>3, <3>4, <3>5
    <2>3. QED  BY <1>5, <2>1, <2>2, StripCases
  <1>7. PICK out \in [0 .. c + k -> Name] :
           /\ out[0] = <<>>
           /\ \A i \in 1 .. c + k : out[i] = Written(out[i - 1], s[i], i = c + k)
           /\ XCECanonicalizePath(s) = out[c + k]
    <2>1. PICK out \in [0 .. Len(s) -> Name] :
             /\ out[0] = <<>>
             /\ \A i \in 1 .. Len(s) : out[i] = Written(out[i - 1], s[i], i = Len(s))
             /\ XCECanonicalizePath(s) = out[Len(s)]
      BY CanonicalizedBySteps
    <2>2. QED  BY <1>6, <2>1
  <1>8. PICK walked \in [0 .. m -> Place] :
           /\ walked[0] = first
           /\ \A i \in 1 .. m : walked[i] = Unix!Step(walked[i - 1], segs[i])
           /\ Unix!Walk(p) = walked[m]
    BY <1>4, <1>3a
  <1>9. XCEFixPath(cdir, p) = out[c + k]
    BY <1>1, <1>5, <1>6, <1>7 DEF XCEFixPath
  <1>10. k \in Nat /\ c \in 0 .. c + k /\ \A j \in 0 .. k : c + j \in 0 .. c + k /\ j \in 0 .. m
    OBVIOUS
  <1>11. out[c] = start
    <2>1. \A i \in 1 .. c : s[i] \in Proper \/ (i = 1 /\ s[i] = Lone)
      BY <1>3, <1>4, <1>6
    <2>2. Len(out[c]) = c /\ \A j \in 1 .. c : out[c][j] = s[j]
      <3>1. /\ out \in [0 .. Len(s) -> Name] /\ c \in 0 .. Len(s) /\ out[0] = <<>>
            /\ \A i \in 1 .. Len(s) : out[i] = Written(out[i - 1], s[i], i = Len(s))
        BY <1>6, <1>7, <1>10
      <3>2. QED  BY <2>1, <3>1, CanonicalIsCopied, Zenon
    <2>3. PICK o \in Name : o = out[c]
      BY <1>7, <1>10
    <2>4. Len(o) = Len(start) /\ \A j \in 1 .. Len(o) : o[j] = start[j]
      BY <1>4, <1>6, <2>2, <2>3
    <2>5. o = start
      BY <1>3, <2>4, SeqEqual DEF Name
    <2>6. QED  BY <2>3, <2>5
  <1> DEFINE Same(j) == Spells(out[c + j], walked[j].at, walked[j].refusable)
             T == {j \in 0 .. k : Same(j)}
  <1>12. 0 \in T
    <2>1. c + 0 = c /\ 0 \in 0 .. k
      BY <1>10
    <2>2. out[c + 0] = start /\ walked[0] = first
      BY <1>8, <1>11, <2>1
    <2>3. QED  BY <1>3, <2>1, <2>2
  <1>13. ASSUME NEW j \in 0 .. k - 1, j \in T
         PROVE  j + 1 \in T /\ (j + 1 = k => out[c + k] # <<>>)
    <2>1. /\ j + 1 \in 0 .. k /\ j + 1 \in 1 .. k /\ j + 1 \in 1 .. m /\ c + (j + 1) \in 1 .. c + k
          /\ (j + 1) - 1 = j /\ (c + (j + 1)) - 1 = c + j
      <3>1. j \in Nat /\ j + 1 <= k /\ k <= m
        BY <1>10
      <3>2. QED  BY <1>10, <3>1
    <2>2. PICK o \in Name, q \in Name, w \in Place, v \in Place :
             /\ o = out[c + j] /\ q = out[c + (j + 1)] /\ w = walked[j] /\ v = walked[j + 1]
      <3>1. c + j \in 0 .. c + k /\ c + (j + 1) \in 0 .. c + k /\ j \in 0 .. m /\ j + 1 \in 0 .. m
        BY <1>10, <2>1
      <3>2. out[c + j] \in Name /\ out[c + (j + 1)] \in Name
        BY <1>7, <3>1
      <3>3. walked[j] \in Place /\ walked[j + 1] \in Place
        BY <1>8, <3>1, SMTT(30)
      <3>4. QED  BY <3>2, <3>3
    <2>3. s[c + (j + 1)] = segs[j + 1] /\ segs[j + 1] \in Segment
      <3>1. segs[j + 1] \in Segment
        BY <1>4, <1>3b, <2>1
      <3>2. QED  BY <1>6, <2>1, <3>1
    <2>4. PICK end \in BOOLEAN : end = (c + (j + 1) = c + k)
      OBVIOUS
    <2>5. q = Written(o, segs[j + 1], end)
      BY <1>7, <2>1, <2>2, <2>3, <2>4
    <2>6. v = Unix!Step(w, segs[j + 1])
      BY <1>8, <2>1, <2>2
    <2>7. Spells(o, w.at, w.refusable)
      BY <1>13, <2>2
    <2>8. segs[j + 1] = Lone => o = <<>>
      <3>1. ASSUME segs[j + 1] = Lone
            PROVE  j = 0 /\ c = 0
        <4>1. j + 1 \notin 1 .. m - 1
          BY <1>4, <3>1 DEF PlainName
        <4>2. j + 1 = m /\ k = m
          BY <1>10, <2>1, <4>1
        <4>3. QED  BY <1>6, <3>1, <4>2
      <3>2. QED  BY <1>7, <2>2, <3>1
    <2>9. Spells(q, v.at, v.refusable) /\ (end => q # <<>>)
      BY <2>3, <2>5, <2>6, <2>7, <2>8, WrittenSpells
    <2>10. QED  BY <2>1, <2>2, <2>4, <2>9
  <1>14. k \in T
    <2> HIDE DEF T
    <2>1. \A j \in 0 .. k - 1 : j \in T => j + 1 \in T
      BY <1>13
    <2>2. 0 .. k \subseteq T
      BY <1>10, <1>12, <2>1, IntervalInduction
    <2>3. QED  BY <1>10, <2>2
  <1>15. out[c + k] # <<>>
    <2>1. CASE k = 0
      <3>1. start # <<>>
        BY <1>3, <1>4, <1>6, <2>1, NameFacts
      <3>2. QED  BY <1>11, <2>1, <3>1
    <2>2. CASE k # 0
      <3>1. k - 1 \in 0 .. k - 1 /\ (k - 1) + 1 = k
        BY <1>10, <2>2
      <3>2. k - 1 \in T
        <4> HIDE DEF T
        <4>1. \A j \in 0 .. k - 1 : j \in T => j + 1 \in T
          BY <1>13
        <4>2. 0 .. k \subseteq T
          BY <1>10, <1>12, <4>1, IntervalInduction
        <4>3. QED  BY <3>1, <4>2
      <3>3. QED
        <4> HIDE DEF T
        <4>1. QED  BY <1>13, <3>1, <3>2
    <2>3. QED  BY <2>1, <2>2
  <1>16. walked[k] = walked[m]
    <2>1. CASE k = m - 1
      <3>1. m \in 1 .. m /\ m - 1 \in 0 .. m
        OBVIOUS
      <3>2. walked[m] = Unix!Step(walked[m - 1], Lone) /\ walked[m - 1] \in Place
        BY <1>6, <1>8, <2>1, <3>1
      <3>3. QED  BY <2>1, <3>2, StepType, Literals
    <2>2. QED  BY <2>1
  <1>17. walked[m] \in Place /\ out[c + k] \in Name
    BY <1>7, <1>8, <1>10
  <1>18. QED  BY <1>8, <1>9, <1>14, <1>15, <1>16, <1>17

\* The system's answer for a string is one of Unix's for the walk it spells.
LEMMA SystemAnswers ==
    ASSUME NEW s \in Name, s # <<>>, NEW w \in Place, Spells(s, w.at, w.refusable)
    PROVE  /\ System(s) \in {IF w.at \in Dirs \cup Files THEN w.at ELSE ENOENT}
                               \cup (IF w.refusable THEN {ENOENT} ELSE {})
           /\ System(s) \in Dirs => Canonical(s) /\ Names(s) = System(s)
  <1> DEFINE WellFormed == /\ s # <<>>
                           /\ Names(s) # <<>> => s[Len(s)] # Lone
                           /\ \A i \in DOMAIN s : s[i] \notin {".", ".."}
  <1>1. System(s) = IF WellFormed /\ Names(s) \in Dirs \cup Files THEN Names(s) ELSE ENOENT
    BY Zenon DEF System, Last, Lone
  <1>2. w.at \in Seq(Proper) /\ w.refusable \in BOOLEAN
    BY DEF Place
  <1>3. PICK d \in {0, 1} : SpellsAfter(d, s, w.at, w.refusable)
    BY DEF Spells
  <1>4. /\ Len(s) \in Nat \ {0} /\ DOMAIN s = 1 .. Len(s) /\ Len(w.at) \in Nat
        /\ (w.at = <<>> <=> Len(w.at) = 0)
    <2>1. DOMAIN s = 1 .. Len(s)
      BY DEF Name
    <2>2. Len(s) \in Nat \ {0}
      BY NameFacts
    <2>3. QED  BY <1>2, <2>1, <2>2, EmptyOrLonger
  <1>5. ENOENT \notin Dirs
    BY TreeAssumption
  <1>6. CASE d = 1 /\ s[1] # Lone
    <2>1. s[1] = ".." /\ w.refusable
      BY <1>3, <1>6 DEF SpellsAfter
    <2>2. ~WellFormed
      BY <1>4, <2>1
    <2>3. System(s) = ENOENT
      <3> HIDE DEF WellFormed
      <3>1. QED  BY <1>1, <2>2
    <2>4. QED  BY <1>5, <2>1, <2>3
  <1>7. CASE ~(d = 1 /\ s[1] # Lone)
    <2>1. Names(s) = w.at /\ Canonical(s)
      BY <1>2, <1>3, <1>7, NamesSpelt
    <2>2. WellFormed
      <3>1. ASSUME NEW i \in DOMAIN s
            PROVE  s[i] \notin {".", ".."}
        BY <1>4, <2>1, Literals DEF Canonical
      <3>2. ASSUME w.at # <<>>
            PROVE  s[Len(s)] # Lone
        <4>1. Len(w.at) \in 1 .. Len(w.at) /\ Len(s) = Len(w.at) + d
          BY <1>3, <1>4, <3>2 DEF SpellsAfter
        <4>2. s[Len(s)] = w.at[Len(w.at)] /\ w.at[Len(w.at)] \in Proper
          BY <1>2, <1>3, <4>1 DEF SpellsAfter
        <4>3. QED  BY <4>2, Literals
      <3>3. QED  BY <2>1, <3>1, <3>2
    <2>3. System(s) = IF w.at \in Dirs \cup Files THEN w.at ELSE ENOENT
      <3> HIDE DEF WellFormed
      <3>1. QED  BY <1>1, <2>1, <2>2
    <2>4. QED  BY <1>5, <2>1, <2>3
  <1>8. QED  BY <1>6, <1>7

------------------------------------------------------------------------------
(* The current directory stays canonical *)

\* The names callers use have no two separators next to each other.
PlainNames == \A p \in Paths : PlainName(p.segs)

LEMMA RootIsCanonical ==
    ASSUME NEW s \in {<<>>, <<Lone>>}
    PROVE  Canonical(s) /\ Names(s) = <<>>
  <1>1. s \in Name /\ <<>> \in Seq(Proper) /\ Len(<<>>) = 0
    <2>1. <<Lone>> \in Name
      BY OneSegment, Literals
    <2>2. <<>> \in Name /\ <<>> \in Seq(Proper) /\ Len(<<>>) = 0
      BY DEF Name
    <2>3. QED  BY <2>1, <2>2
  <1>2. PICK d \in {0, 1} : /\ s = IF d = 0 THEN <<>> ELSE <<Lone>>
                            /\ Len(s) = d /\ (d = 1 => s[1] = Lone)
    <2>1. CASE s = <<>>
      BY <1>1, <2>1
    <2>2. CASE s = <<Lone>>
      BY <2>2, OneSegment, Literals
    <2>3. QED  BY <2>1, <2>2
  <1>3. SpellsAfter(d, s, <<>>, FALSE)
    BY <1>1, <1>2 DEF SpellsAfter
  <1>4. QED  BY <1>1, <1>2, <1>3, NamesSpelt

LEMMA PathFacts ==
    ASSUME NEW p \in Paths
    PROVE  p.segs \in Name /\ p.segs # <<>>
  <1>1. p.segs \in Seq(STRING) \ {<<>>}
    BY NamesAssumption
  <1>2. QED  BY <1>1, SeqMonotonic DEF Name, Segment

\* A directory the system answers with is kept as a canonical string of its names.
LEMMA DirectoryCheckAnswers ==
    ASSUME PlainNames, Canonical(cdir), NEW p \in Paths
    PROVE  LET s == XCEFixPath(cdir, p)
           IN  /\ System(s) \in Unix!Answers(p)
               /\ DirectoryCheck(s) = Unix!OrNotDir(System(s))
               /\ DirectoryCheck(s) \in Dirs <=> System(s) \in Dirs
               /\ System(s) \in Dirs =>
                     Canonical(s) /\ Names(s) = System(s) /\ s # <<>>
  <1> DEFINE s == XCEFixPath(cdir, p)
             w == Unix!Walk(p)
  <1>1. p.segs \in Name /\ p.segs # <<>> /\ PlainName(p.segs)
    BY PathFacts DEF PlainNames
  <1>2. w \in Place /\ s \in Name /\ s # <<>> /\ Spells(s, w.at, w.refusable)
    BY <1>1, FixedSpells
  <1>3. Unix!Answers(p) = {IF w.at \in Dirs \cup Files THEN w.at ELSE ENOENT}
                             \cup (IF w.refusable THEN {ENOENT} ELSE {})
    BY Zenon DEF Unix!Answers
  <1> HIDE DEF s, w
  <1>4. /\ System(s) \in Unix!Answers(p)
        /\ System(s) \in Dirs => Canonical(s) /\ Names(s) = System(s)
    BY <1>2, <1>3, SystemAnswers
  <1>5. DirectoryCheck(s) = Unix!OrNotDir(System(s))
    BY DEF DirectoryCheck, Unix!OrNotDir
  <1>6. DirectoryCheck(s) \in Dirs <=> System(s) \in Dirs
    BY TreeAssumption DEF DirectoryCheck
  <1>7. QED  BY <1>2, <1>4, <1>5, <1>6 DEF s

LEMMA StaysCanonical ==
    ASSUME PlainNames, Canonical(cdir), [Next]_vars
    PROVE  Canonical(cdir)' /\ (cdir # <<>> => cdir' # <<>>)
  <1>1. ASSUME NEW p \in Paths, XCESetCurrentDirectory(p)
        PROVE  cdir' = cdir \/ (Canonical(cdir') /\ cdir' # <<>>)
    <2>1. cdir' = IF DirectoryCheck(XCEFixPath(cdir, p)) \in Dirs
                  THEN XCEFixPath(cdir, p) ELSE cdir
      BY <1>1 DEF XCESetCurrentDirectory
    <2>2. QED  BY <2>1, DirectoryCheckAnswers
  <1>2. ASSUME NEW p \in Paths,
               \/ XCESetCurrentRootDirectory(p) \/ xcechroot(p)
               \/ FileCall(p) \/ XCEFindFirstFile(p)
        PROVE  cdir' = cdir
    BY <1>2 DEF XCESetCurrentRootDirectory, xcechroot, FileCall, XCEFindFirstFile
  <1>3. cdir' = cdir \/ (Canonical(cdir') /\ cdir' # <<>>)
    BY <1>1, <1>2 DEF Next, vars
  <1>4. QED  BY <1>3 DEF Canonical

\* A canonical string given back as a name is the same string again.
LEMMA CanonicalIsFixed ==
    ASSUME Canonical(cdir)
    PROVE  XCEFixPath(<<Lone>>, [abs |-> TRUE, segs |-> cdir]) = cdir
  <1>1. PICK s \in Name :
           s = cdir /\ \A i \in 1 .. Len(s) : s[i] \in Proper \/ (i = 1 /\ s[i] = Lone)
    BY DEF Canonical
  <1>2. <<>> \o s = s
    BY ConcatEmptySeq DEF Name
  <1>3. Strip(s) = s
    <2>1. CASE s = <<>>
      <3>1. ~(Len(s) > 1)
        BY <2>1
      <3>2. QED  BY <3>1, Zenon DEF Strip
    <2>2. CASE s # <<>>
      <3>1. ~(Len(s) > 1 /\ s[Len(s)] = Lone)
        <4>1. Len(s) \in Nat
          BY NameFacts
        <4>2. Len(s) > 1 => s[Len(s)] \in Proper
          BY <1>1, <4>1
        <4>3. QED  BY <4>2, Literals
      <3>2. QED  BY <2>2, <3>1, StripCases
    <2>3. QED  BY <2>1, <2>2
  <1>4. XCEFixPath(<<Lone>>, [abs |-> TRUE, segs |-> cdir]) = XCECanonicalizePath(s)
    BY <1>1, <1>2, <1>3 DEF XCEFixPath
  <1>5. PICK out \in [0 .. Len(s) -> Name] :
           /\ out[0] = <<>>
           /\ \A i \in 1 .. Len(s) : out[i] = Written(out[i - 1], s[i], i = Len(s))
           /\ XCECanonicalizePath(s) = out[Len(s)]
    BY CanonicalizedBySteps
  <1>6. Len(s) \in Nat /\ Len(s) \in 0 .. Len(s)
    BY NameFacts
  <1>7. Len(out[Len(s)]) = Len(s) /\ \A j \in 1 .. Len(s) : out[Len(s)][j] = s[j]
    BY <1>1, <1>5, <1>6, CanonicalIsCopied
  <1>8. PICK o \in Name : o = out[Len(s)]
    BY <1>5, <1>6
  <1>9. o = s
    BY <1>7, <1>8, SeqEqual DEF Name
  <1>10. QED  BY <1>1, <1>4, <1>5, <1>8, <1>9

\* Whatever directories a program changes to, the string it then keeps is one that
\* chdir leaves as it is: what the parent hands its child in PWD is what the child's
\* xceinit keeps (ceprocess.c:95-98, cestdlib.c:57-58).
THEOREM DirectorySurvives ==
    ASSUME PlainNames
    PROVE  Spec => []CwdSurvivesPassing
  <1> DEFINE Kept == Canonical(cdir)
  <1>1. Init => Kept
    BY RootIsCanonical, NamesAssumption, Zenon DEF Init, Lone
  <1>2. Kept /\ [Next]_vars => Kept'
    BY StaysCanonical
  <1>3. Kept => CwdSurvivesPassing
    BY CanonicalIsFixed, Zenon DEF CwdSurvivesPassing, Lone
  <1>4. QED  BY <1>1, <1>2, <1>3, PTL DEF Spec

------------------------------------------------------------------------------
(* What a name reaches *)

LEMMA WalkOfOne ==
    ASSUME NEW p, NEW segs \in Name, p.segs = segs, NEW first \in Place,
           first = [at |-> IF p.abs THEN <<>> ELSE Names(cdir), refusable |-> FALSE]
    PROVE  Len(segs) = 1 => Unix!Walk(p) = Unix!Step(first, segs[1])
  <1>1. PICK walked \in [0 .. Len(segs) -> Place] :
           /\ walked[0] = first
           /\ \A i \in 1 .. Len(segs) : walked[i] = Unix!Step(walked[i - 1], segs[i])
           /\ Unix!Walk(p) = walked[Len(segs)]
    BY WalkBySteps
  <1>2. ASSUME Len(segs) = 1
        PROVE  Unix!Walk(p) = Unix!Step(first, segs[1])
    <2>1. 1 \in 1 .. Len(segs) /\ 1 - 1 = 0
      BY <1>2
    <2>2. walked[1] = Unix!Step(walked[1 - 1], segs[1])
      BY <1>1, <2>1
    <2>3. QED  BY <1>1, <1>2, <2>1, <2>2
  <1>3. QED  BY <1>2

\* ".", and "..", as find gets them: what fixpath.c would write for them.
LEMMA ListedAnswers ==
    ASSUME PlainNames, Canonical(cdir), cdir # <<>>, NEW p \in Paths
    PROVE  System(Listed(p)) \in Unix!Answers(p)
  <1>1. p.segs \in Name /\ p = [abs |-> p.abs, segs |-> p.segs]
    BY PathFacts, NamesAssumption
  <1> DEFINE w == Unix!Walk(p)
             own == [at |-> Names(cdir), refusable |-> FALSE]
  <1>2. Unix!Answers(p) = {IF w.at \in Dirs \cup Files THEN w.at ELSE ENOENT}
                             \cup (IF w.refusable THEN {ENOENT} ELSE {})
    BY Zenon DEF Unix!Answers
  <1>3. own \in Place /\ Spells(cdir, own.at, own.refusable) /\ cdir \in Name
    <2>1. Names(cdir) \in Seq(Proper) /\ Spells(cdir, Names(cdir), FALSE)
      BY CanonicalSpells
    <2>2. cdir \in Name
      BY DEF Canonical
    <2>3. QED  BY <2>1, <2>2 DEF Place
  <1>4. ASSUME NEW seg \in {".", ".."}, p = [abs |-> FALSE, segs |-> <<seg>>]
        PROVE  Listed(p) = Written(cdir, seg, TRUE) /\ w = Unix!Step(own, seg)
    <2>1. seg \in Segment /\ seg # Lone
      BY Literals
    <2>2. PICK segs \in Name : segs = p.segs /\ Len(segs) = 1 /\ segs[1] = seg
      BY <1>4, <2>1, OneSegment
    <2>3. own = [at |-> IF p.abs THEN <<>> ELSE Names(cdir), refusable |-> FALSE]
      BY <1>4
    <2>4. PICK first \in Place :
             /\ first = own
             /\ first = [at |-> IF p.abs THEN <<>> ELSE Names(cdir), refusable |-> FALSE]
      <3> HIDE DEF own
      <3>1. QED  BY <1>3, <2>3
    <2>5. w = Unix!Step(own, seg)
      <3> HIDE DEF own
      <3>1. p.segs = segs /\ Len(segs) = 1
        BY <2>2
      <3>2. first = [at |-> IF p.abs THEN <<>> ELSE Names(cdir), refusable |-> FALSE]
        BY <2>4
      <3>3. Unix!Walk(p) = Unix!Step(first, segs[1])
        BY <3>1, <3>2, WalkOfOne
      <3>4. QED  BY <2>2, <2>4, <3>3
    <2>6. CASE seg = "."
      <3>1. Listed(p) = cdir
        BY <1>4, <2>6, Zenon DEF Listed
      <3>2. Written(cdir, seg, TRUE) = cdir
        BY <2>6, WrittenCases
      <3>3. QED  BY <2>5, <3>1, <3>2
    <2>7. CASE seg = ".."
      <3>1. p # [abs |-> FALSE, segs |-> <<".">>]
        <4>1. p.segs[1] # "."
          BY <2>2, <2>7, Literals
        <4>2. <<".">>[1] = "."
          BY OneSegment, Literals
        <4>3. QED  BY <4>1, <4>2
      <3>2. Listed(p) = IF Len(cdir) <= 1 THEN <<Lone>> ELSE Front(cdir)
        BY <1>4, <2>7, <3>1, Zenon DEF Listed, Lone
      <3>3. Len(cdir) <= 1 <=> Len(cdir) = 1
        BY <1>3, NameFacts
      <3>4. Written(cdir, seg, TRUE) = IF Len(cdir) = 1 THEN <<Lone>> ELSE Front(cdir)
        BY <2>7, WrittenCases, Literals
      <3>5. QED  BY <2>5, <3>2, <3>3, <3>4
    <2>8. QED  BY <2>6, <2>7
  <1>5. ASSUME NEW seg \in {".", ".."}, p = [abs |-> FALSE, segs |-> <<seg>>]
        PROVE  System(Listed(p)) \in Unix!Answers(p)
    <2>1. PICK out \in Name : out = Written(cdir, seg, TRUE)
      BY <1>3, <1>5, WrittenType, Literals
    <2>2. PICK v \in Place : v = Unix!Step(own, seg)
      <3> HIDE DEF own
      <3>1. QED  BY <1>3, <1>5, StepType, Literals
    <2>3. out # <<>> /\ Spells(out, v.at, v.refusable)
      <3> HIDE DEF own
      <3>1. seg \in Segment /\ seg # Lone
        BY <1>5, Literals
      <3>2. QED  BY <1>3, <2>1, <2>2, <3>1, WrittenSpells
    <2>4. Listed(p) = out /\ w = v
      <3> HIDE DEF own, w
      <3>1. QED  BY <1>4, <1>5, <2>1, <2>2
    <2>5. QED
      <3> HIDE DEF own, w
      <3>1. QED  BY <1>2, <2>3, <2>4, SystemAnswers
  <1>6. CASE \A seg \in {".", ".."} : p # [abs |-> FALSE, segs |-> <<seg>>]
    <2>1. Listed(p) = XCEFixPath(cdir, p)
      BY <1>6, Zenon DEF Listed
    <2>2. QED  BY <2>1, DirectoryCheckAnswers
  <1>7. QED  BY <1>5, <1>6

LEMMA StepIsUnix ==
    ASSUME PlainNames, Canonical(cdir), cdir # <<>>, [Next]_vars
    PROVE  [Unix!Next]_(Unix!vars)
  <1>1. ASSUME NEW p \in Paths, XCESetCurrentDirectory(p)
        PROVE  call'.path = p /\ Unix!Chdir(p)
    <2> DEFINE s == XCEFixPath(cdir, p)
               r == System(s)
    <2>1. /\ r \in Unix!Answers(p) /\ DirectoryCheck(s) = Unix!OrNotDir(r)
          /\ DirectoryCheck(s) \in Dirs <=> r \in Dirs
          /\ r \in Dirs => Canonical(s) /\ Names(s) = r /\ s # <<>>
      BY DirectoryCheckAnswers
    <2>2. /\ call' = [op |-> "chdir", path |-> p, result |-> DirectoryCheck(s)]
          /\ cdir' = IF DirectoryCheck(s) \in Dirs THEN s ELSE cdir
      BY <1>1 DEF XCESetCurrentDirectory, Called
    <2> HIDE DEF s, r
    <2>3. Names(cdir') = IF r \in Dirs THEN r ELSE Names(cdir)
      BY <2>1, <2>2
    <2>4. Names(cdir)' = IF r \in Dirs THEN r ELSE Names(cdir)
      BY <2>3
    <2>5. call'.path = p
      BY <2>2
    <2>6. QED  BY <2>1, <2>2, <2>4, <2>5 DEF Unix!Chdir
  <1>2. ASSUME NEW p \in Paths, XCESetCurrentRootDirectory(p)
        PROVE  call'.path = p /\ Unix!Use(p)
    <2> DEFINE s == XCEFixPath(cdir, p)
               r == System(s)
    <2>1. r \in Unix!Answers(p) /\ DirectoryCheck(s) = Unix!OrNotDir(r)
      BY DirectoryCheckAnswers
    <2>2. call' = [op |-> "root", path |-> p, result |-> DirectoryCheck(s)] /\ cdir' = cdir
      BY <1>2 DEF XCESetCurrentRootDirectory, Called
    <2> HIDE DEF s, r
    <2>3. call'.path = p
      BY <2>2
    <2>4. QED  BY <2>1, <2>2, <2>3 DEF Unix!Use
  <1>3. ASSUME NEW p \in Paths, xcechroot(p)
        PROVE  call'.path = p /\ Unix!Chroot(p)
    BY <1>3 DEF xcechroot, Called, Unix!Chroot
  <1>4. ASSUME NEW p \in Paths, FileCall(p)
        PROVE  call'.path = p /\ Unix!Use(p)
    <2>1. System(XCEFixPath(cdir, p)) \in Unix!Answers(p)
      BY DirectoryCheckAnswers
    <2>2. /\ call' = [op |-> "file", path |-> p, result |-> System(XCEFixPath(cdir, p))]
          /\ cdir' = cdir
      BY <1>4 DEF FileCall, Called
    <2>3. QED  BY <2>1, <2>2 DEF Unix!Use
  <1>5. ASSUME NEW p \in Paths, XCEFindFirstFile(p)
        PROVE  call'.path = p /\ Unix!Use(p)
    <2>1. System(Listed(p)) \in Unix!Answers(p)
      BY ListedAnswers
    <2>2. /\ call' = [op |-> "find", path |-> p, result |-> System(Listed(p))]
          /\ cdir' = cdir
      BY <1>5 DEF XCEFindFirstFile, Called
    <2>3. QED  BY <2>1, <2>2 DEF Unix!Use
  <1>6. CASE UNCHANGED vars
    BY <1>6 DEF vars, Unix!vars
  <1>7. QED  BY <1>1, <1>2, <1>3, <1>4, <1>5, <1>6 DEF Next, Unix!Next

\* From xceinit's directory or that of a process without _MT, which is the root, every
\* file name reaches what a walk from the root or the current directory leads to; ".."
\* at the root may be refused, and nothing else is.  Not so from a new thread's, which
\* is empty: there "." finds nothing (findfile.c:93).
THEOREM NamesReachWhatTheyMean ==
    ASSUME PlainNames, InitialDir = <<"">>
    PROVE  Spec => ImplementsUnixCwd
  <1> DEFINE Kept == Canonical(cdir) /\ cdir # <<>>
  <1>1. InitialDir = <<Lone>> /\ <<Lone>> # <<>>
    <2>1. InitialDir = <<Lone>>
      BY Zenon DEF Lone
    <2>2. QED  BY <2>1, OneSegment, Literals
  <1>2. Init => Kept /\ Unix!Init
    BY <1>1, RootIsCanonical DEF Init, Unix!Init
  <1>3. Kept /\ [Next]_vars => Kept'
    BY StaysCanonical
  <1>4. Kept /\ [Next]_vars => [Unix!Next]_(Unix!vars)
    BY StepIsUnix
  <1> HIDE DEF Kept
  <1>5. QED  BY <1>2, <1>3, <1>4, PTL DEF Spec, ImplementsUnixCwd, Unix!Spec
=============================================================================
