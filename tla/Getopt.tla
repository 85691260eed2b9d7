-------------------------------- MODULE Getopt --------------------------------
(***************************************************************************)
(* getopt.c.  The function keeps its place in argv from one call to the    *)
(* next; a program may start over with optreset.  The indices of argv and  *)
(* of the strings in it start at 1 here, those of optind at 0 as in C.     *)
(***************************************************************************)
EXTENDS Integers, SequencesExt

CONSTANTS
    OptStrings,     \* the option strings of programs
    EOS, NULL

VARIABLES
    ostr,           \* the program's option string
    optind, optreset,
    place,          \* the pointer getopt keeps: [arg, pos], or EMSG
    optarg,         \* where the last argument of an option is: [arg, pos], or NULL
    seen            \* what the calls returned, with optopt and the argument they read

getopt_vars == <<ostr, optind, optreset, place, optarg, seen>>

EMSG == [arg |-> 0, pos |-> 1]

GetoptTypeOK ==
    /\ ostr \in OptStrings
    /\ optind \in Nat \ {0} /\ optreset \in BOOLEAN
    /\ place.arg \in Nat /\ place.pos \in Nat \ {0}
    /\ optarg = NULL \/ (optarg.arg \in Nat /\ optarg.pos \in Nat \ {0})
    /\ \A i \in DOMAIN seen : Len(seen[i]) = 3

GetoptInit ==
    /\ ostr \in OptStrings
    /\ optind = 1 /\ optreset = FALSE /\ place = EMSG
    /\ optarg = NULL /\ seen = <<>>

Char(w, i) == IF i \in DOMAIN w THEN w[i] ELSE EOS
At(argv, p) == IF p = EMSG THEN EOS ELSE Char(argv[p.arg], p.pos)
After(p) == [p EXCEPT !.pos = @ + 1]

\* Mutant of Scanning: optreset is not looked at.
ScanningOn(argv) == At(argv, place) # EOS

\* Letters of the last argument are left.
Scanning(argv) == ~optreset /\ At(argv, place) # EOS

NoOptionsLeft(argv) == optind < Len(argv) => Char(argv[optind + 1], 1) # "-"
DoubleDash(argv) == ~NoOptionsLeft(argv) /\ argv[optind + 1] = <<"-", "-">>

\* The letter to read: the next one, or the first one of the next argument, a dash
\* if the argument is a dash.
Here(argv) ==
    IF Scanning(argv) THEN place
    ELSE [arg |-> optind + 1, pos |-> IF Len(argv[optind + 1]) > 1 THEN 2 ELSE 1]

\* optind behind a letter.
Passed(argv, p) == IF At(argv, p) = EOS THEN optind + 1 ELSE optind

IsOption(c) == c # ":" /\ \E i \in DOMAIN ostr : ostr[i] = c
NeedsArgument(c) == Char(ostr, SelectInSeq(ostr, LAMBDA o : o = c) + 1) = ":"

Returns(c, optopt, argument) ==
    seen' = Append(seen, <<c, optopt, argument>>) /\ UNCHANGED ostr

\* -1 before the first argument that is no option, and behind "--".
GetoptEnd(argv) ==
    /\ ~Scanning(argv) /\ (NoOptionsLeft(argv) \/ DoubleDash(argv))
    /\ optind' = IF DoubleDash(argv) THEN optind + 1 ELSE optind
    /\ optreset' = FALSE /\ place' = EMSG
    /\ UNCHANGED <<ostr, optarg, seen>>

\* A letter is read, and the next call reads behind it.
GetoptReads(argv) ==
    /\ Scanning(argv) \/ ~(NoOptionsLeft(argv) \/ DoubleDash(argv))
    /\ optreset' = FALSE

Letter(argv) == At(argv, Here(argv))
Rest(argv) == After(Here(argv))

\* -1 for a dash that is no option.
GetoptDash(argv) ==
    /\ GetoptReads(argv) /\ Letter(argv) = "-" /\ ~IsOption("-")
    /\ place' = Rest(argv)
    /\ UNCHANGED <<ostr, optind, optarg, seen>>

\* optarg stays what an earlier call made it.
GetoptUnknown(argv) ==
    /\ GetoptReads(argv) /\ Letter(argv) # "-" /\ ~IsOption(Letter(argv))
    /\ place' = Rest(argv) /\ optind' = Passed(argv, place')
    /\ Returns("?", Letter(argv), NULL) /\ UNCHANGED optarg

GetoptFlag(argv) ==
    /\ GetoptReads(argv) /\ IsOption(Letter(argv)) /\ ~NeedsArgument(Letter(argv))
    /\ place' = Rest(argv) /\ optind' = Passed(argv, place')
    /\ Returns(Letter(argv), Letter(argv), NULL) /\ optarg' = NULL

GetoptNeeds(argv) ==
    /\ GetoptReads(argv) /\ IsOption(Letter(argv)) /\ NeedsArgument(Letter(argv))
    /\ place' = EMSG

\* The rest of the letters is the argument.
GetoptAttached(argv) ==
    /\ GetoptNeeds(argv) /\ At(argv, Rest(argv)) # EOS
    /\ optind' = optind + 1 /\ optarg' = Rest(argv)
    /\ LET w == argv[Here(argv).arg]
       IN  Returns(Letter(argv), Letter(argv), SubSeq(w, Rest(argv).pos, Len(w)))

\* The next string is the argument.
GetoptSeparate(argv) ==
    /\ GetoptNeeds(argv) /\ At(argv, Rest(argv)) = EOS /\ optind + 1 < Len(argv)
    /\ optind' = optind + 2 /\ optarg' = [arg |-> optind + 2, pos |-> 1]
    /\ Returns(Letter(argv), Letter(argv), argv[optind + 2])

\* There is none; here optarg stays too.
GetoptMissing(argv) ==
    /\ GetoptNeeds(argv) /\ At(argv, Rest(argv)) = EOS /\ optind + 1 >= Len(argv)
    /\ optind' = optind + 1
    /\ Returns(IF ostr[1] = ":" THEN ":" ELSE "?", Letter(argv), NULL) /\ UNCHANGED optarg

\* A call that returns a letter, and a call that returns -1.
GetoptLetter(argv) ==
    \/ GetoptUnknown(argv) \/ GetoptFlag(argv)
    \/ GetoptAttached(argv) \/ GetoptSeparate(argv) \/ GetoptMissing(argv)
GetoptMinusOne(argv) == GetoptEnd(argv) \/ GetoptDash(argv)

------------------------------------------------------------------------------
(* What getopt is for, argument by argument: the options are in the         *)
(* arguments that start with a dash, up to the first that does not, or to   *)
(* "--", which is passed over, or to a dash that is no option, which is not *)
(* (getopt.c:101).                                                          *)

Flag(c) == <<IF IsOption(c) THEN c ELSE "?", c, NULL>>
Flags(letters) == [i \in DOMAIN letters |-> Flag(letters[i])]

\* The letters of an argument that starts with a dash, which may stand for itself.
Letters(w) == IF Len(w) > 1 THEN Tail(w) ELSE w

\* A letter behind which no other letter of the argument is read.
Stops(c) == IF IsOption(c) THEN NeedsArgument(c) ELSE c = "-"

\* From the letters of one argument: the flags, up to the first letter that stops,
\* and that letter, with the rest if there is a rest, unless it is a dash.
Cluster(r, letters) ==
    LET stop == SelectInSeq(letters, Stops)
        flags == IF stop = 0 THEN letters ELSE SubSeq(letters, 1, stop - 1)
        rest == SubSeq(letters, stop + 1, Len(letters))
        out == r.out \o Flags(flags)
    IN  IF stop = 0 THEN [r EXCEPT !.out = out, !.optind = @ + 1]
        ELSE IF ~IsOption(letters[stop]) THEN [r EXCEPT !.out = out, !.ended = TRUE]
        ELSE IF rest # <<>>
        THEN [r EXCEPT !.out = Append(out, <<letters[stop], letters[stop], rest>>),
                       !.optind = @ + 1]
        ELSE [r EXCEPT !.out = out, !.waits = letters[stop], !.optind = @ + 1]

ReadArgument(r, w) ==
    IF r.ended THEN r
    ELSE IF r.waits # NULL
    THEN [r EXCEPT !.out = Append(@, <<r.waits, r.waits, w>>), !.waits = NULL, !.optind = @ + 1]
    ELSE IF w = <<"-", "-">> THEN [r EXCEPT !.ended = TRUE, !.optind = @ + 1]
    ELSE IF Char(w, 1) # "-" THEN [r EXCEPT !.ended = TRUE]
    ELSE Cluster(r, Letters(w))

\* What has been read behind each of the arguments; the first is the program's name.
Readings(argv) ==
    LET read[i \in 1..Len(argv)] ==
            IF i = 1 THEN [out |-> <<>>, optind |-> 1, waits |-> NULL, ended |-> FALSE]
            ELSE ReadArgument(read[i - 1], argv[i])
    IN  read

\* An option still waits for its argument behind the last one.
Missing(c) == <<IF ostr[1] = ":" THEN ":" ELSE "?", c, NULL>>

Reading(argv) ==
    LET r == Readings(argv)[Len(argv)]
    IN  [out |-> IF r.waits = NULL THEN r.out ELSE Append(r.out, Missing(r.waits)),
         optind |-> r.optind]
==============================================================================
