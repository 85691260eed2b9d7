-------------------------------- MODULE FixPath --------------------------------
(***************************************************************************)
(* fixpath.c: how every call that takes a file name makes an absolute path *)
(* of it.                                                                  *)
(*                                                                         *)
(* A string that starts with a separator is the sequence of its segments,  *)
(* each preceded by one separator: <<"a", "b">> is \a\b, <<"">> is \,      *)
(* <<"", "a">> is \\a, <<"a", "">> is \a\ and <<>> is the empty string.    *)
(* Appending such a string is appending the sequence.  A caller's name     *)
(* that does not start with a separator gets one from XCEFixPathW, and is  *)
(* given here by the segments it then has.                                 *)
(***************************************************************************)
EXTENDS Integers, Sequences, SequencesExt

\* p[-1] = 0 when the last character is a separator, unless it is the only one.
Strip(s) == IF Len(s) > 1 /\ Last(s) = "" THEN Front(s) ELSE s

\* Mutant of XCECanonicalizePath: the lone separator is not kept.
XCECanonicalizePathEmpty(s) ==
    LET Step(out, i) ==
        CASE s[i] = "." -> out
          [] s[i] = ".." /\ out # <<>> -> Front(out)
          [] OTHER -> Append(out, s[i])
    IN  FoldLeftDomain(Step, <<>>, s)

\* "." goes; ".." takes what is before it along, and stays where nothing is.
\* A lone separator stays if the whole name comes down to it: seg is its end then.
Written(out, seg, end) ==
    IF seg = "." THEN IF end /\ out = <<>> THEN <<"">> ELSE out
    ELSE IF seg = ".." /\ end /\ Len(out) = 1 THEN <<"">>
    ELSE IF seg = ".." /\ out # <<>> THEN Front(out)
    ELSE Append(out, seg)

XCECanonicalizePath(s) ==
    LET out[i \in 0 .. Len(s)] ==
            IF i = 0 THEN <<>> ELSE Written(out[i - 1], s[i], i = Len(s))
    IN  out[Len(s)]

\* cwd is the current directory of the caller.
XCEFixPath(cwd, p) ==
    XCECanonicalizePath(Strip((IF p.abs THEN <<>> ELSE cwd) \o p.segs))
==============================================================================
