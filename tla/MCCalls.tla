-------------------------------- MODULE MCCalls --------------------------------
(* Processes, users and texts for the run of Calls, and what its states leave  *)
(* out.                                                                        *)
EXTENDS Calls

LOCAL P == INSTANCE Fnmatch
LOCAL B == INSTANCE Braces

CONSTANTS p1, p2

\* 3 and 15 differ only in a higher bit.
Pids == p1 :> 3 @@ p2 :> 15

Users == {[name |-> "u", uid |-> 1, home |-> "path"], [name |-> "u", uid |-> 2, home |-> "path"],
          [name |-> "v", uid |-> 2, home |-> "drive"]}

NamesToMatch ==
    UNION {[1 .. n -> {"a", "A", ".", "/"}] : n \in 0 .. 2}
    \cup {<<"*">>, <<"\\">>, <<"\\", "?">>, <<"b">>, <<"B", ".", "a">>, <<"a", "/", ".", "a">>,
          <<"a", "/", "a", "/", "a">>, <<".", "a", "a">>, <<"a", ".", "/">>, <<"/", ".", "/">>}
Pieces ==
    {P!Char("a"), P!Char("/"), P!Char("."), P!AnyOne, P!Many, P!Escaped(P!Many),
     P!Escaped(P!Char("A")), P!Bracket(FALSE, <<"A", "-", "B">>, {"A", "B"}),
     P!Bracket(TRUE, <<"a", ".">>, {"a", "."}),
     P!Bracket(FALSE, <<"\\", "/", "-", "?">>, {"/", "?"})}
PatternsAsked ==
    UNION {[1 .. n -> Pieces] : n \in 0 .. 2}
    \cup {<<P!Char("a"), P!Many, p>> : p \in Pieces} \cup {<<P!AnyOne, P!Many, p>> : p \in Pieces}

Texts == {<<>>, <<"a">>, <<"[", ",", "]">>, <<"[", "a">>}
Inner == {<<B!Literal(t)>> : t \in Texts}
         \cup {<<B!Literal(<<"b">>), B!Brace(<< <<B!Literal(<<"a">>)>>, <<>> >>)>>,
               <<B!Brace(<< <<B!Literal(<<"b">>)>>, <<B!Literal(<<"a">>)>> >>)>>}
Tops == {B!Literal(t) : t \in Texts \cup {<<"a", "[", "}", "]">>}}
        \cup {B!Brace(<<v>>) : v \in Inner} \cup {B!Brace(<<v, w>>) : v, w \in Inner}
WordsGlobbed == {<<>>} \cup {<<v, w>> : v, w \in Tops}

Numbers == {[v |-> v, base |-> b] : v \in {0, 3, 4, 16, 17, 63, 64, 255, 256}, b \in {8, 10, 16}}
Bytes == {[v |-> 0, base |-> 10], [v |-> 3, base |-> 10], [v |-> 3, base |-> 16]}
AddressesAsked ==
    {<<n>> : n \in Numbers} \cup {<<b, n>> : b \in Bytes, n \in Numbers}
    \cup {<<b, c, n>> : b, c \in Bytes, n \in Numbers}
    \cup {<<b, c, [v |-> 2, base |-> 10], n>> : b, c \in Bytes, n \in Numbers}
    \cup {<<b, b, b, b, b>> : b \in Bytes}
TailsAsked == {<<>>, <<" ">>, <<" ", "z">>, <<"z">>, <<".">>}

\* What the last call of a process returned, and the last result of a lookup, where
\* no later step reads it.
ResultsGone ==
    <<job, said, store, pc, arg, template, fresh, kept, killed,
      passwd, half, services, root, atDevice, _unixdir, stream, fpw, scan, history,
      IF last.call = "tilde_uid" THEN last ELSE Null, logVars>>

\* Programs that call setpwent, getpwent and endpwent in this order.
Orderly == orderly
================================================================================
