--------------------------------- MODULE Calls ---------------------------------
(***************************************************************************)
(* The parts of the library that programs call by themselves: the file     *)
(* calls (Files), the user database (UserDb), syslog (Syslog), and the     *)
(* calls that only read their arguments: fnmatch, the braces of glob, and  *)
(* the texts of addresses.  The parts share no state; a behaviour is one   *)
(* of a program (or of several processes) that uses one of them.           *)
(***************************************************************************)
EXTENDS Files, UserDb, Syslog, InetAddr, TLC

LOCAL Match == INSTANCE Fnmatch
LOCAL Brace == INSTANCE Braces

CONSTANTS
    Patterns,       \* what fnmatch is asked: sequences of pieces,
    MatchNames,     \* and names
    Words,          \* what glob is given: words with braces
    Addresses,      \* numbers of an address,
    Tails           \* and what may follow them

VARIABLES
    job,            \* the part that is used
    said            \* what the last text call was asked and has answered

callsVars == <<job, said, filesVars, usersVars, logVars>>

Jobs == {"files", "users", "log", "text"}
Silent == [call |-> "none"]

\* A part that is not used is in some state.
CallsInit ==
    /\ job \in Jobs /\ said = Silent
    /\ FilesInit /\ UsersInit /\ LogInit
    /\ job # "files" => kept = {}
    /\ job # "users" => passwd = Null /\ services = Null /\ root = Null /\ ~atDevice

CallFnmatch(pieces, flags) ==
    said' = [call |-> "fnmatch", pieces |-> pieces, flags |-> flags,
             names |-> {s \in MatchNames : Match!fnmatch(Match!PatternText(pieces), s, flags)}]

CallGlob(word) ==
    said' = [call |-> "glob", word |-> word, patterns |-> Brace!globexp1(Brace!WordText(word))]

CallAscii2addr(numbers, tail) ==
    said' = [call |-> "ascii2addr", numbers |-> numbers, tail |-> tail,
             address |-> ascii2addr("AF_INET", AddressText(numbers, tail))]

TextNext ==
    \/ /\ said = Silent
       /\ \/ \E pieces \in Patterns, flags \in SUBSET Match!Flags : CallFnmatch(pieces, flags)
          \/ \E word \in Words : CallGlob(word)
          \/ \E numbers \in Addresses, tail \in Tails : CallAscii2addr(numbers, tail)
    \/ said # Silent /\ said' = Silent

CallsNext ==
    /\ UNCHANGED job
    /\ \/ job = "files" /\ FilesNext /\ UNCHANGED <<said, usersVars, logVars>>
       \/ job = "users" /\ UsersNext /\ UNCHANGED <<said, filesVars, logVars>>
       \/ job = "log" /\ LogNext /\ UNCHANGED <<said, filesVars, usersVars>>
       \/ job = "text" /\ TextNext /\ UNCHANGED <<filesVars, usersVars, logVars>>

CallsSpec == CallsInit /\ [][CallsNext]_callsVars

------------------------------------------------------------------------------
\* The calls are made on what they may be made on, and return what they may return.
CallsTypeOK == FilesTypeOK /\ UsersTypeOK /\ LogTypeOK

(***************************************************************************)
(* fnmatch matches the names that the pieces of its pattern stand for,     *)
(* taken one after the other, under every combination of the flags; but    *)
(* for what is behind a star when periods and slashes are both looked at.  *)
(***************************************************************************)
NamesMatched ==
    said.call = "fnmatch" =>
        Match!MatchedRight(said.pieces, said.flags, MatchNames, said.names)

(***************************************************************************)
(* glob is called for each pattern that a word with braces, also nested    *)
(* ones, stands for, once and in order; brackets protect what is in them.  *)
(* Excepted are brackets behind text within a brace, which lose this text, *)
(* and an empty brace that is a part of a word.                            *)
(***************************************************************************)
BracesRight ==
    said.call = "glob" => Brace!ExpandedRight(said.word, said.patterns)

(***************************************************************************)
(* An address of one to four numbers, decimal, octal or (without letters)  *)
(* hexadecimal, is read as it is meant, the last number filling the bytes  *)
(* that are left, and refused when that number is too large for them or    *)
(* something other than a blank follows.                                   *)
(***************************************************************************)
AddressRight ==
    said.call = "ascii2addr" => AddressReadRight(said.numbers, said.tail, said.address)
================================================================================
