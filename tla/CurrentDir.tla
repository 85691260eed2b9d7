------------------------------ MODULE CurrentDir ------------------------------
(***************************************************************************)
(* currentdir.c and findfile.c: the current directory and the root of a    *)
(* thread (of the process without _MT), kept as strings, and what a file   *)
(* name given to the library reaches.  FixPath says how strings are        *)
(* written.                                                                *)
(*                                                                         *)
(* The file system is a fixed tree of directories and files, each named by *)
(* the names on the way to it; it takes any number of separators between   *)
(* names but no separator at the end, no "." and no ".." (test1.c:609).    *)
(* The build is the makefile's, without USE_CHROOT.                        *)
(***************************************************************************)
EXTENDS FixPath

CONSTANTS
    Dirs, Files,    \* the tree
    Paths,          \* the names callers use
    InitialDir,     \* \ without _MT and after xceinit, empty in a new thread
    MaxSegments,    \* bounds the string chdir keeps, as MAX_PATH does
    ENOENT, ENOTDIR, ENOSYS

ASSUME TreeAssumption ==
    /\ <<>> \in Dirs /\ Dirs \cap Files = {}
    /\ {ENOENT, ENOTDIR} \cap (Dirs \cup Files) = {}
ASSUME NamesAssumption ==
    /\ Paths \subseteq [abs : BOOLEAN, segs : Seq(STRING) \ {<<>>}]
    /\ InitialDir \in {<<>>, <<"">>}

VARIABLES
    croot,  \* _current_root_dirw
    cdir,   \* _current_dirw
    call    \* the last call, its argument and what it answered

vars == <<croot, cdir, call>>

\* The names between the separators of a string.
Names(s) ==
    LET names[i \in 0 .. Len(s)] ==
            IF i = 0 THEN <<>>
            ELSE IF s[i] = "" THEN names[i - 1] ELSE Append(names[i - 1], s[i])
    IN  names[Len(s)]

Unix == INSTANCE UnixCwd WITH where <- Names(cdir)

Init == croot = <<"">> /\ cdir = InitialDir /\ call = Unix!None

------------------------------------------------------------------------------
\* The system's answer for a string.
System(s) ==
    LET wellFormed == /\ s # <<>>
                      /\ Names(s) # <<>> => Last(s) # ""
                      /\ \A i \in DOMAIN s : s[i] \notin {".", ".."}
    IN  IF wellFormed /\ Names(s) \in Dirs \cup Files THEN Names(s) ELSE ENOENT

Called(op, p, r) == call' = [op |-> op, path |-> p, result |-> r]

\* The check XCESetCurrentDirectoryW and XCESetCurrentRootDirectoryW share.
DirectoryCheck(s) == IF System(s) \in Files THEN ENOTDIR ELSE System(s)

\* Mutant of XCESetCurrentDirectory: keeps the caller's name.
XCESetCurrentDirectoryRaw(p) ==
    LET s == XCEFixPath(cdir, p)
        raw == IF p.abs THEN p.segs ELSE cdir \o p.segs
    IN  /\ Len(raw) <= MaxSegments
        /\ Called("chdir", p, DirectoryCheck(s))
        /\ cdir' = IF DirectoryCheck(s) \in Dirs THEN raw ELSE cdir
        /\ UNCHANGED croot

XCESetCurrentDirectory(p) ==
    LET s == XCEFixPath(cdir, p)
    IN  /\ Len(s) <= MaxSegments
        /\ Called("chdir", p, DirectoryCheck(s))
        /\ cdir' = IF DirectoryCheck(s) \in Dirs THEN s ELSE cdir
        /\ UNCHANGED croot

\* Programs and xceinit may set it; in this build no name is taken from it.
XCESetCurrentRootDirectory(p) ==
    LET s == XCEFixPath(cdir, p)
    IN  /\ Len(s) <= MaxSegments
        /\ Called("root", p, DirectoryCheck(s))
        /\ croot' = IF DirectoryCheck(s) \in Dirs THEN s ELSE croot
        /\ UNCHANGED cdir

xcechroot(p) == Called("chroot", p, ENOSYS) /\ UNCHANGED <<croot, cdir>>

\* Every call that opens, copies, moves, removes or stats a file.
FileCall(p) == Called("file", p, System(XCEFixPath(cdir, p))) /\ UNCHANGED <<croot, cdir>>

\* What FindFirstFile gets for ".": the current directory as it is kept; and for
\* "..": that up to its last separator.
Listed(p) ==
    IF p = [abs |-> FALSE, segs |-> <<".">>] THEN cdir
    ELSE IF p = [abs |-> FALSE, segs |-> <<"..">>]
    THEN IF Len(cdir) <= 1 THEN <<"">> ELSE Front(cdir)
    ELSE XCEFixPath(cdir, p)

XCEFindFirstFile(p) == Called("find", p, System(Listed(p))) /\ UNCHANGED <<croot, cdir>>

Next == \E p \in Paths :
    \/ XCESetCurrentDirectory(p) \/ XCESetCurrentRootDirectory(p) \/ xcechroot(p)
    \/ FileCall(p) \/ XCEFindFirstFile(p)

Spec == Init /\ [][Next]_vars

------------------------------------------------------------------------------
(* Properties *)

\* A name reaches what a walk from the root or the current directory leads to,
\* whatever was called before, and chdir goes there if it is a directory
\* (fixpath.c:47-68, currentdir.c:53-76, findfile.c:91-111).
ImplementsUnixCwd == Unix!Spec

\* The current directory, given back to chdir, stays what it is: a parent passes
\* it to its child as a string in PWD (ceprocess.c:95-98, cestdlib.c:57-58).
CwdSurvivesPassing == XCEFixPath(<<"">>, [abs |-> TRUE, segs |-> cdir]) = cdir

\* The argument of a call matters to the answer alone.
WithoutArgument == <<croot, cdir, call.op, call.result>>
==============================================================================
