--------------------------------- MODULE Glob ---------------------------------
(***************************************************************************)
(* glob.c with the flags of ceargv.c (GLOB_ERR, GLOB_NOCHECK,              *)
(* GLOB_NOESCAPE, GLOB_NOMAGIC) and the directories of cedir.c: the names  *)
(* a pattern stands for, while other processes make and remove files.  One *)
(* action is one look at the file system and what follows from it.  The    *)
(* current directory is \, where xceinit calls _setargv.                   *)
(***************************************************************************)
EXTENDS Wildcard, FiniteSets

CONSTANTS
    Files,          \* what can exist, each by the names on the way to it
    Directories,    \* those of Files that are directories
    InitialTrees,   \* the sets of files that exist in the beginning
    Changing,       \* the files other processes make and remove
    MaxChanges      \* bound: how often other processes make or remove a file

Chars == ToSet(Alphabet)
Text == Seq(Chars)

ASSUME FilesAssumption ==
    /\ Files \subseteq Seq(Text) \ {<<>>}
    /\ Directories \subseteq Files /\ Changing \subseteq Files
    /\ InitialTrees \subseteq SUBSET Files
    /\ MaxChanges \in Nat

VARIABLES
    tree,       \* the files that exist
    changes,    \* how often that changed
    always,     \* the files that existed all through the current call of glob
    ever,       \* the files that existed at some time during the call
    gpc,        \* where glob is
    pattern,    \* its argument
    path, pat,  \* the arguments of glob2: the path so far, the rest of the pattern
    dirs,       \* the frames of glob3, the innermost last
    open,       \* the number of open DIRs
    pathv,      \* gl_pathv
    aborted     \* a call of glob returned GLOB_ABORTED

files == <<tree, changes, always, ever>>
glob_t == <<gpc, pattern, path, pat, dirs, open, pathv, aborted>>

Tokens == {Literal(c) : c \in Chars} \cup {M_ALL}
          \cup [kind : {"set"}, chars : SUBSET Chars, negate : BOOLEAN]

FrameTypeOK(d) ==
    /\ d.path \in Text /\ d.pattern \in Seq(Tokens) /\ d.rest \in Seq(Tokens)
    /\ d.loc \in 0..2 /\ d.first \subseteq Text /\ d.seen \subseteq Text

GlobTypeOK ==
    /\ tree \subseteq Files /\ changes \in 0..MaxChanges
    /\ always \subseteq tree \cap ever /\ ever \subseteq Files
    /\ gpc \in {"idle", "glob2", "glob3", "unwind", "done"}
    /\ pattern \in Text /\ path \in Text
    /\ pat \in Seq(Tokens)
    /\ \A i \in DOMAIN dirs : FrameTypeOK(dirs[i])
    /\ open \in Nat /\ aborted \in BOOLEAN
    /\ pathv \in Seq(Text)

GlobInit ==
    /\ tree \in InitialTrees /\ changes = 0 /\ always = tree /\ ever = tree
    /\ gpc = "idle" /\ pattern = <<>> /\ path = <<>> /\ pat = <<>>
    /\ dirs = <<>> /\ open = 0 /\ pathv = <<>> /\ aborted = FALSE

------------------------------------------------------------------------------
(* The file system *)

\* The names between the separators of a path.
Components(w) ==
    LET Read(names, c) == IF c = "/" THEN Append(names, <<>>)
                          ELSE [names EXCEPT ![Len(names)] = Append(@, c)]
    IN  SelectSeq(FoldLeft(Read, << <<>> >>, w), LAMBDA n : n # <<>>)

\* XCEFixPathA: . and .. are removed from the name, whatever exists.
Location(names) ==
    LET Go(at, n) == CASE n = <<".">> -> at
                       [] n = <<".", ".">> -> IF at = <<>> THEN at ELSE Front(at)
                       [] OTHER -> Append(at, n)
    IN  FoldLeft(Go, <<>>, names)

XCEFixPath(w) == Location(Components(w))

Exists(fs, at) == at = <<>> \/ at \in fs
IsDirectory(fs, at) == at = <<>> \/ at \in fs \cap Directories
Entries(at) == {Last(f) : f \in {f \in tree : Front(f) = at}}

\* Another process makes or removes a file or an empty directory.
Change ==
    /\ gpc \in {"glob2", "glob3"} /\ changes < MaxChanges
    /\ changes' = changes + 1
    /\ \/ \E f \in Changing \ tree : IsDirectory(tree, Front(f)) /\ tree' = tree \cup {f}
       \/ \E f \in Changing \cap tree : (\A g \in tree : Front(g) # f) /\ tree' = tree \ {f}
    /\ always' = always \cap tree' /\ ever' = ever \cup tree'
    /\ UNCHANGED glob_t

------------------------------------------------------------------------------
(* glob *)

\* glob, glob0 and glob1, up to the first look at the file system.
GlobCall(w) ==
    /\ gpc = "idle" /\ gpc' = "glob2"
    /\ pattern' = w /\ pat' = Compile(w) /\ path' = <<>>
    /\ pathv' = <<>> /\ always' = tree /\ ever' = tree
    /\ UNCHANGED <<tree, changes, dirs, open, aborted>>

TextOf(tokens) == [i \in DOMAIN tokens |-> tokens[i].char]

FirstMeta == SelectInSeq(pat, ismeta)

\* Where the segment with the first meta character starts, and its last character.
SegmentStart == SelectLastInSubSeq(pat, 1, FirstMeta, LAMBDA t : t = SEP) + 1
SegmentEnd ==
    LET sep == SelectInSubSeq(pat, FirstMeta, Len(pat), LAMBDA t : t = SEP)
    IN  IF sep = 0 THEN Len(pat) ELSE sep - 1

globextend(p) == Append(pathv, p)

\* No meta character is left: the path is there or it is not.
Glob2End ==
    /\ gpc = "glob2" /\ FirstMeta = 0
    /\ path' = path \o TextOf(pat) /\ pat' = <<>>
    /\ pathv' = IF Exists(tree, XCEFixPath(path')) THEN globextend(path') ELSE pathv
    /\ gpc' = "glob3"
    /\ UNCHANGED <<files, pattern, dirs, open, aborted>>

\* glob3 up to opendir.  dd_loc counts the two names readdir makes up; first are
\* the names that were there when FindFirstFile was called.
Opendir ==
    /\ gpc = "glob2" /\ FirstMeta # 0
    /\ path' = path \o TextOf(SubSeq(pat, 1, SegmentStart - 1)) /\ pat' = <<>>
    /\ IF IsDirectory(tree, XCEFixPath(path'))
       THEN /\ dirs' = Append(dirs, [path |-> path',
                                     pattern |-> SubSeq(pat, SegmentStart, SegmentEnd),
                                     rest |-> SubSeq(pat, SegmentEnd + 1, Len(pat)),
                                     loc |-> 0, first |-> {}, seen |-> {}])
            /\ open' = open + 1 /\ gpc' = "glob3"
            /\ UNCHANGED aborted
       ELSE gpc' = "unwind" /\ aborted' = TRUE /\ UNCHANGED <<dirs, open>>
    /\ UNCHANGED <<files, pattern, pathv>>

\* FindFirstFile and FindNextFile: a name that is there and was not given yet, in
\* any order; NULL when all that were there from the first to the last call are out.
Listed(d) == IF d.loc = 2 /\ d.seen = {} THEN Entries(XCEFixPath(d.path)) ELSE d.first
Found(d) == Entries(XCEFixPath(d.path)) \ d.seen
NoMore(d) == Listed(d) \cap Found(d) = {}

readdir(d, n) ==
    CASE d.loc = 0 -> n = <<".">>
      [] d.loc = 1 -> n = <<".", ".">>
      [] d.loc = 2 -> n \in Found(d)

Advance(d, n) ==
    IF d.loc < 2 THEN [d EXCEPT !.loc = @ + 1]
    ELSE [d EXCEPT !.first = Listed(d), !.seen = @ \cup {n}]

\* An initial dot is matched by a dot only.
Hidden(d, n) == n[1] = "." /\ d.pattern[1] # DOT

Readdir ==
    /\ gpc = "glob3" /\ dirs # <<>>
    /\ LET d == Last(dirs)
       IN  \E n \in {<<".">>, <<".", ".">>} \cup Found(d) :
              /\ readdir(d, n)
              /\ dirs' = [dirs EXCEPT ![Len(dirs)] = Advance(d, n)]
              /\ IF ~Hidden(d, n) /\ match(n, d.pattern)
                 THEN gpc' = "glob2" /\ path' = d.path \o n /\ pat' = d.rest
                 ELSE UNCHANGED <<gpc, path, pat>>
    /\ UNCHANGED <<files, pattern, open, pathv, aborted>>

\* Mutant of Closedir: on an error the DIR stays open.
ClosedirEnd ==
    /\ gpc \in {"glob3", "unwind"} /\ dirs # <<>>
    /\ gpc = "glob3" => Last(dirs).loc = 2 /\ NoMore(Last(dirs))
    /\ dirs' = Front(dirs) /\ open' = IF gpc = "unwind" THEN open ELSE open - 1
    /\ UNCHANGED <<files, gpc, pattern, path, pat, pathv, aborted>>

\* closedir, behind the last name or on an error from the loop.
Closedir ==
    /\ gpc \in {"glob3", "unwind"} /\ dirs # <<>>
    /\ gpc = "glob3" => Last(dirs).loc = 2 /\ NoMore(Last(dirs))
    /\ dirs' = Front(dirs) /\ open' = open - 1
    /\ UNCHANGED <<files, gpc, pattern, path, pat, pathv, aborted>>

\* glob0 behind glob1: the matches are sorted, or there is the pattern if there are
\* none; an error is returned at once.
GlobReturn ==
    /\ gpc \in {"glob3", "unwind"} /\ dirs = <<>> /\ gpc' = "done"
    /\ IF gpc = "unwind" THEN pathv' = pathv
       ELSE IF pathv = <<>> THEN pathv' = globextend(pattern)
       ELSE \E order \in Bijection(DOMAIN pathv, DOMAIN pathv) :
               /\ pathv' = [i \in DOMAIN pathv |-> pathv[order[i]]]
               /\ \A i, j \in DOMAIN pathv : i < j => ~Before(pathv'[j], pathv'[i])
    /\ path' = <<>>
    /\ UNCHANGED <<files, pattern, pat, dirs, open, aborted>>

GlobStep == Glob2End \/ Opendir \/ Readdir \/ Closedir \/ GlobReturn
==============================================================================
