-------------------------------- MODULE UserDb --------------------------------
(***************************************************************************)
(* pwd.c, uid.c, wsdb.c, makeunixpath.c and globtilde of glob.c: looking   *)
(* up users in \etc\passwd and services in \etc\services, both below the   *)
(* directory that the registry value UNIXROOTDIR names, or below \ when    *)
(* it names none.                                                          *)
(*                                                                         *)
(* The open file of setpwent is a static variable, and so is the record a  *)
(* lookup returns.  endpwent closes the file but keeps the pointer.  A     *)
(* lookup reads line by line; meanwhile another process may add users with *)
(* putpwent, whose line may reach the file in two parts.  getpwent takes a *)
(* line it cannot read for the end of the file.                            *)
(***************************************************************************)
EXTENDS Integers, Sequences, FiniteSets

CONSTANTS
    Entries,    \* lines of the file: records of a name, a uid and a home
    Services,   \* names of services
    Streams,    \* FILE pointers: fopen fails when all are in use
    MaxLines,   \* bound: lines of the file
    Unreadable, \* a line that is blank or has too few colons
    Null        \* no stream, no file, no user

ASSUME EntriesAssumption ==
    /\ \A e \in Entries : /\ DOMAIN e = {"name", "uid", "home"}
                          /\ e.uid \in Nat /\ e.home \in {"path", "drive"}
    /\ Unreadable \notin Entries
ASSUME BoundsAssumption == MaxLines \in Nat /\ IsFiniteSet(Streams)

VARIABLES
    passwd,     \* the lines of the file, or Null when there is none
    half,       \* the newline of its last line has not been written yet
    services,   \* what \etc\services lists, or Null when there is no such file
    root,       \* the type of the registry value UNIXROOTDIR, Null when it is not there
    atDevice,   \* the files are below the device's root, not below UNIXROOTDIR
    _unixdir,   \* XCEGetUnixPath has read it (and will not do so again)
    stream,     \* the position of each open FILE, Null when it is closed
    fpw,
    scan,       \* what the lookup in progress is after, Null when there is none
    last,       \* the last call that ended, with its result
    holding,    \* history: the program has called setpwent and not yet endpwent
    orderly,    \* history: it has made its calls in that order so far
    closedUsed, \* history: a stream was used after it was closed
    unfound     \* history: how many services were not found in the file

usersVars == <<passwd, half, services, root, atDevice, _unixdir, stream, fpw, scan,
               last, holding, orderly, closedUsed, unfound>>
files == <<passwd, half, services, root, atDevice>>
history == <<holding, orderly, closedUsed, unfound>>

\* putpwent leaves a drive letter away, unless the comment begins with a star.
Put(e, starred) == IF starred THEN e ELSE [e EXCEPT !.home = "path"]

Lines == {Put(e, starred) : e \in Entries, starred \in BOOLEAN} \cup {Unreadable}
Names == {e.name : e \in Entries}
Uids == {e.uid : e \in Entries}
Key == [name : Names] \cup [uid : Uids \cup {-1}]
\* What a lookup is for and its key; history: the lines of the file when it began.
Scan == [for : {"getpwnam", "getpwuid", "getuid", "tilde", "tilde_uid"}, key : Key,
         known : 0 .. MaxLines]

ASSUME NullAssumption ==
    Null \notin Streams \cup Lines \cup Scan \cup Nat \cup Seq(Lines)

UsersTypeOK ==
    /\ passwd \in Seq(Lines) \cup {Null} /\ half \in BOOLEAN
    /\ services \in (SUBSET Services) \cup {Null}
    /\ root \in {"REG_SZ", "REG_DWORD", Null} /\ atDevice \in BOOLEAN /\ _unixdir \in BOOLEAN
    /\ stream \in [Streams -> Nat \cup {Null}]
    /\ fpw \in Streams \cup {Null}
    /\ scan \in Scan \cup {Null}
    /\ holding \in BOOLEAN /\ orderly \in BOOLEAN /\ closedUsed \in BOOLEAN
    /\ unfound \in Nat

Called(call, result) == [call |-> call, result |-> result]

UsersInit ==
    /\ passwd \in (UNION {[1 .. n -> Lines] : n \in 0 .. MaxLines}) \cup {Null}
    /\ half = FALSE
    /\ services \in (SUBSET Services) \cup {Null}
    /\ root \in {"REG_SZ", "REG_DWORD", Null} /\ atDevice \in BOOLEAN /\ _unixdir = FALSE
    /\ stream = [s \in Streams |-> Null]
    /\ fpw = Null /\ scan = Null
    /\ last = Called("none", Null)
    /\ holding = FALSE /\ orderly = TRUE /\ closedUsed = FALSE /\ unfound = 0

Returns(what) == last' = what

------------------------------------------------------------------------------
(* Streams *)

Closed == {s \in Streams : stream[s] = Null}
Opens(s) == stream' = [stream EXCEPT ![s] = 0]

XCERegQueryValueExA == [found |-> root # Null, type |-> root]

\* Whether the buffer is given a string; if not it is empty.
XCEGetEnvironmentVariableFromRegA ==
    LET value == XCERegQueryValueExA IN value.found /\ value.type = "REG_SZ"

\* The files are below the directory a call has found, or below \ if it found none.
Reaches(rootFound) == rootFound = ~atDevice

\* setpwent: fpw is set to what fopen returns, whatever it was.  The path is read
\* from the registry each time, and whether that succeeds is not looked at.
_setpwent ==
    IF passwd # Null /\ Reaches(XCEGetEnvironmentVariableFromRegA) /\ Closed # {}
    THEN \E s \in Closed : Opens(s) /\ fpw' = s
    ELSE fpw' = Null /\ UNCHANGED stream

\* A closed FILE may be used like any other: nobody knows what comes of it, here
\* it is at its end.
Misuse(s) == s # Null /\ stream[s] = Null

\* The line getpwent reads next, Null when it returns NULL: at the end, at a line
\* without a newline, a blank one or one with too few colons.
NextLine ==
    IF fpw = Null \/ Misuse(fpw) THEN Null
    ELSE LET i == stream[fpw] + 1
         IN  IF i > Len(passwd) \/ (i = Len(passwd) /\ half) THEN Null
             ELSE IF passwd[i] = Unreadable THEN Null ELSE passwd[i]

\* A line is read even when it cannot be used; what comes after half a line is not
\* told from the next line.
Advanced ==
    IF fpw = Null \/ Misuse(fpw) \/ stream[fpw] >= Len(passwd) THEN stream
    ELSE [stream EXCEPT ![fpw] = @ + 1]

\* A home directory with a drive letter is cut at its colon.
Parsed(line) == IF line.home = "drive" THEN [line EXCEPT !.home = "letter"] ELSE line

_endpwent(streams) == IF fpw = Null THEN streams ELSE [streams EXCEPT ![fpw] = Null]

------------------------------------------------------------------------------
(* The program's calls *)

\* Not within a lookup, nor between the two of ~.
Idle == scan = Null /\ last.call # "tilde_uid"

setpwent ==
    /\ Idle /\ _setpwent
    /\ Returns(Called("setpwent", Null))
    /\ holding' = TRUE /\ orderly' = (orderly /\ ~holding)
    /\ UNCHANGED <<files, _unixdir, scan, closedUsed, unfound>>

getpwent ==
    /\ Idle
    /\ stream' = Advanced
    /\ Returns(Called("getpwent", IF NextLine = Null THEN Null ELSE Parsed(NextLine)))
    /\ orderly' = (orderly /\ holding)
    /\ closedUsed' = (closedUsed \/ Misuse(fpw))
    /\ UNCHANGED <<files, _unixdir, fpw, scan, holding, unfound>>

endpwent ==
    /\ Idle
    /\ stream' = _endpwent(stream)
    /\ Returns(Called("endpwent", Null))
    /\ holding' = FALSE /\ orderly' = (orderly /\ holding)
    /\ closedUsed' = (closedUsed \/ Misuse(fpw))
    /\ UNCHANGED <<files, _unixdir, fpw, scan, unfound>>

------------------------------------------------------------------------------
(* Lookups *)

Complete == IF passwd = Null THEN 0 ELSE IF half THEN Len(passwd) - 1 ELSE Len(passwd)

Begins(for, key) ==
    /\ _setpwent
    /\ scan' = [for |-> for, key |-> key, known |-> Complete]

Lookup(for, key) ==
    /\ Idle /\ Begins(for, key)
    /\ orderly' = (orderly /\ ~holding)
    /\ UNCHANGED <<files, _unixdir, last, holding, closedUsed, unfound>>

getpwnam(name) == Lookup("getpwnam", [name |-> name])
getpwuid(uid) == Lookup("getpwuid", [uid |-> uid])

\* getuid looks USERNAME up.  ~name is looked up, ~ alone when HOME is not set: as
\* getuid does, and then by the number it returns.
getuid(name) == Lookup("getuid", [name |-> name])
globtilde(name) == Lookup("tilde", [name |-> name])
globtildeHome(name) == Lookup("tilde_uid", [name |-> name])

\* Without USERNAME there is nobody to look for.
getuidUnnamed ==
    /\ Idle /\ Returns(Called("getuid", -1))
    /\ UNCHANGED <<files, _unixdir, stream, fpw, scan, history>>

Fits(key, line) == \A k \in DOMAIN key : key[k] = line[k]
Uid(line) == IF line = Null THEN -1 ELSE line.uid

\* Mutant of ScanStep: returns from the middle of the loop with the file open.
ScanStepLeaves ==
    LET line == NextLine
    IN  /\ scan # Null
        /\ stream' = IF line = Null THEN _endpwent(Advanced) ELSE Advanced
        /\ closedUsed' = (closedUsed \/ Misuse(fpw))
        /\ IF line # Null /\ ~Fits(scan.key, line) THEN UNCHANGED <<scan, last>>
           ELSE /\ scan' = Null
                /\ Returns(Called(scan.for, IF line = Null THEN Null ELSE Parsed(line)))
        /\ UNCHANGED <<files, _unixdir, fpw, holding, orderly, unfound>>

\* Mutant of ScanStep: ends at the last line it has read.
ScanStepShort ==
    LET line == NextLine
        end == line = Null \/ stream[fpw] + 1 = Len(passwd)
    IN  /\ scan # Null
        /\ stream' = IF end \/ Fits(scan.key, line) THEN _endpwent(Advanced) ELSE Advanced
        /\ closedUsed' = (closedUsed \/ Misuse(fpw))
        /\ IF ~end /\ ~Fits(scan.key, line) THEN UNCHANGED <<scan, last>>
           ELSE /\ scan' = Null
                /\ Returns(Called(scan.for, IF end THEN Null ELSE Parsed(line)))
        /\ UNCHANGED <<files, _unixdir, fpw, holding, orderly, unfound>>

\* One round of the loop in getpwnam and getpwuid.
ScanStep ==
    LET line == NextLine
    IN  /\ scan # Null
        /\ closedUsed' = (closedUsed \/ Misuse(fpw))
        /\ IF line # Null /\ ~Fits(scan.key, line)
           THEN stream' = Advanced /\ UNCHANGED <<scan, last>>
           ELSE /\ stream' = _endpwent(Advanced)
                /\ scan' = Null
                /\ Returns(Called(scan.for, IF line = Null THEN Null ELSE Parsed(line)))
        /\ UNCHANGED <<files, _unixdir, fpw, holding, orderly, unfound>>

\* The second lookup of ~, also when getuid has returned -1.
TildeUid ==
    /\ scan = Null /\ last.call = "tilde_uid"
    /\ Begins("tilde", [uid |-> Uid(last.result)])
    /\ UNCHANGED <<files, _unixdir, last, history>>

------------------------------------------------------------------------------
(* Services *)

\* XCEGetUnixPath keeps the root once it has found one.
XCEGetUnixPath == _unixdir' = (_unixdir \/ XCEGetEnvironmentVariableFromRegA)

getservbyname(name) ==
    /\ Idle /\ XCEGetUnixPath
    /\ IF services = Null \/ ~Reaches(_unixdir') \/ Closed = {}
       THEN Returns(Called("getservbyname", Null)) /\ UNCHANGED <<stream, unfound>>
       ELSE IF name \in services
            THEN Returns(Called("getservbyname", name)) /\ UNCHANGED <<stream, unfound>>
            ELSE /\ \E s \in Closed : Opens(s)
                 /\ Returns(Called("getservbyname", Null)) /\ unfound' = unfound + 1
    /\ UNCHANGED <<files, fpw, scan, holding, orderly, closedUsed>>

------------------------------------------------------------------------------
(* Other processes *)

putpwent(e, starred) ==
    /\ passwd # Null /\ ~half /\ Len(passwd) < MaxLines
    /\ passwd' = Append(passwd, Put(e, starred)) /\ half' = TRUE
    /\ UNCHANGED <<services, root, atDevice, _unixdir, stream, fpw, scan, last, history>>

Flush ==
    /\ half /\ half' = FALSE
    /\ UNCHANGED <<passwd, services, root, atDevice, _unixdir, stream, fpw, scan, last, history>>

SetRoot ==
    /\ root' \in {"REG_SZ", "REG_DWORD", Null}
    /\ UNCHANGED <<passwd, half, services, atDevice, _unixdir, stream, fpw, scan, last, history>>

UsersNext ==
    \/ setpwent \/ getpwent \/ endpwent \/ ScanStep \/ TildeUid \/ getuidUnnamed
    \/ \E n \in Names : getpwnam(n) \/ getuid(n) \/ globtilde(n) \/ globtildeHome(n)
    \/ \E u \in Uids : getpwuid(u)
    \/ \E s \in Services : getservbyname(s)
    \/ \E e \in Entries, starred \in BOOLEAN : putpwent(e, starred)
    \/ Flush \/ SetRoot

UsersSpec == UsersInit /\ [][UsersNext]_usersVars

------------------------------------------------------------------------------
\* The entries a reader expects among the first n lines: those that fit, as far as
\* the lines before them can be read.
Fitting(n, key) ==
    {i \in 1 .. n : /\ \A j \in 1 .. i : passwd[j] # Unreadable
                    /\ Fits(key, passwd[i])}
FirstOf(lines) == Parsed(passwd[CHOOSE i \in lines : \A j \in lines : i <= j])

(***************************************************************************)
(* A lookup that could open the file finds a user who was in it when the   *)
(* lookup began, and the first entry if there are two, although users are  *)
(* added meanwhile; and it finds nobody who is not in it.                  *)
(***************************************************************************)
UsersFound ==
    [][scan # Null /\ scan' = Null /\ fpw # Null /\ orderly =>
          LET before == Fitting(scan.known, scan.key)
          IN  IF before # {} THEN last'.result = FirstOf(before)
              ELSE last'.result # Null =>
                      LET now == Fitting(Len(passwd), scan.key)
                      IN  now # {} /\ last'.result = FirstOf(now)]_usersVars

(***************************************************************************)
(* A program that calls setpwent, getpwent and endpwent in turn, and looks *)
(* nobody up in between, uses no closed stream and leaves none open, but   *)
(* for one at each service that was not found.                             *)
(***************************************************************************)
StreamsAccounted ==
    orderly => /\ ~closedUsed
               /\ Cardinality(Streams \ Closed) =
                     unfound + IF (holding \/ scan # Null) /\ fpw # Null THEN 1 ELSE 0
================================================================================
