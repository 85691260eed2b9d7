# A TLA+ model of CELib

CELib (Rainer Keuchel, 2001) is a C library that gives Unix and ANSI-Win32
programs the calls Windows CE lacks: file descriptors over handles, a current
directory, an environment, per-thread data, process creation, directory
streams, globbing, the password file, `rcmd` and `rexec`. A program includes
`celib.h`, which maps `open`, `read`, `fopen`, `chdir`, `getenv` and so on to
the `xce` functions, and links the library statically. The default build is
single-threaded; the `WINCE_MT` configurations define `_MT`, which moves
`errno` and the current directory into per-thread data.

## Inventory

| component | state | operations | what makes it hard | what makes it correct |
|---|---|---|---|---|
| descriptor table (`ceio.c`, `cestdio.c`, `ftruncate.c`, `xcefstat`) | `_fdtab[100]`: descriptor, type, handle per slot; the CRT's FILEs; the kernel's handles | open, creat, close, read, write, lseek, ftruncate, fstat, fopen, fdopen, freopen, fclose, fileno | slots are never cleared, streams are found by handle, handle values are reused, the table is bounded, nothing is locked | each live slot owns its handle; a stream is found in the slot it was given; nothing open is unreachable |
| threads (`cethread.c`) | the TLS index, one `_tiddata` block per thread | `_beginthread`, `_threadstart`, `_endthread`, `_getptd`, `_freeptd` | creator and child share the block and the handle; resume can fail; lazy allocation | a block is freed once, by its thread, never used after; a handle is closed once |
| current directory, paths (`currentdir.c`, `fixpath.c`, `findfile.c`) | current and root directory, per process or per thread | set, get, fix a path, canonicalise | `.`/`..` at the root, doubled and trailing slashes | a name reaches the file Unix would reach; the directory is a string chdir takes unchanged |
| processes (`ceprocess.c`, `xceinit`) | the global registry value `PWD`, the child's copy | search, execute, wait; start-up of the child | the registry value is shared by all processes and read later than it is written | a child starts in its parent's directory |
| environment (`ceenv.c`) | a growing array of `NAME=value` strings | init from the registry, getenv, putenv | growth, NULL termination, a registry that changes while it is read, names that begin with another | the vector is ended; no value is missed; a lookup returns the last value put, under that name or a beginning of it |
| command line (`ceargv.c`) | a growing array of pointers into the line and into glob's vectors | split, glob, append | the line is cut while pointers into it are stored; quoting; growth | the arguments are what the words stand for |
| file calls (`cestdlib.c`, `copyfile.c`, `movefile.c`, ...) | the file system | rename, remove, unlink, mkdir, rmdir, chmod, access, mktemp, open, copy, move | several steps, each of which may fail; check then act; other processes and kills in between | a name is lost only when somebody asked for it; a temporary name is free until it is opened |
| directories (`cedir.c`) | a DIR with a find handle and a position | opendir, readdir, closedir | two invented entries, a static result | each entry once |
| globbing (`glob.c`, `fnmatch.c`, NetBSD) | a vector of paths, a frame with an open directory per segment | glob with braces and tilde, globfree, fnmatch | recursion; files that come and go meanwhile; directories that cannot be opened; braces within brackets within braces | every match once, in order; all directories closed; a pattern matches what its pieces stand for |
| options (`getopt.c`, NetBSD) | a pointer into argv kept between calls | getopt, optreset | a program that starts over in the middle | the options are what the arguments say |
| users and services (`pwd.c`, `uid.c`, `wsdb.c`, `makeunixpath.c`) | a FILE position and a static record; the root directory, read once | setpwent, getpwent, endpwent, getpwnam, getpwuid, getuid, putpwent, getservbyname | closed twice, malformed lines, lines other processes are adding, streams left open | a lookup finds the first entry that was in the file when it began; no stream is used after it is closed |
| remote commands (`rcmd.c`, `rexec.c`) | two circuits, a port counter, a pause | rresvport, rcmd, rexec | retries, back-off, a server that dies, strangers, clean-up on each failure | no socket leaks; the announced port is the one listened on; pauses end |
| syslog (`syslog.c`) | the tag; a file shared by processes | openlog, syslog, closelog | a message is two writes, the end of the file is looked for once | the file is what was written to it |
| addresses (`inet_aton.c`, `ascii2addr.c`) | none | inet_aton, ascii2addr | up to four numbers in three bases, with bounds that depend on their count | an address is read as it is meant or refused |
| registry, errno, Win32 wrappers, time | little or none | | | conversions |

Components meet in four places: `xceinit` (called by `cert0.c` before the
program's `main`) allocates the TLS index, fills argv and the environment and
sets the current directory; every call that takes a file name goes through
`XCEFixPath` and so through the current directory; `stdio` and the descriptor
calls share the table; and a parent hands its directory to a child through the
registry value `PWD`, which `_initenv` of the child reads. The table, the
environment and the current directory of the default build are plain static
variables without locks.

## Modules

| module | models | proofs |
|---|---|---|
| `Descriptors` | what a Unix program expects of descriptors and streams (abstract) | |
| `FdTable` | `ceio.c`, `cestdio.c`, `ftruncate.c`, `xcefstat` | `FdTableProofs` |
| `ThreadLocal` | one cell of private data per thread (abstract) | |
| `CeThread` | `cethread.c` | `CeThreadProofs` |
| `FixPath` | `fixpath.c`, as operators on segments | |
| `UnixCwd` | a Unix walk from the current directory (abstract) | |
| `CurrentDir` | `currentdir.c`, `findfile.c`, the name side of every file call | `CurrentDirProofs` |
| `CwdPassing` | `XCEExecuteProcessA`, `wWinMain`, `xceinit` in several processes | `CwdPassingProofs` |
| `Rcmd` | `rcmd.c`, `rexec.c`, the server and strangers | `RcmdProofs` |
| `EnvMap` | a map from names to values (abstract) | |
| `Environ` | `ceenv.c`, the registry and those who write to it | `EnvironProofs` |
| `Wildcard` | the patterns of `glob.c`: compilation and `match`, as operators | |
| `Glob` | `glob.c` and `cedir.c` over files that others change | |
| `Getopt` | `getopt.c`, with argv as a parameter | |
| `CommandLine` | `ceargv.c`, composed with `Glob` and `Getopt` | `CommandLineProofs` |
| `Files` | the file calls of `cestdlib.c` and the wrappers below them, in several processes | `CallsProofs` |
| `UserDb` | `pwd.c`, `uid.c`, `wsdb.c`, the tilde of `glob.c` | `CallsProofs` |
| `Syslog` | `syslog.c`, in several processes | `CallsProofs` |
| `Fnmatch` | `fnmatch.c`, as operators | |
| `Braces` | the braces of `glob.c`, as operators | |
| `InetAddr` | `inet_aton.c`, `ascii2addr.c`, as operators | |
| `Calls` | the last six together: a program that uses one of them | |

`MC...` modules give the constants their values for TLC and define symmetry and
views. Definitions keep the names of the C functions, without a leading `_`
where TLA+ would object. A definition that comes directly before another one
and is called after it with a suffix ("Mutant of ...") is a wrong version of
it: the tests of the properties replace one by the other.

### FdTable

`fdtab` is `_fdtab`, `fdsinitialized` its flag; `osOpen` is the set of handles
the system holds open, `stream` the handle under each FILE. The actions are the
calls, each from its first test to its return, since the default build has one
thread. Two things of the code are kept that a reader would like to forget:
closing leaves the handle in the slot, and `xcefclose` and `xcefileno` compare
handles with all slots, vacant or not. `_getnewfd` may answer -1, and nobody
tests it: the stores then go to no slot, and the handle is `lost`. `Liberties`
says which calls a program makes that the table has no answer for: sockets put
into slots by the program, closing descriptors 0 to 2, freopen.

Unix's rule that a descriptor under a stream is closed by `fclose` is a
precondition (`MayClose`): without it two slots could name one handle by the
program's own doing.

### CeThread

One action per access to memory two threads can reach: `__tlsindex`, the block,
the handle in it, the TLS slot. `pc` is where each thread is; `ptd` its local
variable; `block` and `heap` the memory; `handle` the set of threads whose
handle is open. A block has two fields: the handle, and one cell that stands
for `errno` and the current directory alike, since both are reached through
`_getptd`. calloc, CreateThread, ResumeThread and the first TlsSetValue of a thread
may fail; at the last one the program aborts (cethread.c:69). `RawThreads` are
made with CreateThread and get their block on first use.

### FixPath and CurrentDir

A string is the sequence of what stands between its separators, so a doubled
separator is an empty segment. `XCECanonicalizePath` goes through the segments, a
recursive function with one step (`Written`) per segment;
`..` drops the last segment, empty or not, as the code goes back to the last
separator. `CurrentDir` has a fixed tree, and a `System` that takes no `.`, no
`..` and no separator at the end (test1.c:609). It is refined against
`UnixCwd`, which walks directory by directory.

### CwdPassing

Processes have a `pc`; `registry` is the key, its values in their order, each a
string, something else or too long for the buffers of `_initenv`; `env` is each
process's `environ` and `cwd` its directory. `ExecWrite` and `ExecCreate` are two
actions because other processes write between them, and `_initenv` is an action per
value read, for the same reason: a new value gets any place in the order, so PWD may
move while a child goes by numbers. A parent may wait or not, the write may fail or
the key not open (`InitEnvOpen`), a value that is too long ends the loop
(`InitEnvEnd`), and directories come and go. A lookup of PWD stops at the first
string whose name is a beginning of it (`Beginnings`: `P`, `PW`); other strings are
passed over and not kept in `env`. The write of `CHILDPATH`, just before that of
PWD, is one of those any program may make (`XCESetEnvironmentVariableInRegA`).

Two variables are history. `waited` says that no parent has gone on without its
child. `trouble` says what became of a directory on its way to a child: the registry
did not take it or was not opened (`refused`), a string or a long value before PWD
hid it while the child read (`hidden`), or another process wrote PWD in between
(`crossed`). `StartsInParentsDirectory` excuses a child from the first two,
after which it cannot find the directory (the findings below tell where that is the
library's fault), and from the third only when a parent has not waited.

### Rcmd

One action per call of the socket library; `lport`, `timo`, `s`, `fd2` are the
C variables, `open` the sockets the call has opened and not closed, `port` the
ports they are bound to. Between any two actions the server may read the port
number and connect back, answer or die, and a stranger may connect to the
second port. `rcmd` and `rexec` differ in two places, the numeric address and
the test of the peer's port (`PeerRefused`); the rest of the two files is the
same code. `lport` plays two parts, and the model keeps both: it counts ports
down, and it is zero when there is no second circuit to close.

### Environ

`environ`, `_envsize` and `_envcount` are the C variables; the vector is a
function on its allocated indices, with `Garbage` where realloc left memory as
it was. `_initenv` is one action per value read, because other processes may
write to the key in between; a value they add gets any place in the order. A
registry value is a string, something else or too long for the buffers.
`_findenv` stops at the first entry whose name is a beginning of the name it
looks for: `Shorter` says which names are beginnings of which.

### Wildcard, Glob, Getopt and CommandLine

`CommandLine` follows a program from the line it is started with to the end of
its options. `line` is the memory that holds the line, with the end of each
word written over; `p`, `s`, `argc`, `size` are the C variables; an entry of
`argv` is a pointer into the line or a string of glob's, so what `main` sees
(`Arguments`) depends on the line as it is in the end. `Glob` has an action per
look at the file system: the test of a path without wildcards, opendir, each
readdir. `dirs` holds the frames of `glob3`. Between any two looks another
process may make or remove a file, and names are listed in any order. A path
that cannot be opened ends the whole call, since `_setargv` passes GLOB_ERR and
an error function that returns -1. `Getopt` has one action per way a call of
getopt can return; `main` calls it until it returns -1, and may start over once,
anywhere, with optreset. `optarg` is the C variable: a flag clears it, an option with
an argument sets it, and every other call leaves it as it was (getopt.c:99, 122).

The properties do not use `Compile`, `match` or the scanner. A word of the line
is given by its pieces, each with its text and the characters it is for;
`Expansions` says which paths such a word stands for, by cutting names into
parts (`Stands`), and `Reading` says what the options of an argument vector
are, argument by argument. `always` and `ever` are history variables: the files
that were there all through a call of glob, and those that were at some time.

Lines close every quote, and quotes surround whole words: behind an unclosed
quote the scanner leaves the line (ceargv.c:89), and a quote within a word loses
what is before it (ceargv.c:86), as the comment at ceargv.c:42 admits
(`LinesAssumption` says so for all lines). Brackets hold no slash. A dash within a
group of options, unless it is an option letter, is answered with -1 without being
passed over (getopt.c:105); `Reading` ends there.

With files that change, what the words with wildcards stand for is only bounded by
`ExpansionRight`. `LiteralsStay` says of the other words, at any time: each is one
argument, as it was written, between those for the words before and behind it.

### Files

`store` is the file system, from names to what is there; a call of the system is
atomic, and `CanDelete`, `CanMove`, `CanCopy`, `CanOpen` say when it succeeds. A
call of the library that makes one call of the system is one action (`Simply`);
rename, chmod, mktemp and the old stat are several, with the other processes in
between: `pc` is where each process is and `arg` its locals. A process may be
ended between two steps (`Kill`). Three variables are history: `kept`, the names
of files that nobody asked to lose; `fresh`, the processes that have not opened
the name mktemp gave them; and `killed`. Every wrapper (`XCEDeleteFile`, ...)
stands for its A and its W function, which differ by a conversion.

mktemp builds its names from the process number without the highest bit, so two
processes get different names only if their numbers differ below it
(`PidAssumption`); two threads of one process get the same name, which is why
every process of the model is one thread. A file is opened in all five dispositions of
`xceopenw` (`Dispositions`), to read or to write. xceaccess is stat: the mode asked for
is not looked at.

### UserDb

`passwd` is the file, as lines; `stream` the position of every FILE, and `fpw`
the static variable that points to one, also after endpwent has closed it. A
lookup is a step per line read (`ScanStep`), and between two of them other
processes add users, whose last line may lack its newline (`half`), or change
the registry value the path comes from. setpwent reads that value each time,
`XCEGetUnixPath` once, and neither looks at whether it was there: the path then
begins at the root of the device, where the files may be instead (`atDevice`,
`Reaches`). Of a line the model keeps the name, the uid and whether
the home directory has a drive letter, which the colon of the format cuts off
(pwd.c:87). `orderly` is a history variable: the program has called setpwent,
getpwent and endpwent in this order, with no lookup in between. Globbing's tilde
is here since it is a lookup, or two of them.

### Syslog

`log` is the file, one entry per write; a message is two writes through
`xcewrite` at the descriptor's own position `pos`, which is the end of the file
when it was opened. `meant` is the history of what was written, and `overlapped`
says that two processes had the file open for a message at once.

### Fnmatch, Braces and InetAddr

Operators that follow the C code character by character, each beside a reference
that does not: names cut into parts that the pieces of a pattern stand for
(`Fits`), the choices of one alternative per brace (`Meaning`), and numbers put
into bytes (`AddressMeant`). Patterns, words and addresses are built from their
pieces, so their meaning is known without reading them. What the code does
otherwise is taken out by name: `Plainly`, `Kept`, `Closed`, `Sayable`.

### Calls

The parts that share no state with the rest and none with each other. `job` says
which part a behaviour is about; the text calls answer into `said`. One run
checks them together because none has a question the others change.

## Runs

| run | what it checks | bounds |
|---|---|---|
| `fd_disciplined` | `FdTable` implements `Descriptors`; every stream has a descriptor | 6 slots (3 after the standard ones), 3 handles, 2 streams |
| `fd_anything` | slots do not share handles and stale handles stay above (until the first freopen); nothing is lost but by a full table | 4 slots (1 after the standard ones), 2 handles, 2 streams, all liberties |
| `fd_overflow` | violated: a failed open leaves a file open | 4 slots, 2 handles |
| `thr_xceinit` | blocks are private, none leaks, handles follow threads, `CeThread` implements `ThreadLocal` | main, two threads of `_beginthread`, one of CreateThread; 3 blocks, 2 indices |
| `thr_lazy` | threads run and end; what they store is lost only in the step where two indices are allocated | main, one thread of `_beginthread`, one of CreateThread; 2 blocks, 2 indices, no xceinit |
| `cwd_plain` | names reach what they reach on Unix; the directory survives being passed on | a tree of depth 2, names of up to 3 segments, directories of up to 6 |
| `pwd_start` | a child starts in its parent's directory when the registry takes PWD and nothing hides it, and as long as parents wait nobody writes it in between | 3 processes, 2 directories, 3 names of which one is a beginning of PWD, at most 2 values in the key |
| `pwd_glob` | violated: arguments are expanded before the directory is set | 3 processes, 2 directories, 2 names |
| `rcmd_calls` | no socket leaks, the port announced is the port listened on, pauses are bounded, calls return | 7 reserved ports of which 4 are contended, 2 addresses, 3 sockets |
| `environ` | the vector is ended, the start misses no value, `Environ` implements `EnvMap` | 3 names of which one begins with another, 2 values, at most 3 values in the registry, a first size of 1 |
| `command_line` | argv is what the words stand for, also under changes; a quoted or plain word is in it as it is; argv has room; directories are closed; getopt reads what is written; all of it ends | lines of up to 3 words out of 26, 2 trees of up to 4 files, 1 change, a first size of 2, 3 option strings |
| `calls` | rename and mktemp among processes; lookups of users and streams left open; the lines of the log; what fnmatch, braces and addresses come to | 2 processes, one common name and 4 temporary ones, 1 kill; 3 users, 2 lines, 2 streams, 1 service; 2 messages; patterns of up to 3 of 10 pieces, 31 names, 16 sets of flags; words of two braces, nested once; addresses of up to 5 numbers in bytes of 2 bits |

Why these bounds are enough. The table's hazards need a vacant slot below and
one above a slot in use, and a handle value that comes back: three free slots
and three handles have both, and one free slot with two handles has the table
full. Two threads suffice for each race of `cethread.c`, a third one makes a
freed block be reused. A name of three segments has `..` after a name, after a
separator, after `..` and at the root. Three processes are parent, child and one
that writes in between; two values in the key are PWD and one that moves it, hides it
or is passed (`FewValues` bounds the values at a time, not the writes), and two
directories are the right and the wrong one. Ports 4 to 7 being contended lets the first search fail
at the lowest port (4), and lets the second start there and go on below it; one
address more than one makes the pause carry over; a call never has more than
three sockets. A vector of one place grows at the first string and twice more. The
patterns have each kind of piece alone and next to another one, and a directory
before and after a wildcard; the options have each way getopt returns, before and
after a group; one change of one file reaches every place between two looks.
Two processes and one name are enough for every overlap of two renames, and two
letters for a name that is taken at the first and free at the second. Two lines
have a match in the first, the second, both or neither, one of them half written
or unreadable. Two messages overlap in every way, with a kill in between. Bytes of
two bits make every bound of inet_aton one that two digits reach; the two process
numbers, 3 and 15, differ only in a higher bit than the lowest two.

Symmetry is used for handles, streams, threads and values, never in a run that
checks liveness; the refinements are safety properties and treat these values
alike. A view leaves out the record of the last call where no property of the
run reads it (`WithoutCall`, `WithoutArgument`), the locals of `_initenv` once it has returned
(`LocalsGone`), the results of calls that no later step reads (`ResultsGone`), and what
a process of `CwdPassing` has left behind when it is past it: an environment in which
PWD has been looked up, and the troubles and the parent's directory of a child already
excused or started (`CallsGone`; `GlobbedToo` keeps what the property of `pwd_glob` reads).
`calls` follows programs only as long as they are orderly, the constraint
`Orderly`: both properties about users are about these. The run `thr_lazy` has
one created thread, because two first calls of `_beginthread` need only main and a
raw thread.

The type invariants of `Rcmd` and `Environ` are proved as a part of the invariants
in their proof modules and not run, that of `CwdPassing` is proved (`TypeCorrect`) and
not run; `CurrentDir` has none beyond
`CwdSurvivesPassing`.

Deadlock is not checked where the system may really stop: all threads have
ended or `xceabort` was called; the last process has exited; a program has read
its options and goes on by itself.

### Fairness

`CeThread`: each thread inside the library gets on (`WF_vars(Library(t))`), as
the system's scheduler runs every thread that is ready and the library waits for
nothing but the system; what the program does by itself is left to it. `Rcmd`:
the caller's thread gets on, and a server that is there reads and answers; that
accept fails, that somebody connects and that a server dies is not assumed.
`CommandLine`: the program runs (`WF_vars(ProgramStep)`); others need not change
files, and do so a bounded number of times (`MaxChanges`): with a directory that
grows for ever, readdir would not end.

### Findings

`fd_overflow` (ceio.c:192): with all slots in use `xceopen` opens the file,
stores to the slot before the table and returns -1. `pwd_glob` (cestdlib.c:52):
arguments are expanded in the root directory. Two first calls of `_beginthread`
without xceinit allocate two indices (cethread.c:30), and a thread loses its errno
and directory, which inc/cethread.h:9 calls per thread: `ImplementsThreadLocal`
does not hold without xceinit, and `OnlyRacesLose` of `thr_lazy` says that this
race is all that is wrong.

What reading showed beyond the runs: `..` after a doubled separator removes the
separator and not the directory (fixpath.c:109: `a//..` is `a`), which is why
names in `cwd_plain` have none. A pattern below a directory that is not there
(`x/*`), or that meets a plain file where a directory should be (`*/*`), makes
glob give up, and `_setargv` drops the argument, or what is left of its matches
(ceargv.c:78), although glob.h:87 promises the pattern itself;
`ArgvIsTheLine` says exactly when. `freopen` leaves the table alone, so
`fileno` of the stream fails afterwards (cestdio.c:79; the reason two properties
of `fd_anything` hold only until the first freopen). A name that climbs above
the root keeps its `..` (fixpath.c:104). With USE_CHROOT, which the makefile
does not define, the root is put in front of a directory that has it. In the
_MT build a new thread's directory is the empty string. A search for a reserved
port that begins at the lowest port or below does not stop there; if nothing
below is free it ends at port 0, an arbitrary port. A lookup in the environment stops at
a string whose name is a beginning of the one it looks for (ceenv.c:35): a variable
named `P` or `PW` that is read before PWD answers for it, and a child starts where that
one says, or in the root. A value of the registry that does not fit in a kilobyte ends
the reading of the key (ceenv.c:94), and the values behind it are missing from the
environment, PWD among them. `StartsInParentsDirectory` gives both up (`hidden`).

In the file calls: rename of a file to itself, of one that is missing, or of one
that is open, onto a file that is there, removes that file and then fails
(cestdlib.c:147); `RenameKeepsTarget` gives these up. access ignores the mode
(cestdlib.c:206). chmod writes back attributes that may have changed
(cestdlib.c:196). Lookups of users stop at a blank line or one with too few colons
(pwd.c:64), and a home directory with a drive letter is cut at its colon
(pwd.c:87). getservbyname leaves its file open when it finds nothing (wsdb.c:49);
`StreamsAccounted` counts these. The first message of a program that has not
called openlog has no tag (syslog.c:158 comes before openlog).

In the texts: a bracket behind other text within a brace loses that text
(glob.c:328, `pl` is used as a scratch pointer). A brace that is not closed globs a
buffer without an end (glob.c:320), where the comment says "just glob the pattern".
What glob0 returns for a pattern with braces is lost (glob.c:377). `{}` is taken
literally only when it is the whole pattern. In fnmatch a bracket may match a
leading period, and behind a star periods of later segments are not looked for.
inet_aton takes the digits 8 and 9 in octal numbers and no letters in hexadecimal
ones, although its comment announces them (inet_aton.c:23); all parts but the last
are not checked against 255; and ascii2addr cuts the text at 15 characters.

## Proofs

TLC's runs are small instances; the theorems hold for every value of the
constants that satisfies the named assumptions.

`FdTableProofs`: `TypeCorrect`, `HandlesStayExclusive`, `ScansFindTheSlotInUse`,
`OnlyAFullTableOrphans`, `EveryStreamHasADescriptor`, `TableImplementsDescriptors`.
The invariant `Inv` says which slots may still remember a handle: the ones above
every slot that uses it. It is what makes lookups by handle work, and it depends on
`_getnewfd` taking the lowest vacant slot. It holds until the first freopen;
`OnlyAFullTableOrphans` has a weaker invariant of its own, `WeakInv`, which freopen
keeps. The last two theorems are about programs that never call freopen, on systems
whose handles are no more than the slots behind the standard ones (`Roomy`): what is
open is then in different slots, so that one is vacant whenever a handle is new, and
`_getnewfd` does not answer -1. Beyond this bound `fd_overflow` shows what goes wrong.
The refinement excludes closing descriptors 0 to 2 too: the table has no handle for
them, and `_initfds` gives them back if it runs after the close (ceio.c:36-49).

`CeThreadProofs`: `TypeCorrect`, `BlocksStayPrivate`, `OnlyTheRaceLosesStores` for every
program, and `HandlesFollowThreads`, `EveryBlockIsFreed`, `BlocksImplementThreadLocal`
when the index is allocated once (`AllocatedOnce`: by xceinit, or because every thread
but main comes from `_beginthread`, which is called by main first). The invariant of
the first three, `MemInv`, says what each thread's local pointer is by where the
thread is, and that a block has one holder: a thread whose TLS slot it is, or a
creator and its child until one of them has gone on. It holds with two indices too,
so the race loses stores and blocks but never shares a block. The others add
`OnceInv`: before there is an index there is one thread, and a block in the heap has
somebody who will free it. In the refinement the only steps that are not stutters
are the stores, and the ends of threads.

`CwdPassingProofs`: `TypeCorrect`, `ChildrenStartWhereTheirParentIs`. The invariant
has two halves. `Reading` follows one directory on its way, whoever waits: as long as
nothing has befallen it, PWD in the key is the parent's directory (`Fresh`), and the
child has either not come to it, with nothing before it in `environ` that a lookup of
PWD would take, or has it as the first such string. Another value written meanwhile
only moves PWD by one place (`WrittenValues`, `WriteKeeps`), and a read goes on by one
(`ReadNext`): a value passed twice does no harm, and none is passed over. `Line` is
what waiting gives: the processes form a line, of which only the last one runs, so
nobody crosses a directory on its way. One program at the beginning is an assumption
(`OneRoot`).

`RcmdProofs`: `FailureLeavesNothingOpen`, `ServerIsSentTheRightPort`,
`PausesStayBounded`. Assumes that two reserved ports are never taken by others
(`ContentionAssumption`): the counter then stays at or above the higher one for
the first circuit and the lower one for the second, so it is not zero while it
stands for "there is a second circuit".

`EnvironProofs`: `AlwaysTerminated`, `NothingPassedOver`, and
`EnvironImplementsEnvMap`, the refinement: every step of the vector is a step of
the map or none. That a search from the start has a first hit would need
induction over the index; it is carried in the invariant instead (`Firsts`).

`CommandLineProofs`: `NoDirIsLeft`, `ArgvAlwaysHasRoom`, `LiteralsAlwaysStay`,
`AlwaysTypeOK` and `OptionsAreRead`, for lines of any length, any alphabet, trees and
changes.

- The open directories are those of the frames, and a call returns without frames
  (`DirsOfFrames`). Each of the entries a word expands to may double the size of argv;
  that there is room for one more behind each of them is proved by induction over the
  entries (`GrownByKeepsRoom`), from an initial size of at least two.
- `LiteralsStay` and the types rest on one invariant, `LineInv`. The line is laid out
  from word to word (`Laid`: `from[i]` is where the gap behind word `i` ends);
  the scanner has read `k` words and is in word `k + 1` or in the gap before it
  (`PlaceOK`); from there on the line is as it was written (`Untouched`), while the words
  before may have been ended. The entries of argv fall into parts, one per word read
  (`CutOK`): that of a literal word is one entry, which holds the word's characters, by
  value or in a place of the line that is behind the scanner and ended (`Holds`). A
  literal word that is not quoted goes through glob: `Compile` leaves it as it is
  (`CompileIs`, which needs the recursion of `Compile` from the end of the pattern to its
  beginning, `DownRecursion`), and a pattern without wildcards comes back alone, whether
  its path is there or not (`LiteralGlob`).
- `OptionsAsRead` compares calls of getopt, letter by letter, with `Readings`, argument
  by argument. `OptionsInv` says how far each has come when getopt is between two calls:
  between two arguments (`Between`), behind the first `k` letters of one (`Within`), or at
  the end with an option whose argument is missing (`Missed`). A call keeps it
  (`LetterStep`), the call that returns -1 ends it (`MinusOneStep`), and a program that
  starts over is between the first two arguments again, whatever place getopt has kept.

`CharsAssumption` says that the alphabet has the characters the code looks for, and
that neither the end of a string nor NULL is one of its characters.

`CurrentDirProofs`: `DirectorySurvives` and `NamesReachWhatTheyMean`, the refinement of
`UnixCwd`, for names of any length without doubled separators (`PlainNames`; with them
the refinement is false, fixpath.c:109). Three functions go through a name segment by
segment: what `XCECanonicalizePath` writes, the names between the separators of a
string, and the walk. Each is first given by its first value and its steps
(`CanonicalizedBySteps`, `NamesBySteps`, `WalkBySteps`); then what has been written
after some segments is shown to spell where the walk is after as many (`Spells`). The
current directory is always a string `..` can be applied to (`Canonical`). The
refinement starts in the root: from the empty directory of a new thread `.` finds
nothing (findfile.c:93). The prover has no induction schema; an induction here is a
statement about a set of numbers, which contains an interval if it contains 0 and the
successors of what is in it (`IntervalInduction`, from the well-foundedness of Nat),
and a recursive function is the choice of one that `Iteration` shows to exist. The
segment before a first separator is named `Lone`, as the SMT solver has no empty
string.

`CallsProofs` is about the parts of `calls` with processes or a file, each under a
specification of its own (`FilesSpec`, `UsersSpec`, `LogSpec`: `job` is that part).

- `RenameKeepsItsTarget`, `TempNamesStayFree`, `TypeCorrect`. The first is nearly
  inductive: with the types, and the fact that the locals of a call are the ones its
  step needs (`Placed`), each action either leaves a name, is asked to remove it, or is
  the remove of a rename that is then at its move. The second rests on `OwnNames`: the
  name a process was given carries its number, so nobody else opens it, and on
  mktemp's names not being common ones (`NamesAssumption`).
- `StreamsStayAccounted`, `LookupsFindUsers`, `UsersTypeCorrect`. `OrderInv` says that in an orderly program
  `fpw` is an open stream as long as a lookup or a setpwent uses it; every other open
  stream is one getservbyname has left. `PassedInv` says that no line a lookup has passed fits and could be read: with
  it the line it returns is the first one, and others only add lines behind. The
  number of streams is finite (`BoundsAssumption`), as one must be left to be counted.
- `LogKeepsItsLines`, `LogTypeCorrect`. Until two messages overlap there is at most one writer, and its
  position is the end of the file (`LogAlone`), so that each write appends.

Only model-checked: liveness (`ThreadsRunAndEnd`, `Returns`, `Ends`), which the prover
does not do; `ArgvIsTheLine` and `ExpansionRight`, which say what a word with wildcards
stands for: that takes the meaning of `Compile`, `match` and the frames of `glob3` in
terms of pieces and paths, folds over sets of sequences, where the prover has no
induction schema; and the properties of `Fnmatch`, `Braces` and `InetAddr`
(`NamesMatched`, `BracesRight`, `AddressRight`), which are about recursive operators and
operations on bits. Those are in modules `Calls` needs and the proofs cannot use; the
three parts of `CallsTypeOK` are proved where they are defined.

## Not modelled

File positions but for the appends of syslog; two threads in the descriptor table;
buffer lengths (a bound of the models); `USE_CHROOT`; strings without `=` given to
putenv; what is said on the sockets of `rcmd` beyond the port number and the answer;
conversions between character sets; the contents of files; several threads of one
process in `Files`; closelog and umask, which set variables nobody reads; programs
that call the password functions out of order, beyond the call in which they do;
wrappers that convert their arguments and call the system (`cewin32.c`,
`cetoolhelp.c`, most of `registry.c`); tables of codes (`ceerrno.c`, `wserr.c`); the
patches to Microsoft's time functions, whose sources are not in the repository;
headers of constants (`inc/cewinnt.h`); the flags of glob that nobody in the library
sets, but for braces and tilde; the manual tests of `test1.c`.

## Plan

1. Proofs: that what glob finds is without doubles, and has existed.
2. The descriptor table with two threads and with file positions.
3. `globfree`, GLOB_APPEND and GLOB_DOOFFS.
