\* Lines of up to three words and two trees of files.
\* Deadlock: behind its options the program goes on by itself.
SPECIFICATION Spec
CHECK_DEADLOCK FALSE
CONSTANTS
    Alphabet <- CharsByCode
    Files <- AllFiles
    Directories <- AllDirectories
    InitialTrees <- Trees
    Changing <- AFileAndADirectory
    MaxChanges = 1
    OptStrings <- MCOptStrings
    EOS = EOS
    NULL = NULL
    Lines <- MCLines
    Blanks <- MCBlanks
    Program <- MCProgram
    InitialSize = 2
INVARIANTS TypeOK ArgvIsTheLine LiteralsStay ExpansionRight NoDirLeft ArgvHasRoom OptionsAsRead
PROPERTIES Ends
