------ MODULE SourceFile ------
(* Reading and replacing a source file of a managed application:
   apps/config-agent/src security/safeSourceFile.ts and
   changes/atomicSourceWriter.ts.  The file lies in the release that a
   link names.  The agent takes one system call after the other, while an
   operator edits the file in place, replaces it, turns it into a link,
   changes its mode or switches the release. *)
EXTENDS Integers, FiniteSets

CONSTANTS
    SourceReleases,   \* releases the link may name
    MaxInodes, MaxTouches, MaxFileCalls, MaxFileFaults   \* bounds

ASSUME SourceFileAssumption ==
    /\ IsFiniteSet(SourceReleases) /\ SourceReleases # {}
    /\ {MaxInodes, MaxTouches, MaxFileCalls, MaxFileFaults} \subseteq Nat
    /\ MaxInodes > Cardinality(SourceReleases)

VARIABLES
    current,    \* the link to the active release: [ino, target]
    names,      \* release -> the inode its file name stands for
    inodes,     \* inode -> its metadata and the two halves of its bytes
    fileCall,   \* the call in progress
    touches, fileCalls, fileFaults,
    held,       \* history: what the file of the resolved release held since the read began
    lostEdit    \* history: a write replaced what it had not read

fileWorld == <<current, names, inodes>>
fileBounds == <<touches, fileCalls, fileFaults>>
fileVars == <<fileWorld, fileCall, fileBounds, held, lostEdit>>

NoFileCall == [kind |-> "none", pc |-> "idle", release |-> "none", linkIno |-> 0, ino |-> 0, stat |-> 0,
               got |-> <<"old", "old">>, renamed |-> FALSE, touched |-> FALSE, switched |-> FALSE]

\* What lstat and fstat tell of an inode, less its number.
Stat(i) == [regular |-> inodes[i].regular, nlink |-> inodes[i].nlink,
            fits |-> inodes[i].fits, mtime |-> inodes[i].mtime]
Bytes(i) == inodes[i].bytes
WithHalf(pair, half, value) == IF half = 1 THEN <<value, pair[2]>> ELSE <<pair[1], value>>
NewInode == CHOOSE i \in 1..MaxInodes : i \notin DOMAIN inodes

\* Regular, with the owner, group and mode of the manifest, one link.
AssertExpectation(stat) == stat.regular /\ stat.fits /\ stat.nlink = 1

SourceFileInit ==
    /\ \E r \in SourceReleases : current = [ino |-> 1, target |-> r]
    /\ names = CHOOSE f \in [SourceReleases -> 1..Cardinality(SourceReleases)] :
                  \A r, s \in SourceReleases : r # s => f[r] # f[s]
    /\ inodes = [i \in 1..Cardinality(SourceReleases) |->
                    [regular |-> TRUE, nlink |-> 1, fits |-> TRUE, mtime |-> 0, bytes |-> <<"old", "old">>]]
    /\ fileCall = NoFileCall /\ touches = 0 /\ fileCalls = 0 /\ fileFaults = 0
    /\ held = {} /\ lostEdit = FALSE

-----
Go(pc) == fileCall' = [fileCall EXCEPT !.pc = pc]
EndFileCall == fileCall' = NoFileCall
Quiet == UNCHANGED <<fileWorld, fileBounds, held, lostEdit>>

\* readCurrent, write and restore all begin with a read of the source.
StartFileCall(kind) ==
    /\ fileCall = NoFileCall /\ fileCalls < MaxFileCalls
    /\ fileCalls' = fileCalls + 1
    /\ fileCall' = [NoFileCall EXCEPT !.kind = kind, !.pc = "resolve"]
    /\ UNCHANGED <<fileWorld, touches, fileFaults, held, lostEdit>>

ReadLink ==
    /\ fileCall.pc = "resolve"
    /\ fileCall' = [fileCall EXCEPT !.pc = "release", !.release = current.target, !.linkIno = current.ino]
    /\ held' = {Bytes(names[current.target])}
    /\ UNCHANGED <<fileWorld, fileBounds, lostEdit>>

\* The metadata file and the file name of the release are in order (releases
\* do not change their name); the link must be the one that was read.
ResolveActiveReleaseLink ==
    /\ fileCall.pc = "release"
    /\ IF /\ current = [ino |-> fileCall.linkIno, target |-> fileCall.release]
          /\ inodes[names[fileCall.release]].regular /\ inodes[names[fileCall.release]].nlink = 1
       THEN Go("walk") ELSE EndFileCall
    /\ Quiet

WalkNoSymlink ==
    LET i == names[fileCall.release]
    IN  /\ fileCall.pc = "walk"
        /\ IF AssertExpectation(Stat(i))
           THEN fileCall' = [fileCall EXCEPT !.pc = "open", !.ino = i, !.stat = inodes[i].mtime]
           ELSE EndFileCall
        /\ Quiet

\* From here on the descriptor stands for the inode, whatever happens to its
\* name.
OpenDescriptorRelative ==
    LET i == names[fileCall.release]
    IN  /\ fileCall.pc = "open"
        /\ IF i = fileCall.ino /\ AssertExpectation(Stat(i)) /\ inodes[i].mtime = fileCall.stat
           THEN Go("first") ELSE EndFileCall
        /\ Quiet

ReadHalf(half, pc, next) ==
    /\ fileCall.pc = pc
    /\ fileCall' = [fileCall EXCEPT !.pc = next, !.got = WithHalf(@, half, Bytes(fileCall.ino)[half])]
    /\ Quiet

\* Mutant of AfterRead: an edit during the read goes unnoticed.
AfterReadUnchecked == fileCall.pc = "after" /\ Go("path") /\ Quiet

AfterRead ==
    /\ fileCall.pc = "after"
    /\ IF inodes[fileCall.ino].mtime = fileCall.stat /\ inodes[fileCall.ino].nlink = 1
       THEN Go("path") ELSE EndFileCall
    /\ Quiet

\* The name must still stand for the inode that was read.  A write goes on only
\* with the bytes it was planned for; after its rename the second read ends it.
WalkAgain ==
    LET i == names[fileCall.release]
        planned == fileCall.kind = "restore" \/ fileCall.got = <<"old", "old">>
    IN  /\ fileCall.pc = "path"
        /\ IF ~(i = fileCall.ino /\ AssertExpectation(Stat(i))) \/ fileCall.kind = "read"
           THEN EndFileCall
           ELSE IF fileCall.renamed THEN Go("verified")
           ELSE IF planned THEN fileCall' = [fileCall EXCEPT !.pc = "target", !.stat = inodes[i].mtime]
           ELSE EndFileCall
        /\ Quiet

\* assertTarget and, for a write only, assertStableMetadata: after this the
\* writer looks at the file's kind only.
AssertTarget ==
    LET i == names[fileCall.release]
        stable == fileCall.kind = "restore"
                  \/ (i = fileCall.ino /\ inodes[i].mtime = fileCall.stat /\ inodes[i].fits)
    IN  /\ fileCall.pc = "target"
        /\ IF inodes[i].regular /\ inodes[i].nlink = 1 /\ stable THEN Go("temporary") ELSE EndFileCall
        /\ Quiet

\* The temporary file is complete; the original is looked at a last time.
WriteTemporary ==
    LET i == names[fileCall.release]
    IN  /\ fileCall.pc = "temporary"
        /\ IF inodes[i].regular /\ inodes[i].nlink = 1 THEN Go("rename") ELSE EndFileCall
        /\ Quiet

\* The new file takes the name, with the modification time of the old one.
RenameOver ==
    LET r == fileCall.release
        i == names[r]
        new == IF fileCall.kind = "write" THEN <<"new", "new">> ELSE <<"old", "old">>
        file == [regular |-> TRUE, nlink |-> 1, fits |-> TRUE, mtime |-> inodes[i].mtime, bytes |-> new]
    IN  /\ fileCall.pc = "rename" /\ Cardinality(DOMAIN inodes) < MaxInodes
        /\ names' = [names EXCEPT ![r] = NewInode]
        /\ inodes' = [j \in DOMAIN inodes \cup {NewInode} |->
                         IF j = NewInode THEN file
                         ELSE IF j = i THEN [inodes[i] EXCEPT !.nlink = @ - 1] ELSE inodes[j]]
        /\ fileCall' = [fileCall EXCEPT !.pc = "resolve", !.renamed = TRUE]
        /\ lostEdit' = (lostEdit \/ (fileCall.kind = "write" /\ ~fileCall.touched
                                     /\ (Bytes(i) # fileCall.got \/ ~AssertExpectation(Stat(i)))))
        /\ UNCHANGED <<current, fileBounds, held>>

\* The fingerprint of what was read is the answer.
ReportWritten ==
    /\ fileCall.pc = "verified" /\ EndFileCall /\ Quiet

\* A system call fails, or the agent dies: what was renamed stays.
FileFault ==
    /\ fileCall # NoFileCall /\ fileFaults < MaxFileFaults
    /\ fileFaults' = fileFaults + 1
    /\ EndFileCall
    /\ UNCHANGED <<fileWorld, touches, fileCalls, held, lostEdit>>

-----
\* The operator: every change of bytes changes the modification time, a file
\* moved over the old one has a new inode, and so has a new link.  Nothing is
\* compared any more once the writer is at a step in unseen; an edit between
\* the second fstat and the last walk, whose modification time the read hands
\* out, is not noticed either.
Touch(r, flag, unseen) ==
    /\ touches < MaxTouches /\ touches' = touches + 1
    /\ fileCall' = [fileCall EXCEPT ![flag] = @ \/ fileCall.pc \in unseen \/ fileCall.renamed]
    /\ held' = held \cup (IF r = fileCall.release THEN {inodes'[names'[r]].bytes} ELSE {})
    /\ UNCHANGED <<fileCalls, fileFaults, lostEdit>>

EditInPlace(r, half) ==
    LET i == names[r]
        edited == [regular |-> inodes[i].regular, nlink |-> inodes[i].nlink, fits |-> inodes[i].fits,
                   mtime |-> inodes[i].mtime + 1, bytes |-> WithHalf(Bytes(i), half, "op")]
    IN  /\ inodes' = [inodes EXCEPT ![i] = edited]
        /\ UNCHANGED <<current, names>> /\ Touch(r, "touched", {"path", "temporary", "rename"})

SetMode(r, change) ==
    LET i == names[r]
    IN  /\ inodes' = [inodes EXCEPT ![i] = change]
        /\ UNCHANGED <<current, names>> /\ Touch(r, "touched", {"temporary", "rename"})

MoveOver(r, regular) ==
    LET file == [regular |-> regular, nlink |-> 1, fits |-> TRUE,
                 mtime |-> inodes[names[r]].mtime + 1, bytes |-> <<"op", "op">>]
    IN  /\ Cardinality(DOMAIN inodes) < MaxInodes
        /\ names' = [names EXCEPT ![r] = NewInode]
        /\ inodes' = [j \in DOMAIN inodes \cup {NewInode} |->
                         IF j = NewInode THEN file
                         ELSE IF j = names[r] THEN [inodes[j] EXCEPT !.nlink = @ - 1] ELSE inodes[j]]
        /\ UNCHANGED current /\ Touch(r, "touched", {"temporary", "rename"})

SwitchRelease(r) ==
    /\ current' = [ino |-> current.ino + 1, target |-> r]
    /\ UNCHANGED <<names, inodes>>
    /\ Touch(r, "switched", {"walk", "open", "first", "second", "after", "path", "target", "temporary", "rename"})

Operator ==
    \E r \in SourceReleases :
        \/ \E half \in 1..2 : EditInPlace(r, half)
        \/ SetMode(r, [inodes[names[r]] EXCEPT !.fits = ~@])
        \/ SetMode(r, [inodes[names[r]] EXCEPT !.nlink = 3 - @])
        \/ \E regular \in BOOLEAN : MoveOver(r, regular)
        \/ SwitchRelease(r)

SourceFileNext ==
    \/ \E kind \in {"read", "write", "restore"} : StartFileCall(kind)
    \/ ReadLink \/ ResolveActiveReleaseLink \/ WalkNoSymlink \/ OpenDescriptorRelative
    \/ ReadHalf(1, "first", "second") \/ ReadHalf(2, "second", "after")
    \/ AfterRead \/ WalkAgain \/ AssertTarget \/ WriteTemporary \/ RenameOver \/ ReportWritten
    \/ FileFault \/ Operator

SourceFileSpec == SourceFileInit /\ [][SourceFileNext]_fileVars

-----
\* Bytes that a read hands out were the bytes of the file, as a whole, at one
\* moment of the read: never half of an edit, never two files.
ReadIsWhole == fileCall.pc \in {"target", "verified"} => fileCall.got \in held

\* A write replaces nothing but what it was planned for, unless the file was
\* touched where nothing is compared any more.
NoEditIsLost == ~lostEdit

\* A write that reports success has read back its own bytes, unless the file
\* was touched unseen or the release switched: the bytes of the second read,
\* which resolves the link again, are not compared with the written ones.
SuccessIsWritten ==
    fileCall.pc = "verified" /\ ~fileCall.touched /\ ~fileCall.switched =>
        fileCall.got = (IF fileCall.kind = "write" THEN <<"new", "new">> ELSE <<"old", "old">>)

SourceFileIsSafe == ReadIsWhole /\ NoEditIsLost /\ SuccessIsWritten
======
