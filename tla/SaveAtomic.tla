----------------------------- MODULE SaveAtomic -----------------------------
(***************************************************************************)
(* cli.saveAtomic, step by step, run by several savers at once: goroutines *)
(* of one serve process, and other processes (an apply, a second serve) on *)
(* the same sheet.  A directory maps the sheet's name and the staging      *)
(* names to files; any file operation may fail, and any process may die    *)
(* between two of them.                                                    *)
(*                                                                         *)
(* os.Root and the file system are external: a rename is one step, a write *)
(* is not (the file is created empty, then filled), and a file is created  *)
(* with the mode asked for less the process umask.                         *)
(***************************************************************************)
EXTENDS Naturals

CONSTANTS
    Savers,
    Processes,     \* process ids
    ProcessOf(_),  \* the process a saver runs in
    Contents,
    OldSheets,     \* what the sheet file may hold at first, NoFile if absent
    NoFile,        \* nothing has this name
    Truncated,     \* a file created, or written in part
    Sheet,         \* the sheet's own name
    Bits,          \* permission bits
    OldModes,      \* the modes the sheet file may have at first
    Private,       \* filePerm, 0600
    Umask,
    MaxSaves       \* bound: after this many staging names a save fails to open

ASSUME SaveAssumption ==
    /\ \A s \in Savers : ProcessOf(s) \in Processes
    /\ Private \subseteq Bits /\ Umask \subseteq Bits /\ OldModes \subseteq SUBSET Bits
    /\ NoFile # Truncated /\ NoFile \notin Contents
    /\ Truncated \notin Contents \cup OldSheets
    /\ MaxSaves \in Nat
    /\ Sheet \notin Processes \X (1..MaxSaves)

VARIABLES
    dir,     \* the sheet's directory: the data behind each name
    mode,    \* and the permissions of each file
    counter, \* stagingCounter of each process
    pc,      \* pc[s]: where saver s stands
    asked,   \* asked[s]: saveAtomic's data
    tmp,     \* tmp[s]: saveAtomic's staging name
    perm     \* perm[s]: what modeOf returned

vars == <<dir, mode, counter, pc, asked, tmp, perm>>

StagingNames == Processes \X (1..MaxSaves)
Names == {Sheet} \cup StagingNames
Data == Contents \cup OldSheets

Waypoints == {"idle", "open", "stat", "create", "write", "rename", "cleanup",
              "failed", "saved", "dead"}

TypeOK ==
    /\ dir \in [Names -> Data \cup {NoFile, Truncated}]
    /\ mode \in [Names -> SUBSET Bits]
    /\ counter \in [Processes -> 0..MaxSaves]
    /\ pc \in [Savers -> Waypoints]
    /\ asked \in [Savers -> Contents \cup {NoFile}]
    /\ tmp \in [Savers -> Names]
    /\ perm \in [Savers -> SUBSET Bits]

Init ==
    /\ \E old \in OldSheets, m \in OldModes :
        /\ dir = [n \in Names |-> IF n = Sheet THEN old ELSE NoFile]
        /\ mode = [n \in Names |-> IF n = Sheet /\ old # NoFile THEN m ELSE {}]
    /\ counter = [p \in Processes |-> 0]
    /\ pc = [s \in Savers |-> "idle"]
    /\ asked = [s \in Savers |-> NoFile]
    /\ tmp = [s \in Savers |-> Sheet]
    /\ perm = [s \in Savers |-> Private]

Goto(s, from, to) ==
    /\ pc[s] = from
    /\ pc' = [pc EXCEPT ![s] = to]

Call(s) ==
    /\ Goto(s, "idle", "open")
    /\ \E data \in Contents : asked' = [asked EXCEPT ![s] = data]
    /\ UNCHANGED <<dir, mode, counter, tmp, perm>>

\* Mutated: one staging name for every save of the process.
StagingNameFixed(s) == <<ProcessOf(s), 1>>

\* stagingName: the process id and the next value of its counter.
StagingName(s) == <<ProcessOf(s), counter[ProcessOf(s)] + 1>>

\* os.OpenRoot, then stagingName draws from the counter (one atomic Add).
OpenRoot(s) ==
    /\ counter[ProcessOf(s)] < MaxSaves
    /\ Goto(s, "open", "stat")
    /\ tmp' = [tmp EXCEPT ![s] = StagingName(s)]
    /\ counter' = [counter EXCEPT ![ProcessOf(s)] = @ + 1]
    /\ UNCHANGED <<dir, mode, asked, perm>>

OpenRootFails(s) ==
    /\ Goto(s, "open", "failed")
    /\ UNCHANGED <<dir, mode, counter, asked, tmp, perm>>

\* Mutated: the staging file is created for everybody.
ModeOfEverybody(s) ==
    /\ Goto(s, "stat", "create")
    /\ perm' = [perm EXCEPT ![s] = Bits]
    /\ UNCHANGED <<dir, mode, counter, asked, tmp>>

\* The sheet's current mode, or the private default for one being created.
ModeOf(s) ==
    /\ Goto(s, "stat", "create")
    /\ perm' = [perm EXCEPT ![s] = IF dir[Sheet] = NoFile THEN Private ELSE mode[Sheet]]
    /\ UNCHANGED <<dir, mode, counter, asked, tmp>>

\* Any error of Stat counts as "no sheet yet".
StatFails(s) ==
    /\ Goto(s, "stat", "create")
    /\ perm' = [perm EXCEPT ![s] = Private]
    /\ UNCHANGED <<dir, mode, counter, asked, tmp>>

\* Mutated: the sheet itself is opened for writing.
CreateInPlace(s) ==
    /\ Goto(s, "create", "write")
    /\ dir' = [dir EXCEPT ![Sheet] = Truncated, ![tmp[s]] = Truncated]
    /\ UNCHANGED <<mode, counter, asked, tmp, perm>>

\* writeFileIn opens the staging file O_CREATE|O_TRUNC ...
CreateStaging(s) ==
    /\ Goto(s, "create", "write")
    /\ dir' = [dir EXCEPT ![tmp[s]] = Truncated]
    /\ mode' = IF dir[tmp[s]] = NoFile
               THEN [mode EXCEPT ![tmp[s]] = perm[s] \ Umask] ELSE mode
    /\ UNCHANGED <<counter, asked, tmp, perm>>

CreateFails(s) ==
    /\ Goto(s, "create", "failed")
    /\ UNCHANGED <<dir, mode, counter, asked, tmp, perm>>

\* ... and fills it.
WriteStaging(s) ==
    /\ Goto(s, "write", "rename")
    /\ dir' = [dir EXCEPT ![tmp[s]] = asked[s]]
    /\ UNCHANGED <<mode, counter, asked, tmp, perm>>

\* A failed write returns at once, the staging file with it.
WriteFails(s) ==
    /\ Goto(s, "write", "failed")
    /\ UNCHANGED <<dir, mode, counter, asked, tmp, perm>>

Rename(s) ==
    /\ dir[tmp[s]] # NoFile
    /\ Goto(s, "rename", "saved")
    /\ dir' = [dir EXCEPT ![Sheet] = dir[tmp[s]], ![tmp[s]] = NoFile]
    /\ mode' = [mode EXCEPT ![Sheet] = mode[tmp[s]]]
    /\ UNCHANGED <<counter, asked, tmp, perm>>

RenameFails(s) ==
    /\ Goto(s, "rename", "cleanup")
    /\ UNCHANGED <<dir, mode, counter, asked, tmp, perm>>

\* root.Remove after a failed rename; its own error is dropped.
RemoveStaging(s) ==
    /\ Goto(s, "cleanup", "failed")
    /\ dir' = [dir EXCEPT ![tmp[s]] = NoFile]
    /\ UNCHANGED <<mode, counter, asked, tmp, perm>>

RemoveFails(s) ==
    /\ Goto(s, "cleanup", "failed")
    /\ UNCHANGED <<dir, mode, counter, asked, tmp, perm>>

\* The call is over and its locals with it.
Leave(s) ==
    /\ asked' = [asked EXCEPT ![s] = NoFile]
    /\ tmp' = [tmp EXCEPT ![s] = Sheet]
    /\ perm' = [perm EXCEPT ![s] = Private]

ReturnNil(s) ==
    /\ Goto(s, "saved", "idle")
    /\ Leave(s)
    /\ UNCHANGED <<dir, mode, counter>>

ReturnErr(s) ==
    /\ Goto(s, "failed", "idle")
    /\ Leave(s)
    /\ UNCHANGED <<dir, mode, counter>>

\* A process is killed: its savers stop where they are.
Die(p) ==
    /\ pc' = [s \in Savers |-> IF ProcessOf(s) = p THEN "dead" ELSE pc[s]]
    /\ UNCHANGED <<dir, mode, counter, asked, tmp, perm>>

Step(s) ==
    \/ Call(s)
    \/ OpenRoot(s)
    \/ OpenRootFails(s)
    \/ ModeOf(s)
    \/ StatFails(s)
    \/ CreateStaging(s)
    \/ CreateFails(s)
    \/ WriteStaging(s)
    \/ WriteFails(s)
    \/ Rename(s)
    \/ RenameFails(s)
    \/ RemoveStaging(s)
    \/ RemoveFails(s)
    \/ ReturnNil(s)
    \/ ReturnErr(s)

Next ==
    \/ \E s \in Savers : Step(s)
    \/ \E p \in Processes : Die(p)

Spec == Init /\ [][Next]_vars
-----------------------------------------------------------------------------
\* The savers whose staging file is theirs to fill, promote or remove.
Staging == {"stat", "create", "write", "rename", "cleanup"}

\* "two saves of one sheet running at once" never share a staging file: the
\* name a saver works on is its process's, was drawn already, and no other
\* saver of the process works on it.
OwnStaging ==
    \A s \in Savers : pc[s] \in Staging =>
        /\ tmp[s] \in {ProcessOf(s)} \X (1..counter[ProcessOf(s)])
        /\ \A t \in Savers \ {s} : pc[t] \in Staging => tmp[t] # tmp[s]

\* A staging file to be filled is there, and one about to be renamed holds all the
\* bytes of its own save.
StagedWhole ==
    \A s \in Savers :
        /\ pc[s] = "write" => dir[tmp[s]] = Truncated
        /\ pc[s] = "rename" => dir[tmp[s]] = asked[s]

\* The sheet is never found truncated, whoever saves and whatever dies.
SheetWhole == dir[Sheet] \in Data

IInv == TypeOK /\ OwnStaging /\ StagedWhole /\ SheetWhole

\* saveAtomic is an atomic replacement of the file.
Replacement == INSTANCE AtomicReplace WITH
    file <- dir[Sheet],
    Nothing <- NoFile,
    status <- [s \in Savers |->
        CASE pc[s] \in {"open", "stat", "create", "write", "rename"} -> "saving"
          [] pc[s] \in {"cleanup", "failed"} -> "refused"
          [] pc[s] = "saved" -> "replaced"
          [] OTHER -> pc[s]]

\* Each save publishes its own bytes whole and returns nil, or leaves the sheet
\* as it is and returns an error; an interrupted one leaves a whole sheet, old
\* or new, and is never half visible.
ReplacesAtomically == Replacement!SaveSpec

\* The permissions the files in the directory have, and saves will ask for.
Present == {n \in Names : dir[n] # NoFile}
Granted == (UNION {mode[n] : n \in Present}) \cup (UNION {perm[s] : s \in Savers})

\* modeOf: nobody is ever granted a permission the sheet did not grant before
\* the saves began: a sheet that is created is private, and the staging files
\* a failure leaves behind can be read by nobody new.
NeverWidens == [][Granted' \subseteq Granted \cup Private]_vars

\* modeOf: "The mode a save writes: the sheet's current mode when it exists".
KeepsMode ==
    [][dir[Sheet] # NoFile => mode'[Sheet] = mode[Sheet]]_vars

\* save.go: "whichever step fails, the previous sheet is still on disk and no
\* staging file survives": with every save returned, none is left.
NoStagingSurvives ==
    (\A s \in Savers : pc[s] = "idle") => \A n \in StagingNames : dir[n] = NoFile
=============================================================================
