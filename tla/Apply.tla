-------------------------------- MODULE Apply --------------------------------
(***************************************************************************)
(* tsv apply: runs of the command at work on one sheet file.  A run reads  *)
(* the sheet, then the edits, folds the batch over the document it read    *)
(* and replaces the file by the saver's contract, AtomicReplace; nothing   *)
(* is locked between the reading and the replacing.  The fold is the       *)
(* engine's (external): a batch is a base and a function of documents.     *)
(***************************************************************************)
EXTENDS AtomicReplace

CONSTANTS
    Docs,
    Bad,       \* no document: it does not parse, is over budget, or is refused
    Parse,     \* Parse[t]: the document of the bytes t, or Bad
    Text,      \* Text[d]: the bytes Document.Text writes for d
    NoBase,    \* the batch has no #.base line
    Batches    \* [base, fold] records, BadEdits for what does not parse as edits

BadEdits == [base |-> NoBase, fold |-> [d \in Docs |-> Bad]]

\* A revision is a digest of the canonical bytes: it tells documents apart.
Revision(d) == d

ASSUME ApplyAssumption ==
    /\ Bad \notin Docs /\ NoBase \notin Docs
    /\ Parse \in [Contents \cup OldSheets -> Docs \cup {Bad}]
    /\ Text \in [Docs -> Contents]
    /\ \A d \in Docs : Parse[Text[d]] = d
    /\ Batches \subseteq [base : Docs \cup {NoBase}, fold : [Docs -> Docs \cup {Bad}]]

VARIABLES
    pc,        \* pc[a]: where the run a stands
    sheet,     \* sheet[a]: the sheet positional, a file or stdin
    isDryRun,  \* isDryRun[a]: --check
    doc,       \* doc[a]: the document read, and then the one folded from it
    batch,     \* batch[a]: the edits
    printed,   \* printed[a]: the revision the run printed, exiting 0
    overtaken, \* history: the file was replaced since a read it
    held       \* history: the revisions the file has held

runVars == <<pc, sheet, isDryRun, doc, batch, printed>>
historyVars == <<overtaken, held>>
vars == <<saveVars, runVars, historyVars>>

Appliers == Savers

TypeOK ==
    /\ SaveTypeOK
    /\ pc \in [Appliers -> {"start", "sheet", "edits", "fold", "save", "exit"}]
    /\ sheet \in [Appliers -> {"file", "stdin"}]
    /\ isDryRun \in [Appliers -> BOOLEAN]
    /\ doc \in [Appliers -> Docs \cup {Bad}]
    /\ batch \in [Appliers -> Batches \cup {BadEdits}]
    /\ printed \in [Appliers -> Docs \cup {Bad}]
    /\ overtaken \in [Appliers -> BOOLEAN]
    /\ held \subseteq Docs
    /\ \A a \in Appliers :
        /\ pc[a] \in {"edits", "fold", "save"} => doc[a] # Bad
        /\ pc[a] = "save" <=> status[a] \in {"saving", "replaced", "refused"}
        /\ status[a] = "dead" => pc[a] = "exit"

Init ==
    /\ SaveInit
    /\ pc = [a \in Appliers |-> "start"]
    /\ sheet = [a \in Appliers |-> "file"]
    /\ isDryRun = [a \in Appliers |-> FALSE]
    /\ doc = [a \in Appliers |-> Bad]
    /\ batch = [a \in Appliers |-> BadEdits]
    /\ printed = [a \in Appliers |-> Bad]
    /\ overtaken = [a \in Appliers |-> FALSE]
    /\ held = {Parse[file]} \cap Docs

Goto(a, from, to) == pc[a] = from /\ pc' = [pc EXCEPT ![a] = to]

\* A sheet and edits both on stdin are refused before anything is read.
Start(a) ==
    /\ \E source \in {"file", "stdin"}, dry \in BOOLEAN, editsOnStdin \in BOOLEAN :
        /\ Goto(a, "start", IF source = "stdin" /\ editsOnStdin THEN "exit" ELSE "sheet")
        /\ sheet' = [sheet EXCEPT ![a] = source]
        /\ isDryRun' = [isDryRun EXCEPT ![a] = dry]
    /\ UNCHANGED <<saveVars, doc, batch, printed, historyVars>>

\* readApplySheet: an open file is read whole, whatever replaces it meanwhile.
ReadSheet(a) ==
    /\ \E text \in IF sheet[a] = "file" THEN {file} ELSE Contents :
        /\ doc' = [doc EXCEPT ![a] = Parse[text]]
        /\ Goto(a, "sheet", IF Parse[text] = Bad THEN "exit" ELSE "edits")
    /\ overtaken' = [overtaken EXCEPT ![a] = FALSE]
    /\ UNCHANGED <<saveVars, sheet, isDryRun, batch, printed, held>>

ReadEdits(a) ==
    /\ \E b \in Batches \cup {BadEdits} :
        /\ batch' = [batch EXCEPT ![a] = b]
        /\ Goto(a, "edits", IF b = BadEdits THEN "exit" ELSE "fold")
    /\ UNCHANGED <<saveVars, sheet, isDryRun, doc, printed, historyVars>>

\* Mutated: the base is not compared.
FoldedUnchecked(a) == batch[a].fold[doc[a]]

\* tsvsheet.Apply: the base compared, then every operation, or a refusal.
Folded(a) ==
    IF batch[a].base \in {NoBase, Revision(doc[a])} THEN batch[a].fold[doc[a]] ELSE Bad

RefuseBatch(a) ==
    /\ Goto(a, "fold", "exit")
    /\ Folded(a) = Bad
    /\ UNCHANGED <<saveVars, sheet, isDryRun, doc, batch, printed, historyVars>>

\* A dry run, or a sheet from stdin, writes no file.
PrintOnly(a) ==
    /\ Goto(a, "fold", "exit")
    /\ Folded(a) # Bad
    /\ isDryRun[a] \/ sheet[a] = "stdin"
    /\ printed' = [printed EXCEPT ![a] = Revision(Folded(a))]
    /\ UNCHANGED <<saveVars, sheet, isDryRun, doc, batch, historyVars>>

SaveSheetFile(a) ==
    /\ Goto(a, "fold", "save")
    /\ Folded(a) # Bad
    /\ ~isDryRun[a] /\ sheet[a] = "file"
    /\ doc' = [doc EXCEPT ![a] = Folded(a)]
    /\ BeginSave(a, Text[Folded(a)])
    /\ UNCHANGED <<sheet, isDryRun, batch, printed, historyVars>>

\* saveAtomic at work: its own steps are SaveAtomic's.
ReplaceFile(a) ==
    /\ Replace(a)
    /\ overtaken' = [b \in Appliers |-> b # a]
    /\ held' = held \cup ({Parse[file']} \cap Docs)
    /\ UNCHANGED runVars

RefuseSave(a) == Refuse(a) /\ UNCHANGED <<runVars, historyVars>>

\* Mutated: the revision is printed whatever saveAtomic returned.
PrintSavedAnyway(a) ==
    /\ ReturnNil(a) \/ ReturnErr(a)
    /\ Goto(a, "save", "exit")
    /\ printed' = [printed EXCEPT ![a] = Revision(doc[a])]
    /\ UNCHANGED <<sheet, isDryRun, doc, batch, historyVars>>

PrintSaved(a) ==
    /\ ReturnNil(a)
    /\ Goto(a, "save", "exit")
    /\ printed' = [printed EXCEPT ![a] = Revision(doc[a])]
    /\ UNCHANGED <<sheet, isDryRun, doc, batch, historyVars>>

FailSave(a) ==
    /\ ReturnErr(a)
    /\ Goto(a, "save", "exit")
    /\ UNCHANGED <<sheet, isDryRun, doc, batch, printed, historyVars>>

\* The command is run again.
Rerun(a) ==
    /\ status[a] = "idle"
    /\ Goto(a, "exit", "start")
    /\ doc' = [doc EXCEPT ![a] = Bad]
    /\ batch' = [batch EXCEPT ![a] = BadEdits]
    /\ printed' = [printed EXCEPT ![a] = Bad]
    /\ UNCHANGED <<saveVars, sheet, isDryRun, historyVars>>

\* A run is killed, wherever it stands.
Kill(a) ==
    /\ status[a] # "dead"
    /\ Die({a})
    /\ pc' = [pc EXCEPT ![a] = "exit"]
    /\ UNCHANGED <<sheet, isDryRun, doc, batch, printed, historyVars>>

Next ==
    \E a \in Appliers :
        \/ Start(a) \/ ReadSheet(a) \/ ReadEdits(a)
        \/ RefuseBatch(a) \/ PrintOnly(a) \/ SaveSheetFile(a)
        \/ ReplaceFile(a) \/ RefuseSave(a) \/ PrintSaved(a) \/ FailSave(a)
        \/ Rerun(a) \/ Kill(a)

Spec == Init /\ [][Next]_vars
-----------------------------------------------------------------------------
Replacing(a) == status[a] = "saving" /\ status'[a] = "replaced"

\* "refused when the sheet's content revision differs": the file a conditional
\* batch replaces is of the revision the batch names.
ConditionalHonoured ==
    [][\A a \in Appliers :
        Replacing(a) /\ batch[a].base # NoBase => Revision(Parse[file]) = batch[a].base]_vars

\* What does hold of it: unless another run replaced the file after this one
\* read it, the file replaced is of the revision named, and what replaces it is
\* the fold of the file itself.
FoldsTheFileUnlessOvertaken ==
    [][\A a \in Appliers :
        Replacing(a) /\ ~overtaken[a] =>
            /\ batch[a].base \in {NoBase, Revision(Parse[file])}
            /\ Parse[file'] = batch[a].fold[Parse[file]]]_vars

\* "On success the sheet's new content revision is printed": a revision printed
\* by a run that writes is one the file came to hold.
PrintedWasWritten ==
    \A a \in Appliers :
        printed[a] # Bad /\ sheet[a] = "file" /\ ~isDryRun[a] => printed[a] \in held

\* What makes it so.  A save under way is of the document in hand, which is a
\* revision the file holds once it was replaced; and only a run that is over has
\* printed.
SavesItsDocument ==
    \A a \in Appliers :
        /\ pc[a] = "save" => asked[a] = Text[doc[a]]
        /\ status[a] = "replaced" => doc[a] \in held
        /\ printed[a] # Bad => pc[a] = "exit"

\* Until it is overtaken, a run has the document of the file as it stands, and is
\* saving the fold of it.
HasTheFile ==
    \A a \in Appliers : ~overtaken[a] =>
        /\ pc[a] \in {"edits", "fold"} /\ sheet[a] = "file" => doc[a] = Parse[file]
        /\ status[a] = "saving" =>
            /\ batch[a].base \in {NoBase, Revision(Parse[file])}
            /\ doc[a] = batch[a].fold[Parse[file]]

IInv == TypeOK /\ SavesItsDocument /\ HasTheFile /\ PrintedWasWritten
=============================================================================
