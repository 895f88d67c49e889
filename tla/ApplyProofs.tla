---------------------------- MODULE ApplyProofs ----------------------------
(***************************************************************************)
(* Apply's inductive invariant; that a revision printed was written, that  *)
(* a run not overtaken folds the file it replaces, and that the command is *)
(* a client of the saver as AtomicReplace has it; for any runs, documents, *)
(* batches and ways to write a document down.                              *)
(***************************************************************************)
EXTENDS Apply, TLAPS

\* What the engine makes of bytes and of a batch.
LEMMA ParseType ==
    ASSUME NEW t \in Contents \cup OldSheets
    PROVE  Parse[t] \in Docs \cup {Bad}
BY ApplyAssumption

LEMMA TextType ==
    ASSUME NEW d \in Docs
    PROVE  Text[d] \in Contents /\ Parse[Text[d]] = d
BY ApplyAssumption

\* A batch folds a document into a document, or is refused.
LEMMA FoldType ==
    ASSUME NEW b \in Batches \cup {BadEdits}, NEW d \in Docs
    PROVE  b.base \in Docs \cup {NoBase} /\ b.fold[d] \in Docs \cup {Bad}
<1>1. CASE b \in Batches
    BY <1>1, ApplyAssumption
<1>2. CASE b = BadEdits
    BY <1>2 DEF BadEdits
<1> QED
    BY <1>1, <1>2

\* A run that folds has the fold of its document, under a base that matches.
LEMMA FoldedType ==
    ASSUME TypeOK, NEW a \in Appliers, pc[a] = "fold"
    PROVE  /\ Folded(a) \in Docs \cup {Bad}
           /\ Folded(a) # Bad => /\ Folded(a) = batch[a].fold[doc[a]]
                                 /\ batch[a].base \in {NoBase, Revision(doc[a])}
<1>1. doc[a] \in Docs /\ batch[a] \in Batches \cup {BadEdits}
    BY DEF TypeOK
<1> QED
    BY <1>1, FoldType DEF Folded

\* The invariant holds before any run has started.
LEMMA InitIInv == Init => IInv
<1> SUFFICES ASSUME Init PROVE IInv
    OBVIOUS
<1> USE ApplyAssumption DEF Init, SaveInit, Appliers
<1>1. TypeOK
    BY DEF TypeOK, SaveTypeOK
<1>2. SavesItsDocument /\ HasTheFile /\ PrintedWasWritten
    BY DEF SavesItsDocument, HasTheFile, PrintedWasWritten
<1> QED
    BY <1>1, <1>2 DEF IInv

\* Every step keeps the types.
LEMMA StepTypeOK == IInv /\ [Next]_vars => TypeOK'
<1> SUFFICES ASSUME IInv, [Next]_vars PROVE TypeOK'
    OBVIOUS
<1> USE DEF IInv, TypeOK, SaveTypeOK, Appliers, Goto, Becomes, saveVars, runVars, historyVars
<1>1. ASSUME NEW a \in Appliers, Start(a) PROVE TypeOK'
    BY <1>1 DEF Start
<1>2. ASSUME NEW a \in Appliers, ReadSheet(a) PROVE TypeOK'
    <2>1. PICK text \in Contents \cup OldSheets :
                /\ doc' = [doc EXCEPT ![a] = Parse[text]]
                /\ pc' = [pc EXCEPT ![a] = IF Parse[text] = Bad THEN "exit" ELSE "edits"]
        BY <1>2 DEF ReadSheet
    <2>2. Parse[text] \in Docs \cup {Bad}
        BY ParseType
    <2> QED
        BY <1>2, <2>1, <2>2 DEF ReadSheet
<1>3. ASSUME NEW a \in Appliers, ReadEdits(a) PROVE TypeOK'
    BY <1>3 DEF ReadEdits
<1>4. ASSUME NEW a \in Appliers, RefuseBatch(a) PROVE TypeOK'
    BY <1>4 DEF RefuseBatch
<1>5. ASSUME NEW a \in Appliers, PrintOnly(a) PROVE TypeOK'
    <2>1. Folded(a) \in Docs
        BY <1>5, FoldedType DEF PrintOnly
    <2> QED
        BY <1>5, <2>1 DEF PrintOnly, Revision
<1>6. ASSUME NEW a \in Appliers, SaveSheetFile(a) PROVE TypeOK'
    <2>1. Folded(a) \in Docs
        BY <1>6, FoldedType DEF SaveSheetFile
    <2>2. Text[Folded(a)] \in Contents
        BY <2>1, TextType
    <2>3. Folded(a) # Bad
        BY <1>6 DEF SaveSheetFile
    <2> QED
        BY <1>6, <2>1, <2>2, <2>3 DEF SaveSheetFile, BeginSave
<1>7. ASSUME NEW a \in Appliers, ReplaceFile(a) PROVE TypeOK'
    <2>1. asked[a] \in Contents
        <3>1. doc[a] \in Docs /\ asked[a] = Text[doc[a]]
            BY <1>7 DEF ReplaceFile, Replace, SavesItsDocument
        <3> QED
            BY <3>1, TextType
    <2>2. held' \subseteq Docs
        BY <1>7 DEF ReplaceFile
    <2> QED
        BY <1>7, <2>1, <2>2 DEF ReplaceFile, Replace
<1>8. ASSUME NEW a \in Appliers, RefuseSave(a) PROVE TypeOK'
    BY <1>8 DEF RefuseSave, Refuse
<1>9. ASSUME NEW a \in Appliers, PrintSaved(a) PROVE TypeOK'
    BY <1>9 DEF PrintSaved, ReturnNil, Leave, Revision
<1>10. ASSUME NEW a \in Appliers, FailSave(a) PROVE TypeOK'
    BY <1>10 DEF FailSave, ReturnErr, Leave
<1>11. ASSUME NEW a \in Appliers, Rerun(a) PROVE TypeOK'
    BY <1>11, ApplyAssumption DEF Rerun
<1>12. ASSUME NEW a \in Appliers, Kill(a) PROVE TypeOK'
    BY <1>12 DEF Kill, Die
<1>13. CASE UNCHANGED vars
    BY <1>13 DEF vars
<1> QED
    BY <1>1, <1>2, <1>3, <1>4, <1>5, <1>6, <1>7, <1>8, <1>9, <1>10, <1>11, <1>12, <1>13
    DEF Next

\* Every step keeps the save under way to the document in hand.
LEMMA StepSavesItsDocument == IInv /\ [Next]_vars => SavesItsDocument'
<1> SUFFICES ASSUME IInv, [Next]_vars PROVE SavesItsDocument'
    OBVIOUS
<1> USE DEF IInv, TypeOK, SaveTypeOK, SavesItsDocument, Appliers, Goto, Becomes, saveVars, runVars, historyVars
<1>1. ASSUME NEW a \in Appliers, Start(a) PROVE SavesItsDocument'
    BY <1>1 DEF Start
<1>2. ASSUME NEW a \in Appliers, ReadSheet(a) PROVE SavesItsDocument'
    BY <1>2 DEF ReadSheet
<1>3. ASSUME NEW a \in Appliers, ReadEdits(a) PROVE SavesItsDocument'
    BY <1>3 DEF ReadEdits
<1>4. ASSUME NEW a \in Appliers, RefuseBatch(a) PROVE SavesItsDocument'
    BY <1>4 DEF RefuseBatch
<1>5. ASSUME NEW a \in Appliers, PrintOnly(a) PROVE SavesItsDocument'
    BY <1>5 DEF PrintOnly
<1>6. ASSUME NEW a \in Appliers, SaveSheetFile(a) PROVE SavesItsDocument'
    BY <1>6 DEF SaveSheetFile, BeginSave
<1>7. ASSUME NEW a \in Appliers, ReplaceFile(a) PROVE SavesItsDocument'
    <2>1. doc[a] \in Docs /\ asked[a] = Text[doc[a]]
        BY <1>7 DEF ReplaceFile, Replace
    <2>2. Parse[file'] = doc[a]
        BY <1>7, <2>1, TextType DEF ReplaceFile, Replace
    <2>3. doc[a] \in held' /\ held \subseteq held'
        BY <1>7, <2>1, <2>2 DEF ReplaceFile
    <2> QED
        BY <1>7, <2>3 DEF ReplaceFile, Replace
<1>8. ASSUME NEW a \in Appliers, RefuseSave(a) PROVE SavesItsDocument'
    BY <1>8 DEF RefuseSave, Refuse
<1>9. ASSUME NEW a \in Appliers, PrintSaved(a) PROVE SavesItsDocument'
    BY <1>9 DEF PrintSaved, ReturnNil, Leave
<1>10. ASSUME NEW a \in Appliers, FailSave(a) PROVE SavesItsDocument'
    BY <1>10 DEF FailSave, ReturnErr, Leave
<1>11. ASSUME NEW a \in Appliers, Rerun(a) PROVE SavesItsDocument'
    BY <1>11 DEF Rerun
<1>12. ASSUME NEW a \in Appliers, Kill(a) PROVE SavesItsDocument'
    BY <1>12 DEF Kill, Die
<1>13. CASE UNCHANGED vars
    BY <1>13 DEF vars
<1> QED
    BY <1>1, <1>2, <1>3, <1>4, <1>5, <1>6, <1>7, <1>8, <1>9, <1>10, <1>11, <1>12, <1>13
    DEF Next

\* Every step that changes the file overtakes every run but the one that takes it.
LEMMA StepHasTheFile == IInv /\ [Next]_vars => HasTheFile'
<1> SUFFICES ASSUME IInv, [Next]_vars PROVE HasTheFile'
    OBVIOUS
<1> USE DEF IInv, TypeOK, SaveTypeOK, HasTheFile, Appliers, Goto, Becomes, saveVars, runVars, historyVars
<1>1. ASSUME NEW a \in Appliers, Start(a) PROVE HasTheFile'
    BY <1>1 DEF Start
<1>2. ASSUME NEW a \in Appliers, ReadSheet(a) PROVE HasTheFile'
    BY <1>2 DEF ReadSheet
<1>3. ASSUME NEW a \in Appliers, ReadEdits(a) PROVE HasTheFile'
    BY <1>3 DEF ReadEdits
<1>4. ASSUME NEW a \in Appliers, RefuseBatch(a) PROVE HasTheFile'
    BY <1>4 DEF RefuseBatch
<1>5. ASSUME NEW a \in Appliers, PrintOnly(a) PROVE HasTheFile'
    BY <1>5 DEF PrintOnly
<1>6. ASSUME NEW a \in Appliers, SaveSheetFile(a) PROVE HasTheFile'
    <2>1. /\ Folded(a) = batch[a].fold[doc[a]]
         /\ batch[a].base \in {NoBase, Revision(doc[a])}
        BY <1>6, FoldedType DEF SaveSheetFile
    <2>2. ~overtaken[a] => doc[a] = Parse[file]
        BY <1>6 DEF SaveSheetFile
    <2> QED
        BY <1>6, <2>1, <2>2 DEF SaveSheetFile, BeginSave
<1>7. ASSUME NEW a \in Appliers, ReplaceFile(a) PROVE HasTheFile'
    BY <1>7 DEF ReplaceFile, Replace
<1>8. ASSUME NEW a \in Appliers, RefuseSave(a) PROVE HasTheFile'
    BY <1>8 DEF RefuseSave, Refuse
<1>9. ASSUME NEW a \in Appliers, PrintSaved(a) PROVE HasTheFile'
    BY <1>9 DEF PrintSaved, ReturnNil, Leave
<1>10. ASSUME NEW a \in Appliers, FailSave(a) PROVE HasTheFile'
    BY <1>10 DEF FailSave, ReturnErr, Leave
<1>11. ASSUME NEW a \in Appliers, Rerun(a) PROVE HasTheFile'
    BY <1>11 DEF Rerun
<1>12. ASSUME NEW a \in Appliers, Kill(a) PROVE HasTheFile'
    BY <1>12 DEF Kill, Die
<1>13. CASE UNCHANGED vars
    BY <1>13 DEF vars
<1> QED
    BY <1>1, <1>2, <1>3, <1>4, <1>5, <1>6, <1>7, <1>8, <1>9, <1>10, <1>11, <1>12, <1>13
    DEF Next

\* Every step that prints a revision of the file prints one the file has held.
LEMMA StepPrintedWasWritten == IInv /\ [Next]_vars => PrintedWasWritten'
<1> SUFFICES ASSUME IInv, [Next]_vars PROVE PrintedWasWritten'
    OBVIOUS
<1> USE DEF IInv, TypeOK, SaveTypeOK, PrintedWasWritten, Appliers, Goto, Becomes, saveVars, runVars, historyVars
<1>1. ASSUME NEW a \in Appliers, Start(a) PROVE PrintedWasWritten'
    BY <1>1 DEF Start, SavesItsDocument
<1>2. ASSUME NEW a \in Appliers, ReadSheet(a) PROVE PrintedWasWritten'
    BY <1>2 DEF ReadSheet
<1>3. ASSUME NEW a \in Appliers, ReadEdits(a) PROVE PrintedWasWritten'
    BY <1>3 DEF ReadEdits
<1>4. ASSUME NEW a \in Appliers, RefuseBatch(a) PROVE PrintedWasWritten'
    BY <1>4 DEF RefuseBatch
<1>5. ASSUME NEW a \in Appliers, PrintOnly(a) PROVE PrintedWasWritten'
    BY <1>5 DEF PrintOnly
<1>6. ASSUME NEW a \in Appliers, SaveSheetFile(a) PROVE PrintedWasWritten'
    BY <1>6 DEF SaveSheetFile, BeginSave
<1>7. ASSUME NEW a \in Appliers, ReplaceFile(a) PROVE PrintedWasWritten'
    BY <1>7 DEF ReplaceFile, Replace
<1>8. ASSUME NEW a \in Appliers, RefuseSave(a) PROVE PrintedWasWritten'
    BY <1>8 DEF RefuseSave, Refuse
<1>9. ASSUME NEW a \in Appliers, PrintSaved(a) PROVE PrintedWasWritten'
    BY <1>9 DEF PrintSaved, ReturnNil, Leave, Revision, SavesItsDocument
<1>10. ASSUME NEW a \in Appliers, FailSave(a) PROVE PrintedWasWritten'
    BY <1>10 DEF FailSave, ReturnErr, Leave
<1>11. ASSUME NEW a \in Appliers, Rerun(a) PROVE PrintedWasWritten'
    BY <1>11 DEF Rerun
<1>12. ASSUME NEW a \in Appliers, Kill(a) PROVE PrintedWasWritten'
    BY <1>12 DEF Kill, Die
<1>13. CASE UNCHANGED vars
    BY <1>13 DEF vars
<1> QED
    BY <1>1, <1>2, <1>3, <1>4, <1>5, <1>6, <1>7, <1>8, <1>9, <1>10, <1>11, <1>12, <1>13
    DEF Next

\* IInv is inductive, so it holds of every reachable state.
THEOREM Invariance == Spec => []IInv
<1>1. Init => IInv
    BY InitIInv
<1>2. IInv /\ [Next]_vars => IInv'
    BY StepTypeOK, StepSavesItsDocument, StepHasTheFile, StepPrintedWasWritten DEF IInv
<1> QED
    BY <1>1, <1>2, PTL DEF Spec

\* A revision printed by a run that writes is one the file came to hold, though
\* other runs replace the file and any run is killed anywhere.
THEOREM PrintsWhatWasWritten == Spec => []PrintedWasWritten
<1>1. IInv => PrintedWasWritten
    BY DEF IInv
<1> QED
    BY <1>1, Invariance, PTL

\* The lost update is the only way to break the promise of #.base: the file
\* replaced is what the batch was folded over unless another run replaced it
\* in between.
THEOREM OnlyOvertaking == Spec => FoldsTheFileUnlessOvertaken
<1> DEFINE Folds ==
        \A a \in Appliers :
            Replacing(a) /\ ~overtaken[a] =>
                /\ batch[a].base \in {NoBase, Revision(Parse[file])}
                /\ Parse[file'] = batch[a].fold[Parse[file]]
<1>1. IInv /\ [Next]_vars => [Folds]_vars
    <2> SUFFICES ASSUME IInv, Next, NEW b \in Appliers, Replacing(b), ~overtaken[b]
                 PROVE  /\ batch[b].base \in {NoBase, Revision(Parse[file])}
                        /\ Parse[file'] = batch[b].fold[Parse[file]]
        OBVIOUS
    <2>1. ReplaceFile(b)
        BY DEF IInv, TypeOK, SaveTypeOK, Replacing, Next, Start, ReadSheet, ReadEdits,
               RefuseBatch, PrintOnly, SaveSheetFile, BeginSave, ReplaceFile, Replace,
               RefuseSave, Refuse, PrintSaved, ReturnNil, FailSave, ReturnErr, Leave,
               Rerun, Kill, Die, Becomes, Appliers, saveVars, runVars
    <2>2. pc[b] = "save" /\ doc[b] \in Docs
        BY DEF IInv, TypeOK, Replacing
    <2>3. Parse[file'] = doc[b]
        BY <2>1, <2>2, TextType DEF ReplaceFile, Replace, IInv, SavesItsDocument
    <2> QED
        BY <2>3 DEF IInv, HasTheFile, Replacing
<1> QED
    BY <1>1, Invariance, PTL DEF Spec, FoldsTheFileUnlessOvertaken

\* Every step of the command is one of the saver's contract, or none: apply asks
\* for a save only when it has none under way, and looks at its outcome once.
THEOREM ClientOfTheSaver == Spec => SaveSpec
<1>1. Init => SaveInit
    BY DEF Init
<1>2. IInv /\ [Next]_vars => [SaveNext]_saveVars
    <2> SUFFICES ASSUME IInv, [Next]_vars PROVE SaveNext \/ UNCHANGED saveVars
        OBVIOUS
    <2>1. ASSUME NEW a \in Appliers, SaveSheetFile(a) PROVE SaveNext
        <3>1. Folded(a) \in Docs
            BY <2>1, FoldedType DEF SaveSheetFile, Goto, IInv
        <3>2. Text[Folded(a)] \in Contents /\ BeginSave(a, Text[Folded(a)])
            BY <2>1, <3>1, TextType DEF SaveSheetFile
        <3> QED
            BY <3>2 DEF SaveNext, Appliers
    <2>2. ASSUME NEW a \in Appliers,
                 \/ ReplaceFile(a) \/ RefuseSave(a) \/ PrintSaved(a) \/ FailSave(a)
          PROVE  SaveNext
        BY <2>2 DEF ReplaceFile, RefuseSave, PrintSaved, FailSave, SaveNext, Appliers
    <2>3. ASSUME NEW a \in Appliers, Kill(a) PROVE SaveNext
        BY <2>3 DEF Kill, SaveNext, Appliers
    <2>4. ASSUME NEW a \in Appliers,
                 \/ Start(a) \/ ReadSheet(a) \/ ReadEdits(a)
                 \/ RefuseBatch(a) \/ PrintOnly(a) \/ Rerun(a)
          PROVE  UNCHANGED saveVars
        BY <2>4 DEF Start, ReadSheet, ReadEdits, RefuseBatch, PrintOnly, Rerun
    <2>5. CASE UNCHANGED vars
        BY <2>5 DEF vars
    <2> QED
        BY <2>1, <2>2, <2>3, <2>4, <2>5 DEF Next
<1> QED
    BY <1>1, <1>2, Invariance, PTL DEF Spec, SaveSpec
=============================================================================
