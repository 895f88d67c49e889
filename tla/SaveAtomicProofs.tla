-------------------------- MODULE SaveAtomicProofs --------------------------
(***************************************************************************)
(* For any number of processes, savers and saves, with every file          *)
(* operation free to fail and every process free to die: the sheet is      *)
(* always whole, and saveAtomic is an atomic replacement of it.            *)
(***************************************************************************)
EXTENDS SaveAtomic, TLAPS

\* A fresh staging name is a name, and not the sheet's.
LEMMA FreshName ==
    ASSUME TypeOK, NEW s \in Savers, counter[ProcessOf(s)] < MaxSaves
    PROVE  /\ ProcessOf(s) \in Processes
           /\ counter[ProcessOf(s)] + 1 \in 1..MaxSaves
           /\ StagingName(s) \in StagingNames
           /\ StagingNames \subseteq Names
BY SaveAssumption DEF TypeOK, StagingName, StagingNames, Names

LEMMA SheetIsAName == Sheet \in Names /\ Sheet \notin StagingNames
BY SaveAssumption DEF Names, StagingNames

LEMMA InitIInv == Init => IInv
<1> SUFFICES ASSUME Init PROVE IInv
    OBVIOUS
<1> USE SaveAssumption, SheetIsAName DEF Init
<1>1. TypeOK
    BY DEF TypeOK, Data, Waypoints, Names
<1>2. OwnStaging /\ StagedWhole /\ SheetWhole
    BY DEF OwnStaging, StagedWhole, SheetWhole, Staging, Data
<1> QED
    BY <1>1, <1>2 DEF IInv

\* Every step keeps the types.
LEMMA StepTypeOK == IInv /\ [Next]_vars => TypeOK'
<1> SUFFICES ASSUME IInv, [Next]_vars PROVE TypeOK'
    OBVIOUS
<1> USE SaveAssumption, SheetIsAName DEF IInv, TypeOK, Goto, Waypoints, Data
<1>1. ASSUME NEW s \in Savers, Call(s) PROVE TypeOK'
    BY <1>1 DEF Call
<1>2. ASSUME NEW s \in Savers, OpenRoot(s) PROVE TypeOK'
    <2>1. /\ counter[ProcessOf(s)] + 1 \in 0..MaxSaves
          /\ StagingName(s) \in Names
        BY <1>2, FreshName DEF OpenRoot
    <2> QED
        BY <1>2, <2>1 DEF OpenRoot
<1>3. ASSUME NEW s \in Savers,
             \/ OpenRootFails(s) \/ CreateFails(s) \/ WriteFails(s)
             \/ RenameFails(s) \/ RemoveFails(s)
      PROVE  TypeOK'
    BY <1>3 DEF OpenRootFails, CreateFails, WriteFails, RenameFails, RemoveFails
<1>4. ASSUME NEW s \in Savers, ModeOf(s) \/ StatFails(s) PROVE TypeOK'
    BY <1>4, SaveAssumption DEF ModeOf, StatFails
<1>5. ASSUME NEW s \in Savers, CreateStaging(s) PROVE TypeOK'
    BY <1>5 DEF CreateStaging
<1>6. ASSUME NEW s \in Savers, WriteStaging(s) PROVE TypeOK'
    BY <1>6 DEF WriteStaging
<1>7. ASSUME NEW s \in Savers, Rename(s) PROVE TypeOK'
    BY <1>7 DEF Rename
<1>8. ASSUME NEW s \in Savers, RemoveStaging(s) PROVE TypeOK'
    BY <1>8 DEF RemoveStaging
<1>9. ASSUME NEW s \in Savers, ReturnNil(s) \/ ReturnErr(s) PROVE TypeOK'
    BY <1>9 DEF ReturnNil, ReturnErr, Leave
<1>10. ASSUME NEW p \in Processes, Die(p) PROVE TypeOK'
    BY <1>10 DEF Die
<1>11. CASE UNCHANGED vars
    BY <1>11 DEF vars
<1> QED
    BY <1>1, <1>2, <1>3, <1>4, <1>5, <1>6, <1>7, <1>8, <1>9, <1>10, <1>11
    DEF Next, Step

\* Every step keeps the staging files apart: a new name is past every name the
\* process has drawn, and the process id keeps other processes' names away.
LEMMA StepOwnStaging == IInv /\ [Next]_vars => OwnStaging'
<1> SUFFICES ASSUME IInv, [Next]_vars PROVE OwnStaging'
    OBVIOUS
<1> USE DEF IInv, TypeOK, OwnStaging, Staging, Goto
<1>1. ASSUME NEW s \in Savers, OpenRoot(s) PROVE OwnStaging'
    <2> DEFINE p == ProcessOf(s)
               n == counter[p] + 1
    <2>1. /\ p \in Processes /\ counter[p] \in Nat
          /\ tmp' = [tmp EXCEPT ![s] = <<p, n>>]
          /\ counter' = [counter EXCEPT ![p] = n]
          /\ pc' = [pc EXCEPT ![s] = "stat"]
        BY <1>1, SaveAssumption DEF OpenRoot, StagingName
    <2>2. \A q \in Processes : 1..counter[q] \subseteq 1..counter'[q]
        BY <2>1, SaveAssumption
    <2>3. \A t \in Savers : t # s /\ pc[t] \in Staging =>
            /\ tmp'[t] = tmp[t]
            /\ tmp[t] \in {ProcessOf(t)} \X (1..counter'[ProcessOf(t)])
            /\ tmp[t] # <<p, n>>
        BY <2>1, <2>2, SaveAssumption
    <2>4. <<p, n>> \in {p} \X (1..counter'[p])
        BY <2>1, SaveAssumption
    <2> QED
        BY <2>1, <2>3, <2>4
<1>2. ASSUME UNCHANGED counter,
             \A s \in Savers : pc'[s] \in Staging => pc[s] \in Staging /\ tmp'[s] = tmp[s]
      PROVE  OwnStaging'
    BY <1>2
<1>3. ASSUME NEW s \in Savers,
             \/ Call(s) \/ OpenRootFails(s) \/ ModeOf(s) \/ StatFails(s) \/ CreateStaging(s)
             \/ CreateFails(s) \/ WriteStaging(s) \/ WriteFails(s) \/ Rename(s)
             \/ RenameFails(s) \/ RemoveStaging(s) \/ RemoveFails(s)
             \/ ReturnNil(s) \/ ReturnErr(s)
      PROVE  OwnStaging'
    <2>1. UNCHANGED counter
        BY <1>3 DEF Call, OpenRootFails, ModeOf, StatFails, CreateStaging, CreateFails,
           WriteStaging, WriteFails, Rename, RenameFails, RemoveStaging,
           RemoveFails, ReturnNil, ReturnErr
    <2>2. \A t \in Savers : pc'[t] \in Staging => pc[t] \in Staging /\ tmp'[t] = tmp[t]
        BY <1>3 DEF Call, OpenRootFails, ModeOf, StatFails, CreateStaging, CreateFails,
           WriteStaging, WriteFails, Rename, RenameFails, RemoveStaging,
           RemoveFails, ReturnNil, ReturnErr, Leave
    <2> QED
        BY <2>1, <2>2, <1>2
<1>4. ASSUME NEW p \in Processes, Die(p) PROVE OwnStaging'
    BY <1>4, <1>2 DEF Die
<1>5. CASE UNCHANGED vars
    BY <1>5, <1>2 DEF vars
<1> QED
    BY <1>1, <1>3, <1>4, <1>5 DEF Next, Step

\* A saver at work holds a staging name: one that is not the sheet, nor any
\* other saver's.
LEMMA TmpIsStaging ==
    ASSUME IInv, NEW s \in Savers, pc[s] \in Staging
    PROVE  /\ tmp[s] \in StagingNames
           /\ tmp[s] \in Names
           /\ tmp[s] # Sheet
           /\ \A t \in Savers : t # s /\ pc[t] \in Staging => tmp[t] # tmp[s]
<1>1. ProcessOf(s) \in Processes /\ 1..counter[ProcessOf(s)] \subseteq 1..MaxSaves
    BY SaveAssumption DEF IInv, TypeOK
<1> QED
    BY <1>1, SheetIsAName DEF IInv, OwnStaging, StagingNames, Names

\* Every step keeps the files whole: a saver touches no name but its own
\* staging file, until Rename moves that file, whole, over the sheet.
LEMMA StepWhole == IInv /\ [Next]_vars => StagedWhole' /\ SheetWhole'
<1> SUFFICES ASSUME IInv, [Next]_vars PROVE StagedWhole' /\ SheetWhole'
    OBVIOUS
<1> USE SaveAssumption, SheetIsAName
    DEF IInv, TypeOK, StagedWhole, SheetWhole, Goto, Data
<1>1. ASSUME NEW s \in Savers, CreateStaging(s) PROVE StagedWhole' /\ SheetWhole'
    BY <1>1, TmpIsStaging DEF CreateStaging, Staging
<1>2. ASSUME NEW s \in Savers, WriteStaging(s) PROVE StagedWhole' /\ SheetWhole'
    BY <1>2, TmpIsStaging DEF WriteStaging, Staging
<1>3. ASSUME NEW s \in Savers, RemoveStaging(s) PROVE StagedWhole' /\ SheetWhole'
    BY <1>3, TmpIsStaging DEF RemoveStaging, Staging
<1>4. ASSUME NEW s \in Savers, Rename(s) PROVE StagedWhole' /\ SheetWhole'
    <2>1. dir[tmp[s]] = asked[s] /\ asked[s] \in Contents
        BY <1>4 DEF Rename
    <2> QED
        BY <1>4, <2>1, TmpIsStaging DEF Rename, Staging
<1>5. ASSUME NEW s \in Savers,
             \/ Call(s) \/ OpenRoot(s) \/ OpenRootFails(s) \/ ModeOf(s) \/ StatFails(s)
             \/ CreateFails(s) \/ WriteFails(s) \/ RenameFails(s) \/ RemoveFails(s)
             \/ ReturnNil(s) \/ ReturnErr(s)
      PROVE  StagedWhole' /\ SheetWhole'
    BY <1>5 DEF Call, OpenRoot, OpenRootFails, ModeOf, StatFails, CreateFails, WriteFails,
       RenameFails, RemoveFails, ReturnNil, ReturnErr, Leave
<1>6. ASSUME NEW p \in Processes, Die(p) PROVE StagedWhole' /\ SheetWhole'
    BY <1>6 DEF Die
<1>7. CASE UNCHANGED vars
    BY <1>7 DEF vars
<1> QED
    BY <1>1, <1>2, <1>3, <1>4, <1>5, <1>6, <1>7 DEF Next, Step

\* The inductive invariant holds throughout.
THEOREM Invariance == Spec => []IInv
<1>1. Init => IInv
    BY InitIInv
<1>2. IInv /\ [Next]_vars => IInv'
    BY StepTypeOK, StepOwnStaging, StepWhole DEF IInv
<1> QED
    BY <1>1, <1>2, PTL DEF Spec

\* Whatever fails, dies or runs at once, the sheet file is never truncated.
THEOREM NeverTruncated == Spec => []SheetWhole
<1>1. IInv => SheetWhole
    BY DEF IInv
<1> QED
    BY <1>1, Invariance, PTL

\* One step of a saver is one step of an atomic replacement, or none.
LEMMA StepRefines ==
    IInv /\ [Next]_vars => [Replacement!SaveNext]_(Replacement!saveVars)
<1> SUFFICES ASSUME IInv, [Next]_vars
             PROVE  Replacement!SaveNext \/ UNCHANGED Replacement!saveVars
    OBVIOUS
<1> USE SaveAssumption, SheetIsAName
    DEF IInv, TypeOK, Goto, Replacement!saveVars, Replacement!Becomes
<1>1. ASSUME NEW s \in Savers, Call(s)
      PROVE  \E data \in Contents : Replacement!BeginSave(s, data)
    <2>1. PICK data \in Contents : asked' = [asked EXCEPT ![s] = data]
        BY <1>1 DEF Call
    <2> QED
        BY <1>1, <2>1 DEF Call, Replacement!BeginSave
<1>2. ASSUME NEW s \in Savers, Rename(s) PROVE Replacement!Replace(s)
    <2>1. dir'[Sheet] = asked[s]
        BY <1>2, TmpIsStaging DEF Rename, Staging, StagedWhole
    <2> QED
        BY <1>2, <2>1 DEF Rename, Replacement!Replace
<1>3. ASSUME NEW s \in Savers,
             OpenRootFails(s) \/ CreateFails(s) \/ WriteFails(s) \/ RenameFails(s)
      PROVE  Replacement!Refuse(s)
    BY <1>3 DEF OpenRootFails, CreateFails, WriteFails, RenameFails, Replacement!Refuse
<1>4. ASSUME NEW s \in Savers, OpenRoot(s) \/ ModeOf(s) \/ StatFails(s) \/ RemoveFails(s)
      PROVE  UNCHANGED Replacement!saveVars
    BY <1>4 DEF OpenRoot, ModeOf, StatFails, RemoveFails
<1>5. ASSUME NEW s \in Savers, CreateStaging(s) \/ WriteStaging(s) \/ RemoveStaging(s)
      PROVE  UNCHANGED Replacement!saveVars
    <2>1. dir'[Sheet] = dir[Sheet]
        BY <1>5, TmpIsStaging DEF CreateStaging, WriteStaging, RemoveStaging, Staging
    <2> QED
        BY <1>5, <2>1 DEF CreateStaging, WriteStaging, RemoveStaging
<1>6. ASSUME NEW s \in Savers, ReturnNil(s) PROVE Replacement!ReturnNil(s)
    BY <1>6 DEF ReturnNil, Leave, Replacement!ReturnNil, Replacement!Leave
<1>7. ASSUME NEW s \in Savers, ReturnErr(s) PROVE Replacement!ReturnErr(s)
    BY <1>7 DEF ReturnErr, Leave, Replacement!ReturnErr, Replacement!Leave
<1>8. ASSUME NEW p \in Processes, Die(p)
      PROVE  \E dying \in SUBSET Savers : Replacement!Die(dying)
    <2>1. Replacement!Die({s \in Savers : ProcessOf(s) = p})
        BY <1>8 DEF Die, Replacement!Die
    <2> QED
        BY <2>1
<1>9. CASE UNCHANGED vars
    BY <1>9 DEF vars
<1> QED
    BY <1>1, <1>2, <1>3, <1>4, <1>5, <1>6, <1>7, <1>8, <1>9
    DEF Next, Step, Replacement!SaveNext

\* saveAtomic implements AtomicReplace: each save publishes its own bytes whole
\* and returns nil, or leaves the sheet alone and returns an error.
THEOREM Atomicity == Spec => ReplacesAtomically
<1>1. Init => Replacement!SaveInit
    BY SheetIsAName DEF Init, Replacement!SaveInit
<1>2. IInv /\ [Next]_vars => [Replacement!SaveNext]_(Replacement!saveVars)
    BY StepRefines
<1> QED
    BY <1>1, <1>2, Invariance, PTL DEF Spec, ReplacesAtomically, Replacement!SaveSpec

\* What is granted, file by file and saver by saver.
LEMMA GrantedNow ==
    \A b : b \in Granted <=> \/ \E n \in Present : b \in mode[n]
                             \/ \E s \in Savers : b \in perm[s]
BY DEF Granted

\* And what is next.
LEMMA GrantedNext ==
    \A b : b \in Granted' <=> \/ \E n \in Present' : b \in mode'[n]
                              \/ \E s \in Savers : b \in perm'[s]
BY DEF Granted

\* Every step grants what was granted: a file is created with the mode the sheet
\* had, or the private one, and is there from then on until it is moved or removed.
LEMMA StepNeverWidens == IInv /\ [Next]_vars => Granted' \subseteq Granted \cup Private
<1> SUFFICES ASSUME IInv, [Next]_vars PROVE Granted' \subseteq Granted \cup Private
    OBVIOUS
<1> DEFINE G == Granted \cup Private
<1> HIDE DEF G
<1>g. /\ \A n \in Names : dir[n] # NoFile => mode[n] \subseteq G
      /\ \A s \in Savers : perm[s] \subseteq G
      /\ Private \subseteq G
    BY GrantedNow DEF G, Present
<1>w. ASSUME \A n \in Names : dir'[n] # NoFile => mode'[n] \subseteq G,
             \A s \in Savers : perm'[s] \subseteq G
      PROVE  Granted' \subseteq Granted \cup Private
    BY <1>w, GrantedNext DEF G, Present
<1> USE SaveAssumption, SheetIsAName DEF IInv, TypeOK, Goto
<1>1. ASSUME NEW s \in Savers, CreateStaging(s) PROVE Granted' \subseteq Granted \cup Private
    BY <1>1, <1>g, <1>w, TmpIsStaging DEF CreateStaging, Staging
<1>2. ASSUME NEW s \in Savers, WriteStaging(s) PROVE Granted' \subseteq Granted \cup Private
    BY <1>2, <1>g, <1>w, TmpIsStaging DEF WriteStaging, Staging, StagedWhole
<1>3. ASSUME NEW s \in Savers, RemoveStaging(s) PROVE Granted' \subseteq Granted \cup Private
    BY <1>3, <1>g, <1>w, TmpIsStaging DEF RemoveStaging, Staging
<1>4. ASSUME NEW s \in Savers, Rename(s) PROVE Granted' \subseteq Granted \cup Private
    BY <1>4, <1>g, <1>w, TmpIsStaging DEF Rename, Staging
<1>5. ASSUME NEW s \in Savers, ModeOf(s) \/ StatFails(s) \/ ReturnNil(s) \/ ReturnErr(s)
      PROVE  Granted' \subseteq Granted \cup Private
    BY <1>5, <1>g, <1>w DEF ModeOf, StatFails, ReturnNil, ReturnErr, Leave
<1>6. ASSUME NEW s \in Savers,
             \/ Call(s) \/ OpenRoot(s) \/ OpenRootFails(s) \/ CreateFails(s) \/ WriteFails(s)
             \/ RenameFails(s) \/ RemoveFails(s)
      PROVE  Granted' \subseteq Granted \cup Private
    BY <1>6, <1>g, <1>w
    DEF Call, OpenRoot, OpenRootFails, CreateFails, WriteFails, RenameFails, RemoveFails
<1>7. ASSUME NEW p \in Processes, Die(p) PROVE Granted' \subseteq Granted \cup Private
    BY <1>7, <1>g, <1>w DEF Die
<1>8. CASE UNCHANGED vars
    BY <1>8, <1>g, <1>w DEF vars
<1> QED
    BY <1>1, <1>2, <1>3, <1>4, <1>5, <1>6, <1>7, <1>8 DEF Next, Step

\* Nobody is granted what the sheet did not grant, however many savers fail,
\* leave their staging files behind, or find the sheet gone.
THEOREM NobodyNew == Spec => NeverWidens
BY StepNeverWidens, Invariance, PTL DEF Spec, NeverWidens
=============================================================================
