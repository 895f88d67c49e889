-------------------------- MODULE CommandProofs --------------------------
(***************************************************************************)
(* For any budget, first checkpoint, sheet and way the bytes come in: what *)
(* is parsed is in budget, what is over it is refused early, and what is   *)
(* in budget arrives whole.  Then the commands, to which such a reading is *)
(* one step: for any number of sheets and any outcome of each, the exit    *)
(* code is of the worst, and agrees with what stdout got of the answer.    *)
(* Then what a command computes and prints, for paths of any names, chains *)
(* of references of any length and grids of any size: a reference leads    *)
(* from the sheet that makes it, and not out of the directory of the top   *)
(* one; a cycle is found by its names; and a table is what its view leaves *)
(* of the grid.                                                            *)
(***************************************************************************)
EXTENDS BoundedRead, Command, SequenceTheorems, WellFoundedInduction, TLAPS

\* BoundedSeq is the sequences that are not too long.
LEMMA BoundedIs ==
    ASSUME NEW S, NEW n \in Nat, NEW d
    PROVE  d \in BoundedSeq(S, n) <=> d \in Seq(S) /\ Len(d) \in 0..n
<1>1. d \in BoundedSeq(S, n) <=> \E m \in 0..n : d \in [1..m -> S]
    BY DEF BoundedSeq, SeqOf
<1>2. ASSUME NEW m \in 0..n, d \in [1..m -> S] PROVE d \in Seq(S) /\ Len(d) = m
    BY <1>2
<1>3. ASSUME d \in Seq(S) PROVE d \in [1..Len(d) -> S]
    BY <1>3, LenProperties
<1> QED
    BY <1>1, <1>2, <1>3

\* A document is one, of bytes.
LEMMA DocumentsAre ==
    \A d : d \in Documents <=> d \in Seq(Bytes) /\ Len(d) \in 0..MaxLength
BY BoundedIs, BoundedReadAssumption DEF Documents

\* The beginning of a document is one, of as many bytes.
LEMMA BeginsWith ==
    ASSUME NEW d \in Documents, NEW n \in 0..Len(d)
    PROVE  SubSeq(d, 1, n) \in Documents /\ Len(SubSeq(d, 1, n)) = n
<1>1. d \in Seq(Bytes) /\ Len(d) \in 0..MaxLength /\ n \in Int /\ MaxLength \in Nat
    BY DocumentsAre, BoundedReadAssumption
<1>2. \A i \in 1..n : d[i] \in Bytes
    BY <1>1, ElementOfSeq
<1>3. SubSeq(d, 1, n) \in Seq(Bytes) /\ Len(SubSeq(d, 1, n)) = IF 1 <= n THEN n - 1 + 1 ELSE 0
    BY <1>1, <1>2, SubSeqProperties
<1>4. n \in 0..MaxLength /\ Len(SubSeq(d, 1, n)) = n
    BY <1>1, <1>3
<1> QED
    BY <1>3, <1>4, DocumentsAre

LEMMA WholeDocument ==
    ASSUME NEW d \in Documents
    PROVE  SubSeq(d, 1, Len(d)) = d
BY DocumentsAre, SubSeqFull

\* A beginning of a document in budget is in budget.
LEMMA InBudgetFromTheStart ==
    ASSUME NEW d \in Documents, NEW n \in 0..Len(d), NEW m \in 0..n,
           ~OverBudget(SubSeq(d, 1, n))
    PROVE  ~OverBudget(SubSeq(d, 1, m))
<1>1. Len(d) \in Nat
    BY DocumentsAre, BoundedReadAssumption
<1>2. m \in 0..Len(d)
    BY <1>1
<1>3. /\ Census(SubSeq(d, 1, n)) \in Nat /\ Census(SubSeq(d, 1, m)) \in Nat
      /\ Census(SubSeq(d, 1, m)) <= Census(SubSeq(d, 1, n))
    BY <1>2, BeginsWith, BoundedReadAssumption DEF CensusGrows
<1> QED
    BY <1>3, BoundedReadAssumption DEF OverBudget

\* What a Read appends: the buffer is the longer by that, and goes on as the
\* source does when it began like it.
LEMMA Arrives ==
    ASSUME TypeOK, NEW upTo, Arrive(upTo)
    PROVE  /\ buf' \in Documents /\ Len(buf') > Len(buf)
           /\ Len(buf') <= upTo /\ Len(buf') <= Len(source)
           /\ buf = Sent(Len(buf)) => buf' = Sent(Len(buf'))
<1>1. PICK n \in (Len(buf) + 1)..Len(source) :
        n <= upTo /\ buf' = buf \o SubSeq(source, Len(buf) + 1, n)
    BY DEF Arrive
<1> DEFINE came == SubSeq(source, Len(buf) + 1, n)
<1>2. /\ source \in Seq(Bytes) /\ buf \in Seq(Bytes)
      /\ Len(source) \in 0..MaxLength /\ Len(buf) \in Nat /\ MaxLength \in Nat
    BY DocumentsAre, BoundedReadAssumption DEF TypeOK
<1>3. \A i \in (Len(buf) + 1)..n : source[i] \in Bytes
    BY <1>2, ElementOfSeq
<1>4. came \in Seq(Bytes) /\ Len(came) = n - Len(buf)
    <2>1. Len(buf) + 1 \in Int /\ n \in Int /\ Len(buf) + 1 <= n
        BY <1>2
    <2>2. /\ came \in Seq(Bytes)
          /\ Len(came) = IF Len(buf) + 1 <= n THEN n - (Len(buf) + 1) + 1 ELSE 0
        BY <1>3, <2>1, SubSeqProperties
    <2> QED
        BY <1>2, <2>1, <2>2
<1> HIDE DEF came
<1>5. buf' \in Seq(Bytes) /\ Len(buf') = n
    <2>1. buf' = buf \o came
        BY <1>1 DEF came
    <2>2. buf' \in Seq(Bytes) /\ Len(buf') = Len(buf) + Len(came)
        BY <1>2, <1>4, <2>1, ConcatProperties
    <2> QED
        BY <1>2, <1>4, <2>2
<1>6. buf' \in Documents
    BY <1>2, <1>5, DocumentsAre
<1>7. ASSUME buf = Sent(Len(buf)) PROVE buf' = Sent(n)
    <2>1. /\ 1 \in 1..Len(source) + 1
          /\ Len(buf) \in (1 - 1)..Len(source)
          /\ n \in Len(buf)..Len(source)
        BY <1>1, <1>2
    <2>2. SubSeq(source, 1, Len(buf)) \o SubSeq(source, Len(buf) + 1, n) = SubSeq(source, 1, n)
        BY <1>2, <2>1, ConcatAdjacentSubSeq
    <2>3. buf = SubSeq(source, 1, Len(buf))
        BY <1>7 DEF Sent
    <2> QED
        BY <1>1, <2>2, <2>3 DEF Sent
<1>8. Len(buf) < n /\ n <= upTo /\ n <= Len(source)
    BY <1>1, <1>2
<1>9. Len(buf') > Len(buf) /\ Len(buf') <= upTo /\ Len(buf') <= Len(source)
    BY <1>5, <1>8
<1>10. buf = Sent(Len(buf)) => buf' = Sent(Len(buf'))
    BY <1>5, <1>7
<1> QED
    BY <1>6, <1>9, <1>10

\* What the steps keep: the invariant but for what follows from it.
Core ==
    /\ TypeOK /\ ReadsFromTheStart /\ BuffersWhatIsVetted /\ DoublesWhatIsVetted
    /\ ParsedIsBudgeted /\ ArrivesWhole

LEMMA Lengths ==
    ASSUME TypeOK
    PROVE  /\ Len(source) \in Nat /\ Len(buf) \in Nat
           /\ Len(source) <= MaxLength /\ Len(buf) <= MaxLength /\ MaxLength \in Nat
BY DocumentsAre, BoundedReadAssumption DEF TypeOK

LEMMA Begin == Init => Core
<1> SUFFICES ASSUME Init PROVE Core
    OBVIOUS
<1>1. source \in Documents /\ buf = <<>> /\ Len(buf) = 0 /\ Len(source) \in 0..MaxLength
    BY DocumentsAre DEF Init
<1>2. Sent(0) = <<>>
    BY <1>1, DocumentsAre, SubSeqProperties DEF Sent
<1>3. <<>> \in Documents
    <2>1. <<>> \in Seq(Bytes) /\ Len(<<>>) = 0 /\ 0 \in 0..MaxLength
        BY EmptySeq, BoundedReadAssumption
    <2> QED
        BY <2>1, DocumentsAre
<1>4. TypeOK
    <2>1. 0 \in 0..MaxLength /\ Checkpoint \in Nat
        BY BoundedReadAssumption
    <2> QED
        BY <1>1, <1>3, <2>1 DEF TypeOK, Init
<1>5. ReadsFromTheStart
    BY <1>1, <1>2 DEF ReadsFromTheStart, Init
<1>6. BuffersWhatIsVetted /\ ParsedIsBudgeted /\ ArrivesWhole
    BY DEF BuffersWhatIsVetted, ParsedIsBudgeted, ArrivesWhole, Init
<1>7. DoublesWhatIsVetted
    BY <1>1, BoundedReadAssumption DEF DoublesWhatIsVetted, Init
<1> QED
    BY <1>4, <1>5, <1>6, <1>7 DEF Core

\* Of an unwritten source, what was censused whole is the source, and what is
\* over budget of its beginning is over budget of it.
LEMMA Beginnings ==
    ASSUME Core, ~changed
    PROVE  /\ Sent(Len(source)) = source
           /\ Len(buf) = Len(source) => buf = source
           /\ OverBudget(buf) => OverBudget(source)
<1>1. source \in Documents /\ Len(source) \in Nat /\ Len(buf) \in Nat
    BY Lengths DEF Core, TypeOK
<1>2. Len(buf) \in 0..Len(source) /\ buf = Sent(Len(buf))
    BY <1>1 DEF Core, ReadsFromTheStart
<1>3. Sent(Len(source)) = source
    BY <1>1, WholeDocument DEF Sent
<1>4. ~OverBudget(source) => ~OverBudget(buf)
    <2> SUFFICES ASSUME ~OverBudget(source) PROVE ~OverBudget(buf)
        OBVIOUS
    <2>1. Len(source) \in 0..Len(source)
        BY <1>1
    <2>2. ~OverBudget(SubSeq(source, 1, Len(source)))
        BY <1>3 DEF Sent, OverBudget
    <2>3. ~OverBudget(SubSeq(source, 1, Len(buf)))
        BY <1>1, <1>2, <2>1, <2>2, InBudgetFromTheStart
    <2> QED
        BY <1>2, <2>3 DEF Sent, OverBudget
<1> QED
    BY <1>2, <1>3, <1>4

LEMMA OpenKeeps == Core /\ Open => Core'
<1> SUFFICES ASSUME Core, Open PROVE Core'
    OBVIOUS
<1>1. Len(source) \in 0..MaxLength
    BY Lengths DEF Core
<1>2. TypeOK'
    BY <1>1 DEF Core, TypeOK, Open, Proceed, Readers
<1>3. ReadsFromTheStart'
    BY DEF Core, ReadsFromTheStart, Open, Proceed, TypeOK, Readers, Sent
<1>4. BuffersWhatIsVetted'
    BY DEF Core, BuffersWhatIsVetted, Open, Proceed, TypeOK, Readers
<1>5. DoublesWhatIsVetted'
    BY DEF Core, DoublesWhatIsVetted, Open, Proceed, TypeOK, Readers, Sent
<1>6. ParsedIsBudgeted' /\ ArrivesWhole'
    BY DEF Core, ParsedIsBudgeted, ArrivesWhole, Open, Proceed
<1> QED
    BY <1>2, <1>3, <1>4, <1>5, <1>6 DEF Core

LEMMA FailKeeps == Core /\ Fail => Core'
BY DEF Core, Fail, Conclude, TypeOK, ReadsFromTheStart, BuffersWhatIsVetted,
       DoublesWhatIsVetted, ParsedIsBudgeted, ArrivesWhole, Sent

LEMMA CensusFileKeeps == Core /\ CensusFile => Core'
<1> SUFFICES ASSUME Core, CensusFile PROVE Core'
    OBVIOUS
<1>1. ~changed => SubSeq(source, 1, size) = source
    BY Beginnings DEF Core, ReadsFromTheStart, CensusFile, Sent
<1>2. TypeOK'
    BY DEF Core, TypeOK, CensusFile, Proceed, Conclude
<1>3. ReadsFromTheStart'
    BY DEF Core, ReadsFromTheStart, CensusFile, Proceed, Conclude, Sent
<1>4. BuffersWhatIsVetted'
    BY <1>1 DEF Core, BuffersWhatIsVetted, CensusFile, Proceed, Conclude
<1>5. DoublesWhatIsVetted'
    BY DEF Core, DoublesWhatIsVetted, CensusFile, Proceed, Conclude, Sent, ReadsFromTheStart
<1>6. ParsedIsBudgeted' /\ ArrivesWhole'
    BY <1>1 DEF Core, TypeOK, ParsedIsBudgeted, ArrivesWhole, CensusFile, Proceed, Conclude
<1> QED
    BY <1>2, <1>3, <1>4, <1>5, <1>6 DEF Core

LEMMA ReadKeeps == Core /\ Read => Core'
<1> SUFFICES ASSUME Core, Read PROVE Core'
    OBVIOUS
<1>1. /\ buf' \in Documents /\ Len(buf') > Len(buf) /\ Len(buf') <= Len(source)
      /\ buf = Sent(Len(buf)) => buf' = Sent(Len(buf'))
    BY Arrives, BoundedReadAssumption DEF Core, Read
<1>2. reader # "stream"
    BY DEF Core, ReadsFromTheStart, Read
<1>3. TypeOK'
    BY <1>1 DEF Core, TypeOK, Read
<1>4. ReadsFromTheStart'
    BY <1>1, <1>2 DEF Core, ReadsFromTheStart, Read, Sent
<1>5. BuffersWhatIsVetted'
    BY DEF Core, BuffersWhatIsVetted, Read
<1>6. DoublesWhatIsVetted'
    BY <1>2 DEF DoublesWhatIsVetted, Read
<1>7. ParsedIsBudgeted' /\ ArrivesWhole'
    BY DEF Core, TypeOK, ParsedIsBudgeted, ArrivesWhole, Read
<1> QED
    BY <1>3, <1>4, <1>5, <1>6, <1>7 DEF Core

LEMMA ReadEndsKeeps == Core /\ ReadEnds => Core'
<1> SUFFICES ASSUME Core, ReadEnds PROVE Core'
    OBVIOUS
<1>1. ~changed => buf = source
    <2> SUFFICES ASSUME ~changed PROVE buf = source
        OBVIOUS
    <2>1. Len(buf) <= Len(source) /\ Len(buf) >= Len(source)
        BY DEF Core, ReadsFromTheStart, ReadEnds
    <2>2. Len(buf) = Len(source)
        BY <2>1, Lengths DEF Core
    <2> QED
        BY <2>2, Beginnings
<1>2. reader # "stream"
    BY DEF Core, ReadsFromTheStart, ReadEnds
<1>3. TypeOK'
    BY DEF Core, TypeOK, ReadEnds, Proceed
<1>4. ReadsFromTheStart'
    BY <1>1, <1>2 DEF Core, ReadsFromTheStart, ReadEnds, Proceed, Sent
<1>5. BuffersWhatIsVetted' /\ DoublesWhatIsVetted'
    BY <1>2 DEF Core, BuffersWhatIsVetted, DoublesWhatIsVetted, ReadEnds, Proceed
<1>6. ParsedIsBudgeted' /\ ArrivesWhole'
    BY DEF Core, ParsedIsBudgeted, ArrivesWhole, ReadEnds, Proceed
<1> QED
    BY <1>3, <1>4, <1>5, <1>6 DEF Core

LEMMA VetBytesKeeps == Core /\ VetBytes => Core'
<1> SUFFICES ASSUME Core, VetBytes PROVE Core'
    OBVIOUS
<1>1. reader # "stream" /\ (~changed => buf = source)
    BY DEF Core, ReadsFromTheStart, VetBytes
<1>2. TypeOK'
    BY DEF Core, TypeOK, VetBytes, Conclude
<1>3. ReadsFromTheStart'
    BY DEF Core, ReadsFromTheStart, VetBytes, Conclude, Sent
<1>4. BuffersWhatIsVetted' /\ DoublesWhatIsVetted'
    BY <1>1 DEF Core, BuffersWhatIsVetted, DoublesWhatIsVetted, VetBytes, Conclude
<1>5. ParsedIsBudgeted' /\ ArrivesWhole'
    BY <1>1 DEF ParsedIsBudgeted, ArrivesWhole, VetBytes, Conclude, OverBudget
<1> QED
    BY <1>2, <1>3, <1>4, <1>5 DEF Core

LEMMA CopyKeeps == Core /\ Copy => Core'
<1> SUFFICES ASSUME Core, Copy PROVE Core'
    OBVIOUS
<1>1. /\ buf' \in Documents /\ Len(buf') > Len(buf) /\ Len(buf') <= Len(source)
      /\ buf = Sent(Len(buf)) => buf' = Sent(Len(buf'))
      /\ Len(buf') <= checkpoint
    BY Arrives DEF Core, Copy
<1>2. reader = "stream"
    BY DEF Core, ReadsFromTheStart, Copy
<1>3. TypeOK'
    BY <1>1 DEF Core, TypeOK, Copy
<1>4. ReadsFromTheStart'
    BY <1>1, <1>2 DEF Core, ReadsFromTheStart, Copy, Sent
<1>5. BuffersWhatIsVetted'
    BY <1>2 DEF BuffersWhatIsVetted, Copy
<1>6. DoublesWhatIsVetted'
    <2>1. 0..Len(buf) \subseteq 0..Len(buf')
        <3>1. Len(buf) \in Nat /\ Len(buf') \in Nat
            BY <1>1, Lengths, DocumentsAre, BoundedReadAssumption DEF Core
        <3> QED
            BY <1>1, <3>1
    <2>2. \/ checkpoint = Checkpoint
          \/ \E n \in 0..Len(buf') : checkpoint = 2 * n /\ ~OverBudget(Sent(n))
        BY <1>2, <2>1 DEF Core, DoublesWhatIsVetted
    <2> QED
        BY <1>1, <2>2 DEF DoublesWhatIsVetted, Copy, Sent, OverBudget
<1>7. ParsedIsBudgeted' /\ ArrivesWhole'
    BY DEF Core, TypeOK, ParsedIsBudgeted, ArrivesWhole, Copy
<1> QED
    BY <1>3, <1>4, <1>5, <1>6, <1>7 DEF Core

LEMMA CopyReturnsKeeps == Core /\ CopyReturns => Core'
<1> SUFFICES ASSUME Core, CopyReturns PROVE Core'
    OBVIOUS
<1>1. reader = "stream" /\ ~changed
    BY DEF Core, ReadsFromTheStart, CopyReturns
<1>2. /\ ended' \in {"no", "eof", "error"}
      /\ ended' = "no" => Len(buf) = checkpoint
      /\ ended' = "eof" => Len(buf) = Len(source)
    BY DEF CopyReturns
<1>3. TypeOK'
    BY <1>2 DEF Core, TypeOK, CopyReturns, Proceed
<1>4. ReadsFromTheStart'
    BY <1>1, <1>2, Beginnings DEF Core, ReadsFromTheStart, CopyReturns, Proceed, Sent
<1>5. BuffersWhatIsVetted'
    BY <1>1 DEF BuffersWhatIsVetted, CopyReturns
<1>6. DoublesWhatIsVetted'
    BY <1>1, <1>2 DEF Core, DoublesWhatIsVetted, CopyReturns, Proceed, Sent
<1>7. ParsedIsBudgeted' /\ ArrivesWhole'
    BY DEF Core, ParsedIsBudgeted, ArrivesWhole, CopyReturns, Proceed
<1> QED
    BY <1>3, <1>4, <1>5, <1>6, <1>7 DEF Core

LEMMA VetPrefixKeeps == Core /\ VetPrefix => Core'
<1> SUFFICES ASSUME Core, VetPrefix PROVE Core'
    OBVIOUS
<1>1. reader = "stream" /\ ~changed /\ buf = Sent(Len(buf)) /\ Len(buf) \in Nat
    BY Lengths DEF Core, ReadsFromTheStart, VetPrefix
<1>2. (OverBudget(buf) => OverBudget(source)) /\ (ended = "eof" => buf = source)
    BY <1>1, Beginnings DEF Core, ReadsFromTheStart, VetPrefix
<1>3. \/ /\ pc' = "copy" /\ verdict' = verdict /\ checkpoint' = 2 * checkpoint
         /\ ~OverBudget(buf) /\ ended = "no"
      \/ /\ pc' = "done" /\ verdict' \in {"tooLarge", "ok", "error"} /\ checkpoint' = checkpoint
         /\ verdict' = "tooLarge" => OverBudget(buf)
         /\ verdict' = "ok" => ~OverBudget(buf) /\ ended = "eof"
    BY DEF VetPrefix, Proceed, Conclude
<1>4. UNCHANGED <<source, reader, size, buf, ended, changed>>
    BY DEF VetPrefix
<1>5. TypeOK'
    BY <1>3, <1>4 DEF Core, TypeOK, VetPrefix
<1>6. ReadsFromTheStart'
    BY <1>1, <1>3, <1>4 DEF Core, ReadsFromTheStart, Sent
<1>7. BuffersWhatIsVetted'
    BY <1>1, <1>4 DEF BuffersWhatIsVetted
<1>8. DoublesWhatIsVetted'
    <2>1. CASE pc' = "copy"
        <3>1. Len(buf) = checkpoint /\ checkpoint' = 2 * Len(buf) /\ ~OverBudget(Sent(Len(buf)))
            BY <1>1, <1>3, <2>1 DEF Core, DoublesWhatIsVetted, VetPrefix
        <3>2. Len(buf) \in 0..Len(buf) /\ Len(buf) <= checkpoint'
            BY <1>1, <3>1
        <3> QED
            BY <1>4, <2>1, <3>1, <3>2 DEF DoublesWhatIsVetted, Sent, OverBudget
    <2>2. CASE pc' = "done"
        BY <1>1, <1>3, <1>4, <2>2 DEF Core, DoublesWhatIsVetted, Sent, OverBudget
    <2> QED
        BY <1>3, <2>1, <2>2
<1>9. ParsedIsBudgeted'
    BY <1>3, <1>4 DEF Core, TypeOK, ParsedIsBudgeted, OverBudget
<1>10. ArrivesWhole'
    BY <1>2, <1>3, <1>4 DEF Core, TypeOK, ArrivesWhole, OverBudget
<1> QED
    BY <1>5, <1>6, <1>7, <1>8, <1>9, <1>10 DEF Core

LEMMA ChangeFileKeeps == Core /\ ChangeFile => Core'
<1> SUFFICES ASSUME Core, ChangeFile PROVE Core'
    OBVIOUS
<1>1. source' \in Documents
    <2>1. source \in Seq(Bytes) /\ source \in Documents
        BY DocumentsAre DEF Core, TypeOK
    <2>2. ASSUME NEW b \in Bytes, Len(source) < MaxLength, source' = Append(source, b)
          PROVE  source' \in Documents
        <3>1. source' \in Seq(Bytes) /\ Len(source') = Len(source) + 1
            BY <2>1, <2>2, AppendProperties
        <3>2. Len(source') \in 0..MaxLength
            BY <2>2, <3>1, Lengths DEF Core
        <3> QED
            BY <3>1, <3>2, DocumentsAre
    <2>3. ASSUME NEW n \in 0..(Len(source) - 1), source' = SubSeq(source, 1, n)
          PROVE  source' \in Documents
        <3>1. n \in 0..Len(source)
            BY <2>3, Lengths DEF Core
        <3> QED
            BY <2>1, <2>3, <3>1, BeginsWith
    <2> QED
        BY <2>2, <2>3 DEF ChangeFile
<1>2. changed' /\ reader # "stream" /\ pc # "done" /\ pc # "open"
    BY DEF ChangeFile
<1>3. UNCHANGED <<reader, pc, size, buf, checkpoint, ended, verdict>>
    BY DEF ChangeFile, readVars
<1>4. TypeOK'
    BY <1>1, <1>2, <1>3 DEF Core, TypeOK, ChangeFile
<1>5. ReadsFromTheStart'
    BY <1>2, <1>3 DEF Core, ReadsFromTheStart
<1>6. BuffersWhatIsVetted' /\ DoublesWhatIsVetted'
    BY <1>2, <1>3 DEF Core, BuffersWhatIsVetted, DoublesWhatIsVetted
<1>7. ParsedIsBudgeted' /\ ArrivesWhole'
    BY <1>2, <1>3 DEF Core, ParsedIsBudgeted, ArrivesWhole, OverBudget
<1> QED
    BY <1>4, <1>5, <1>6, <1>7 DEF Core

LEMMA StutterKeeps == Core /\ UNCHANGED vars => Core'
BY DEF Core, vars, readVars, TypeOK, ReadsFromTheStart, BuffersWhatIsVetted,
       DoublesWhatIsVetted, ParsedIsBudgeted, ArrivesWhole, Sent, OverBudget

LEMMA CoreHolds == Spec => []Core
<1>1. Core /\ [Next]_vars => Core'
    BY OpenKeeps, FailKeeps, CensusFileKeeps, ReadKeeps, ReadEndsKeeps, VetBytesKeeps,
       CopyKeeps, CopyReturnsKeeps, VetPrefixKeeps, ChangeFileKeeps, StutterKeeps DEF Next
<1> QED
    BY <1>1, Begin, PTL DEF Spec

\* Nothing is buffered but under a census in budget, and no prefix of what was
\* censused in budget is over it: the checkpoint is twice such a prefix.
LEMMA EarlyFromCore == Core => RefusedEarly
<1> SUFFICES ASSUME Core PROVE RefusedEarly
    OBVIOUS
<1>1. reader \in {"file", "reference"} /\ ~changed /\ OverBudget(source) => buf = <<>>
    BY DEF Core, BuffersWhatIsVetted
<1>2. ASSUME reader = "stream", NEW n \in 0..Len(buf), OverBudget(SubSeq(source, 1, n))
      PROVE  Len(buf) <= Checkpoint \/ Len(buf) < 2 * n
    <2>1. /\ Len(buf) \in Nat /\ Len(source) \in Nat /\ source \in Documents
          /\ Len(buf) <= Len(source) /\ Len(buf) <= checkpoint
        BY <1>2, Lengths DEF Core, TypeOK, ReadsFromTheStart, DoublesWhatIsVetted
    <2>2. CASE checkpoint = Checkpoint
        BY <2>1, <2>2
    <2>3. ASSUME NEW m \in 0..Len(buf), checkpoint = 2 * m, ~OverBudget(Sent(m))
          PROVE  Len(buf) < 2 * n
        <3>1. m \in 0..Len(source) /\ ~OverBudget(SubSeq(source, 1, m))
            BY <2>1, <2>3 DEF Sent
        <3>2. ~(n \in 0..m)
            BY <1>2, <2>1, <3>1, InBudgetFromTheStart
        <3>3. m \in Nat /\ n \in Nat /\ m < n
            BY <2>1, <3>2
        <3> QED
            BY <2>1, <2>3, <3>3
    <2> QED
        BY <1>2, <2>2, <2>3 DEF Core, DoublesWhatIsVetted
<1> QED
    BY <1>1, <1>2 DEF RefusedEarly

\* The invariant of a reading, whatever the budget, the checkpoint and the sheet:
\* with it, the bytes handed to the parser were themselves found in budget.
THEOREM Invariance == Spec => []IInv
BY CoreHolds, EarlyFromCore, PTL DEF Core, IInv

\* readVettedFile and readStream: what is over budget is refused before it is
\* buffered, or with less than twice the prefix that proves it in hand.
THEOREM RefusesInTime == Spec => []RefusedEarly
BY CoreHolds, EarlyFromCore, PTL

\* io.ReadAll and streamEnd: what nobody wrote to is accepted with every byte, and
\* refused only when it is over budget.
THEOREM Whole == Spec => []ArrivesWhole
BY Invariance, PTL DEF IInv
-----------------------------------------------------------------------------
\* The chain is a sequence, of whatever a sheet's name and place are.
OnAChain == \E S : chain \in Seq(S)

\* What each action of a command keeps.
CommandCore == CommandTypeOK /\ OnAChain /\ KeepsTheWorst /\ AnswersAsItEnds

\* What a command line is, of what the outcomes depend on.
LEMMA RunIs ==
    ASSUME CommandTypeOK
    PROVE  /\ run.kind \in Kinds /\ run.sheets \in Nat /\ run.sheets >= 1
           /\ run.sheets <= MaxSheets /\ MaxSheets \in Nat
           /\ run.kind # "check" => run.sheets = 1
<1>1. PICK k \in Kinds : run \in [kind : {k}, fault : Faults(k), source : Sources \cup {Stdin},
         isUnconfined : BOOLEAN, sheets : 1..(IF k = "check" THEN MaxSheets ELSE 1)]
    BY DEF CommandTypeOK, Runs
<1>2. run.kind = k /\ run.sheets \in 1..(IF k = "check" THEN MaxSheets ELSE 1)
    BY <1>1
<1> QED
    BY <1>2, CommandAssumption

\* The outcomes, in the words of sequences.
LEMMA OutcomesAre ==
    ASSUME CommandTypeOK
    PROVE  outcomes \in Seq(Outcomes) /\ Len(outcomes) \in Nat /\ Len(outcomes) <= MaxSheets
<1>1. MaxSheets \in Nat
    BY CommandAssumption
<1>2. outcomes \in Seq(Outcomes) /\ Len(outcomes) \in 0..MaxSheets
    BY <1>1, BoundedIs DEF CommandTypeOK
<1> QED
    BY <1>1, <1>2

LEMMA CommandBegins == CommandInit => CommandCore
<1> SUFFICES ASSUME CommandInit PROVE CommandCore
    OBVIOUS
<1>1. outcomes = <<>> /\ chain = <<>> /\ Len(outcomes) = 0 /\ Len(chain) = 0
    BY EmptySeq DEF CommandInit
<1>2. outcomes \in BoundedSeq(Outcomes, MaxSheets)
    <2>1. <<>> \in Seq(Outcomes) /\ Len(<<>>) = 0 /\ 0 \in 0..MaxSheets /\ MaxSheets \in Nat
        BY EmptySeq, CommandAssumption
    <2> QED
        BY <1>1, <2>1, BoundedIs
<1>3. CommandTypeOK
    BY <1>1, <1>2, CommandAssumption DEF CommandInit, CommandTypeOK, Outcomes
<1>4. OnAChain
    BY <1>1, EmptySeq DEF OnAChain
<1>5. KeepsTheWorst
    BY <1>1, <1>3, RunIs DEF KeepsTheWorst, CommandInit, Taken
<1>6. AnswersAsItEnds
    BY DEF AnswersAsItEnds, CommandInit
<1> QED
    BY <1>3, <1>4, <1>5, <1>6 DEF CommandCore

\* A step on to the next stage, with nothing come of the sheet yet.
LEMMA GoingOn ==
    ASSUME CommandCore, NEW from \in {"start", "open", "read", "parsed", "compute"},
           NEW to \in {"open", "read", "parsed", "compute", "emit"}, GoOn(from, to),
           to = "emit" => run.kind # "check", to # "compute"
    PROVE  CommandCore'
<1>1. CommandTypeOK'
    BY DEF CommandCore, CommandTypeOK, GoOn
<1>2. OnAChain'
    BY DEF CommandCore, OnAChain, GoOn
<1>3. KeepsTheWorst'
    BY DEF CommandCore, KeepsTheWorst, GoOn, Taken
<1>4. AnswersAsItEnds'
    BY DEF CommandCore, AnswersAsItEnds, GoOn
<1> QED
    BY <1>1, <1>2, <1>3, <1>4 DEF CommandCore

\* The sheet is done with, and its outcome is the last.
LEMMA Finishing ==
    ASSUME CommandCore, NEW outcome \in Outcomes, Finish(outcome),
           stage \notin {"sheetDone", "exit"}, out' \in {"nothing", "part", "whole"},
           run.kind = "check" => outcome # "usage",
           run.kind = "check" \/ run.fault # None => out' = "nothing",
           run.kind # "check" =>
               /\ outcome = "nil" => out' = "whole" \/ run.kind = "explain"
               /\ out' = "whole" => outcome = "nil"
               /\ outcome \in {"syntax", "usage"} => out' = "nothing"
    PROVE  CommandCore'
<1>1. /\ outcomes \in Seq(Outcomes) /\ Len(outcomes) \in Nat /\ Len(outcomes) < run.sheets
      /\ run.sheets \in Nat /\ run.sheets <= MaxSheets /\ MaxSheets \in Nat
    BY OutcomesAre, RunIs DEF CommandCore, KeepsTheWorst
<1>2. /\ outcomes' = Append(outcomes, outcome) /\ stage' = "sheetDone"
      /\ UNCHANGED <<run, worst, chain, exit>>
    BY DEF Finish
<1>3. /\ outcomes' \in Seq(Outcomes) /\ Len(outcomes') = Len(outcomes) + 1
      /\ outcomes'[Len(outcomes')] = outcome
      /\ \A i \in 1..Len(outcomes) : outcomes'[i] = outcomes[i]
    BY <1>1, <1>2, AppendProperties
<1>4. DOMAIN outcomes' = 1..(Len(outcomes) + 1) /\ DOMAIN outcomes = 1..Len(outcomes)
    BY <1>1, <1>3, LenProperties
<1>5. CommandTypeOK'
    <2>1. Len(outcomes') \in 0..MaxSheets
        BY <1>1, <1>3
    <2>2. outcomes' \in BoundedSeq(Outcomes, MaxSheets)
        BY <1>1, <1>3, <2>1, BoundedIs
    <2> QED
        BY <1>2, <2>2 DEF CommandCore, CommandTypeOK
<1>6. OnAChain'
    BY <1>2 DEF CommandCore, OnAChain
<1>7. Taken = Len(outcomes) /\ Taken' = Len(outcomes)
    BY <1>1, <1>2, <1>3 DEF Taken
<1>8. \A i \in DOMAIN outcomes' : i \in 1..Len(outcomes) \/ outcomes'[i] = outcome
    BY <1>1, <1>3, <1>4
<1>9. KeepsTheWorst'
    <2>1. worst = "nil" \/ \E i \in 1..Len(outcomes) : outcomes'[i] = worst
        BY <1>3, <1>7 DEF CommandCore, KeepsTheWorst
    <2>2. \A i \in 1..Len(outcomes) : Severity(outcomes'[i]) <= Severity(worst)
        BY <1>3, <1>7 DEF CommandCore, KeepsTheWorst
    <2>3. run.kind = "check" => \A i \in DOMAIN outcomes' : outcomes'[i] # "usage"
        BY <1>3, <1>4, <1>8 DEF CommandCore, KeepsTheWorst
    <2>4. Len(outcomes') > 0 /\ Len(outcomes') <= run.sheets
        BY <1>1, <1>3
    <2> QED
        BY <1>2, <1>7, <2>1, <2>2, <2>3, <2>4 DEF KeepsTheWorst, Severity
<1>10. Last(outcomes') = outcome
    BY <1>3 DEF Last
<1>11. AnswersAsItEnds'
    BY <1>2, <1>10 DEF AnswersAsItEnds
<1> QED
    BY <1>5, <1>6, <1>9, <1>11 DEF CommandCore

LEMMA Failing ==
    ASSUME CommandCore, NEW outcome \in Outcomes, Fails(outcome),
           stage \notin {"sheetDone", "exit"},
           run.kind = "check" => outcome # "usage",
           run.kind # "check" => outcome # "nil"
    PROVE  CommandCore'
<1>1. out' = out /\ Finish(outcome)
    BY DEF Fails
<1>2. out = "nothing"
    BY DEF CommandCore, AnswersAsItEnds
<1> QED
    BY <1>1, <1>2, Finishing

\* What the sheets being computed are takes no part in the outcome.
LEMMA Following ==
    ASSUME CommandCore, UNCHANGED <<run, outcomes, worst, out, exit>>,
           stage' = "compute", stage \in {"parsed", "compute"}, run.kind \in Computing,
           OnAChain', Len(chain') <= MaxChain
    PROVE  CommandCore'
<1>1. CommandTypeOK'
    BY DEF CommandCore, CommandTypeOK
<1>2. KeepsTheWorst'
    BY DEF CommandCore, KeepsTheWorst, Taken
<1>3. AnswersAsItEnds'
    BY DEF CommandCore, AnswersAsItEnds
<1> QED
    BY <1>1, <1>2, <1>3 DEF CommandCore

LEMMA ComputeKeeps == CommandCore /\ Compute => CommandCore'
<1> SUFFICES ASSUME CommandCore, Compute PROVE CommandCore'
    OBVIOUS
<1>1. chain' = <<>> \/ chain' = <<Top>>
    BY DEF Compute
<1>2. /\ <<>> \in Seq({Top}) /\ <<Top>> \in Seq({Top})
      /\ Len(<<>>) = 0 /\ Len(<<Top>>) = 1
    BY EmptySeq
<1>3. chain' \in Seq({Top}) /\ (Len(chain') = 0 \/ Len(chain') = 1)
    BY <1>1, <1>2
<1>4. OnAChain'
    BY <1>3 DEF OnAChain
<1>5. 0 <= MaxChain /\ 1 <= MaxChain
    BY CommandAssumption
<1>6. Len(chain') = 0 \/ Len(chain') = 1
    BY <1>3
<1>7. Len(chain') <= MaxChain
    BY <1>5, <1>6
<1> QED
    BY <1>4, <1>7, Following DEF Compute

LEMMA LoadReferenceKeeps ==
    ASSUME CommandCore, NEW ref, LoadReference(ref)
    PROVE  CommandCore'
<1>1. PICK x : chain' = Append(chain, x)
    BY DEF LoadReference
<1>2. PICK S : chain \in Seq(S)
    BY DEF CommandCore, OnAChain
<1>3. chain \in Seq(S \cup {x})
    BY <1>2
<1>4. chain' \in Seq(S \cup {x}) /\ Len(chain') = Len(chain) + 1 /\ Len(chain) \in Nat
    BY <1>1, <1>3, AppendProperties, LenProperties
<1>5. OnAChain'
    BY <1>4 DEF OnAChain
<1>6. Len(chain') <= MaxChain
    BY <1>4, CommandAssumption DEF LoadReference
<1>7. run.kind \in Computing
    BY DEF CommandCore, AnswersAsItEnds, LoadReference
<1> QED
    BY <1>5, <1>6, <1>7, Following DEF LoadReference

LEMMA ReturnKeeps == CommandCore /\ Return => CommandCore'
<1> SUFFICES ASSUME CommandCore, Return PROVE CommandCore'
    OBVIOUS
<1>1. PICK S : chain \in Seq(S)
    BY DEF CommandCore, OnAChain
<1>2. Len(chain) \in Nat /\ Len(chain) > 1 /\ Len(chain) <= MaxChain
    BY <1>1, LenProperties DEF Return, CommandCore, CommandTypeOK
<1>3. chain' = SubSeq(chain, 1, Len(chain) - 1)
    BY DEF Return, Front
<1>4. \A i \in 1..(Len(chain) - 1) : chain[i] \in S
    BY <1>1, <1>2, ElementOfSeq
<1>5. /\ chain' \in Seq(S)
      /\ Len(chain') = IF 1 <= Len(chain) - 1 THEN (Len(chain) - 1) - 1 + 1 ELSE 0
    BY <1>2, <1>3, <1>4, SubSeqProperties
<1>6. OnAChain'
    BY <1>5 DEF OnAChain
<1>7. Len(chain') <= MaxChain
    BY <1>2, <1>5, CommandAssumption
<1>8. run.kind \in Computing
    BY DEF CommandCore, AnswersAsItEnds, Return
<1> QED
    BY <1>6, <1>7, <1>8, Following DEF Return

\* What runCheck has kept once it has taken up the last outcome.
LEMMA Worsening ==
    ASSUME CommandCore, stage = "sheetDone", worst' = Worse(worst, Last(outcomes))
    PROVE  /\ worst' \in Outcomes
           /\ worst' = "nil" \/ \E i \in 1..Len(outcomes) : outcomes[i] = worst'
           /\ \A i \in 1..Len(outcomes) : Severity(outcomes[i]) <= Severity(worst')
<1> DEFINE n == Len(outcomes)
<1>1. outcomes \in Seq(Outcomes) /\ n \in Nat /\ n > 0 /\ Taken = n - 1
    BY OutcomesAre DEF CommandCore, KeepsTheWorst, Taken
<1>2. Last(outcomes) = outcomes[n] /\ outcomes[n] \in Outcomes
    BY <1>1, ElementOfSeq DEF Last
<1>3. worst \in Outcomes
    BY DEF CommandCore, CommandTypeOK
<1>4. \A o \in Outcomes : Severity(o) \in Nat
    BY DEF Outcomes, Severity
<1>5. /\ worst' \in {worst, outcomes[n]}
      /\ Severity(worst) <= Severity(worst') /\ Severity(outcomes[n]) <= Severity(worst')
    BY <1>2, <1>3, <1>4 DEF Worse
<1>6. /\ worst = "nil" \/ \E i \in 1..(n - 1) : outcomes[i] = worst
      /\ \A i \in 1..(n - 1) : Severity(outcomes[i]) <= Severity(worst)
    BY <1>1 DEF CommandCore, KeepsTheWorst
<1>7. n \in 1..n /\ 1..(n - 1) \subseteq 1..n /\ \A i \in 1..n : i = n \/ i \in 1..(n - 1)
    BY <1>1
<1>8. \A i \in 1..n : outcomes[i] \in Outcomes
    BY <1>1, ElementOfSeq
<1>9. \A i \in 1..n : Severity(outcomes[i]) <= Severity(worst')
    <2> SUFFICES ASSUME NEW i \in 1..(n - 1) PROVE Severity(outcomes[i]) <= Severity(worst')
        BY <1>5, <1>7
    <2>1. i \in 1..n
        BY <1>7
    <2>2. Severity(outcomes[i]) \in Nat /\ Severity(worst) \in Nat /\ Severity(worst') \in Nat
        BY <1>2, <1>3, <1>4, <1>5, <1>8, <2>1
    <2>3. Severity(outcomes[i]) <= Severity(worst)
        BY <1>6
    <2> QED
        BY <1>5, <2>2, <2>3
<1> QED
    BY <1>2, <1>3, <1>5, <1>6, <1>7, <1>9

LEMMA NextSheetKeeps == CommandCore /\ NextSheet => CommandCore'
<1> SUFFICES ASSUME CommandCore, NextSheet PROVE CommandCore'
    OBVIOUS
<1>1. /\ stage = "sheetDone" /\ stage' = "open" /\ chain' = <<>>
      /\ worst' = Worse(worst, Last(outcomes)) /\ Len(outcomes) < run.sheets
      /\ UNCHANGED <<run, outcomes, out, printed, exit>>
    BY DEF NextSheet
<1>2. /\ worst' \in Outcomes
      /\ worst' = "nil" \/ \E i \in 1..Len(outcomes) : outcomes[i] = worst'
      /\ \A i \in 1..Len(outcomes) : Severity(outcomes[i]) <= Severity(worst')
    BY <1>1, Worsening
<1>3. run.kind = "check"
    <2>1. Len(outcomes) > 0 /\ Len(outcomes) \in Nat
        BY <1>1, OutcomesAre DEF CommandCore, KeepsTheWorst
    <2> QED
        BY <1>1, <2>1, RunIs DEF CommandCore
<1>4. <<>> \in Seq({}) /\ Len(<<>>) = 0
    BY EmptySeq
<1>5. CommandTypeOK'
    BY <1>1, <1>2, <1>4, CommandAssumption DEF CommandCore, CommandTypeOK
<1>6. OnAChain'
    BY <1>1, <1>4 DEF OnAChain
<1>7. KeepsTheWorst'
    BY <1>1, <1>2 DEF CommandCore, KeepsTheWorst, Taken
<1>8. AnswersAsItEnds'
    BY <1>1, <1>3 DEF CommandCore, AnswersAsItEnds
<1> QED
    BY <1>5, <1>6, <1>7, <1>8 DEF CommandCore

LEMMA ExitKeeps == CommandCore /\ Exit => CommandCore'
<1> SUFFICES ASSUME CommandCore, Exit PROVE CommandCore'
    OBVIOUS
<1>1. /\ stage = "sheetDone" /\ stage' = "exit" /\ exit' = ExitCode(worst')
      /\ worst' = Worse(worst, Last(outcomes)) /\ Len(outcomes) = run.sheets
      /\ UNCHANGED <<run, outcomes, chain, out, printed>>
    BY DEF Exit
<1>2. /\ worst' \in Outcomes
      /\ worst' = "nil" \/ \E i \in 1..Len(outcomes) : outcomes[i] = worst'
      /\ \A i \in 1..Len(outcomes) : Severity(outcomes[i]) <= Severity(worst')
    BY <1>1, Worsening
<1>3. exit' \in 0..2
    BY <1>1 DEF ExitCode
<1>4. CommandTypeOK'
    BY <1>1, <1>2, <1>3, CommandAssumption DEF CommandCore, CommandTypeOK
<1>5. OnAChain'
    BY <1>1 DEF CommandCore, OnAChain
<1>6. KeepsTheWorst'
    BY <1>1, <1>2 DEF CommandCore, KeepsTheWorst, Taken, ExitCode
<1>7. AnswersAsItEnds'
    BY <1>1 DEF CommandCore, AnswersAsItEnds
<1> QED
    BY <1>4, <1>5, <1>6, <1>7 DEF CommandCore

LEMMA EmitKeeps == CommandCore /\ Emit => CommandCore'
<1> SUFFICES ASSUME CommandCore, Emit PROVE CommandCore'
    OBVIOUS
<1>1. stage = "emit" /\ run.kind # "check"
    BY DEF Emit, CommandCore, AnswersAsItEnds
<1>2. CASE run.fault = "refused" /\ Fails("other")
    BY <1>1, <1>2, Failing DEF Outcomes
<1>3. CASE run.fault = None /\ out' = "whole" /\ Finish("nil")
    BY <1>1, <1>3, Finishing DEF Outcomes
<1>4. ASSUME NEW outcome \in CutShort, run.fault = None, out' \in {"nothing", "part"},
        Finish(outcome)
      PROVE  CommandCore'
    <2>1. outcome \in Outcomes /\ (outcome = "nil" => run.kind = "explain")
          /\ outcome \notin {"syntax", "usage"}
        BY <1>4 DEF CutShort, Outcomes
    <2> QED
        BY <1>1, <1>4, <2>1, Finishing
<1> QED
    BY <1>2, <1>3, <1>4 DEF Emit

LEMMA ReadingKeeps ==
    CommandCore =>
        ((Start \/ OpenSheet \/ ReadSheet \/ Decode \/ CheckSheet \/ Evaluate) => CommandCore')
<1> SUFFICES ASSUME CommandCore
             PROVE  Start \/ OpenSheet \/ ReadSheet \/ Decode \/ CheckSheet \/ Evaluate
                    => CommandCore'
    OBVIOUS
<1>1. ASSUME Start PROVE CommandCore'
    <2>1. CASE GoOn("start", "open")
        BY <2>1, GoingOn
    <2>2. ASSUME run.kind = "explain", NEW outcome \in {"usage", "other"}, Fails(outcome)
          PROVE  CommandCore'
        BY <1>1, <2>2, Failing DEF Start, Outcomes
    <2> QED
        BY <1>1, <2>1, <2>2 DEF Start
<1>2. ASSUME OpenSheet PROVE CommandCore'
    <2>1. CASE GoOn("open", "read")
        BY <2>1, GoingOn
    <2>2. CASE stage = "open" /\ Fails("other")
        BY <2>2, Failing DEF Outcomes
    <2> QED
        BY <1>2, <2>1, <2>2 DEF OpenSheet
<1>3. ASSUME ReadSheet PROVE CommandCore'
    <2>1. CASE GoOn("read", "parsed")
        BY <2>1, GoingOn
    <2>2. CASE stage = "read" /\ (Fails("other") \/ Fails("syntax"))
        BY <2>2, Failing DEF Outcomes
    <2> QED
        BY <1>3, <2>1, <2>2 DEF ReadSheet
<1>4. ASSUME Decode PROVE CommandCore'
    <2>1. CASE GoOn("read", "emit")
        BY <1>4, <2>1, GoingOn DEF Decode
    <2>2. CASE stage = "read" /\ (Fails("other") \/ Fails("syntax"))
        BY <2>2, Failing DEF Outcomes
    <2> QED
        BY <1>4, <2>1, <2>2 DEF Decode
<1>5. ASSUME CheckSheet PROVE CommandCore'
    BY <1>5, Failing DEF CheckSheet, Outcomes
<1>6. ASSUME Evaluate PROVE CommandCore'
    <2>1. CASE GoOn("open", "emit")
        BY <1>6, <2>1, GoingOn DEF Evaluate
    <2>2. CASE stage = "open" /\ (Fails("usage") \/ Fails("other") \/ Fails("syntax"))
        BY <1>6, <2>2, Failing DEF Evaluate, Outcomes
    <2> QED
        BY <1>6, <2>1, <2>2 DEF Evaluate
<1> QED
    BY <1>1, <1>2, <1>3, <1>4, <1>5, <1>6

LEMMA ComputedKeeps == CommandCore /\ (Computed \/ ParseOnly) => CommandCore'
<1> SUFFICES ASSUME CommandCore PROVE Computed \/ ParseOnly => CommandCore'
    OBVIOUS
<1>1. ASSUME Computed PROVE CommandCore'
    <2>1. run.kind # "check" /\ GoOn("compute", "emit")
        BY <1>1 DEF Computed, GoOn, CommandCore, AnswersAsItEnds, Computing
    <2> QED
        BY <2>1, GoingOn
<1>2. ASSUME ParseOnly PROVE CommandCore'
    BY <1>2, GoingOn DEF ParseOnly
<1> QED
    BY <1>1, <1>2

LEMMA CommandStutters == CommandCore /\ UNCHANGED commandVars => CommandCore'
BY DEF CommandCore, commandVars, CommandTypeOK, OnAChain, KeepsTheWorst, AnswersAsItEnds, Taken

LEMMA CommandCoreHolds == CommandSpec => []CommandCore
<1>1. CommandCore /\ [CommandNext]_commandVars => CommandCore'
    BY ReadingKeeps, ComputeKeeps, LoadReferenceKeeps, ReturnKeeps, ComputedKeeps, EmitKeeps,
       NextSheetKeeps, ExitKeeps, CommandStutters DEF CommandNext
<1> QED
    BY <1>1, CommandBegins, PTL DEF CommandSpec

\* What the exit code is of the outcomes.
LEMMA AtExit ==
    ASSUME CommandCore, exit # None
    PROVE  /\ outcomes \in Seq(Outcomes) /\ Len(outcomes) = run.sheets /\ run.sheets \in Nat
           /\ run.sheets >= 1 /\ (run.kind # "check" => run.sheets = 1)
           /\ \A i \in 1..Len(outcomes) : outcomes[i] \in Outcomes
           /\ worst = "nil" \/ \E i \in 1..Len(outcomes) : outcomes[i] = worst
           /\ \A i \in 1..Len(outcomes) : Severity(outcomes[i]) <= Severity(worst)
           /\ worst \in Outcomes /\ exit = ExitCode(worst) /\ stage = "exit"
<1>1. /\ stage = "exit" /\ Len(outcomes) = run.sheets
      /\ exit = ExitCode(worst) /\ worst \in Outcomes
    BY DEF CommandCore, CommandTypeOK, KeepsTheWorst
<1>2. Taken = Len(outcomes)
    BY <1>1 DEF Taken
<1>3. outcomes \in Seq(Outcomes) /\ \A i \in 1..Len(outcomes) : outcomes[i] \in Outcomes
    BY OutcomesAre, ElementOfSeq DEF CommandCore
<1> QED
    BY <1>1, <1>2, <1>3, RunIs DEF CommandCore, KeepsTheWorst

LEMMA ExitFromCore == CommandCore => ExitIsWorst
<1> SUFFICES ASSUME CommandCore, exit # None
             PROVE  /\ Len(outcomes) = run.sheets
                    /\ (exit = 0) = (Range(outcomes) = {"nil"})
                    /\ (exit = 2) = (Range(outcomes) \cap {"syntax", "usage"} # {})
    BY DEF ExitIsWorst
<1>1. /\ outcomes \in Seq(Outcomes) /\ Len(outcomes) = run.sheets /\ run.sheets \in Nat
      /\ run.sheets >= 1 /\ (run.kind # "check" => run.sheets = 1)
      /\ \A i \in 1..Len(outcomes) : outcomes[i] \in Outcomes
      /\ worst = "nil" \/ \E i \in 1..Len(outcomes) : outcomes[i] = worst
      /\ \A i \in 1..Len(outcomes) : Severity(outcomes[i]) <= Severity(worst)
      /\ worst \in Outcomes /\ exit = ExitCode(worst)
    BY AtExit
<1>2. /\ DOMAIN outcomes = 1..Len(outcomes)
      /\ Range(outcomes) = {outcomes[i] : i \in 1..Len(outcomes)}
    BY <1>1, LenProperties DEF Range
<1>3. 1 \in 1..Len(outcomes)
    BY <1>1
<1>4. worst = "nil" <=> Range(outcomes) = {"nil"}
    <2>1. ASSUME worst = "nil" PROVE Range(outcomes) = {"nil"}
        <3>1. ASSUME NEW i \in 1..Len(outcomes) PROVE outcomes[i] = "nil"
            <4>1. outcomes[i] \in Outcomes /\ Severity(outcomes[i]) <= Severity("nil")
                BY <1>1, <2>1
            <4> QED
                BY <4>1 DEF Outcomes, Severity
        <3> QED
            BY <1>2, <1>3, <3>1
    <2>2. ASSUME Range(outcomes) = {"nil"} PROVE worst = "nil"
        BY <1>1, <1>2, <2>2
    <2> QED
        BY <2>1, <2>2
<1>5. worst \in {"syntax", "usage"} <=> Range(outcomes) \cap {"syntax", "usage"} # {}
    <2>1. ASSUME worst \in {"syntax", "usage"}
                 PROVE  Range(outcomes) \cap {"syntax", "usage"} # {}
        BY <1>1, <1>2, <2>1
    <2>2. ASSUME NEW i \in 1..Len(outcomes), outcomes[i] = "syntax" PROVE worst = "syntax"
        <3>1. worst \in Outcomes /\ Severity("syntax") <= Severity(worst)
            BY <1>1, <2>2
        <3> QED
            BY <3>1 DEF Outcomes, Severity
    <2>3. ASSUME NEW i \in 1..Len(outcomes), outcomes[i] = "usage" PROVE worst = "usage"
        <3>1. run.kind # "check"
            BY <1>2, <2>3 DEF CommandCore, KeepsTheWorst
        <3>2. i = 1 /\ \A j \in 1..Len(outcomes) : j = 1
            BY <1>1, <3>1
        <3>3. worst # "nil"
            BY <1>1, <2>3 DEF Severity
        <3> QED
            BY <1>1, <2>3, <3>2, <3>3
    <2> QED
        BY <1>2, <2>1, <2>2, <2>3
<1>6. (exit = 0 <=> worst = "nil") /\ (exit = 2 <=> worst \in {"syntax", "usage"})
    BY <1>1 DEF ExitCode
<1> QED
    BY <1>1, <1>4, <1>5, <1>6

LEMMA AnswerFromCore == CommandCore => AnswersWholeOrNothing
<1> SUFFICES ASSUME CommandCore, exit # None
             PROVE  /\ exit = 0 => out = "whole" \/ run.kind \in {"check", "explain"}
                    /\ exit # 0 => out # "whole"
                    /\ exit = 2 \/ run.fault # None \/ run.kind = "check" => out = "nothing"
    BY DEF AnswersWholeOrNothing
<1>1. run.kind = "check" \/ run.fault # None => out = "nothing"
    BY DEF CommandCore, AnswersAsItEnds
<1>2. ASSUME run.kind # "check" PROVE worst = Last(outcomes)
    <2>1. Len(outcomes) = 1
        BY <1>2, AtExit
    <2>2. 1 \in 1..Len(outcomes) /\ \A i \in 1..Len(outcomes) : i = 1
        BY <2>1
    <2>3. outcomes[1] \in Outcomes /\ Severity(outcomes[1]) <= Severity(worst)
        BY <2>2, AtExit
    <2>4. worst = "nil" \/ outcomes[1] = worst
        BY <2>2, AtExit
    <2>5. Last(outcomes) = outcomes[1]
        BY <2>1 DEF Last
    <2> QED
        BY <2>3, <2>4, <2>5 DEF Severity, Outcomes
<1>3. /\ stage = "exit" /\ exit = ExitCode(worst)
      /\ exit = 0 <=> worst = "nil"
      /\ exit = 2 <=> worst \in {"syntax", "usage"}
    BY AtExit DEF ExitCode
<1>4. CASE run.kind = "check"
    BY <1>1, <1>4
<1>5. CASE run.kind # "check"
    <2>1. /\ worst = "nil" => out = "whole" \/ run.kind = "explain"
          /\ out = "whole" => worst = "nil"
          /\ worst \in {"syntax", "usage"} => out = "nothing"
        BY <1>2, <1>3, <1>5 DEF CommandCore, AnswersAsItEnds
    <2> QED
        BY <1>1, <1>3, <2>1
<1> QED
    BY <1>4, <1>5

\* Success is the whole answer on stdout, and a command that failed never left the
\* whole of one there, whichever step it failed at.
THEOREM AnswersOnce == CommandSpec => []AnswersWholeOrNothing
BY CommandCoreHolds, AnswerFromCore, PTL
-----------------------------------------------------------------------------
\* A set that has 0, and with each number below n the next, has them all up to n.
LEMMA UpTo ==
    ASSUME NEW n \in Nat, NEW S, 0 \in S, \A m \in 0..(n - 1) : m \in S => m + 1 \in S
    PROVE  0..n \subseteq S
<1> DEFINE R == OpToRel(<, Nat)
           T == 0..n \ S
<1> SUFFICES ASSUME T # {} PROVE FALSE
    OBVIOUS
<1>1. IsWellFoundedOn(R, Nat)
    BY NatLessThanWellFounded
<1>2. \A i, j \in Nat : <<i, j>> \in R <=> i < j
    BY DEF OpToRel
<1>3. T \in SUBSET Nat
    OBVIOUS
<1> HIDE DEF R
<1>4. PICK j \in T : \A k \in T : ~(<<k, j>> \in R)
    <2> HIDE DEF T
    <2> QED
        BY <1>1, <1>3, WFMin
<1>5. j \in 0..n /\ j # 0
    OBVIOUS
<1>6. j - 1 \in 0..(n - 1) /\ j - 1 < j /\ j - 1 \in Nat /\ j \in Nat /\ (j - 1) + 1 = j
    BY <1>5
<1>7. j - 1 \notin T
    BY <1>2, <1>4, <1>6
<1>8. j - 1 \in S
    BY <1>6, <1>7
<1> QED
    BY <1>6, <1>8

\* A set that has the empty sequence, and with a sequence each that is longer by one,
\* has them all.
LEMMA ByAppending ==
    ASSUME NEW E, NEW S, <<>> \in S,
           \A x \in Seq(E), e \in E : x \in S => Append(x, e) \in S
    PROVE  Seq(E) \subseteq S
<1> SUFFICES ASSUME NEW x \in Seq(E) PROVE x \in S
    OBVIOUS
<1> DEFINE n == Len(x)
           Up2(m) == SubSeq(x, 1, m)
           T == {m \in Nat : m <= n => Up2(m) \in S}
<1>1. n \in Nat /\ \A i \in 1..n : x[i] \in E
    BY LenProperties, ElementOfSeq
<1>2. 0 \in T
    <2>1. 1 \in Int /\ 0 \in Int /\ 0 < 1
        OBVIOUS
    <2>2. Up2(0) = <<>>
        BY <2>1, SubSeqEmpty
    <2> QED
        BY <2>2
<1>3. ASSUME NEW m \in 0..(n - 1), m \in T PROVE m + 1 \in T
    <2>1. m \in Nat /\ m + 1 \in 1..n /\ 1 \in 1..n /\ m + 1 \in 1..Len(x) /\ (m + 1) - 1 = m
        BY <1>1
    <2>2. \A i \in 1..m : x[i] \in E
        BY <1>1, <2>1
    <2>3. Up2(m) \in Seq(E) /\ Up2(m) \in S
        BY <1>1, <1>3, <2>1, <2>2, SubSeqProperties
    <2>4. Up2(m + 1) = Up2(m) \o <<x[m + 1]>>
        BY <2>1, SubSeqRecursiveSecond
    <2>5. Up2(m) \o <<x[m + 1]>> = Append(Up2(m), x[m + 1])
        BY <1>1, <2>1, <2>3, AppendIsConcat
    <2>6. Up2(m + 1) \in S
        BY <1>1, <2>1, <2>3, <2>4, <2>5
    <2> QED
        BY <2>1, <2>6
<1>4. 0..n \subseteq T
    <2> HIDE DEF T
    <2> QED
        BY <1>1, <1>2, <1>3, UpTo
<1>5. Up2(n) \in S
    BY <1>1, <1>4
<1> QED
    BY <1>5, SubSeqFull

\* What is reached from b in n steps of F, each of which may look at its number.
Iterates(f, n, b, F) == f[0] = b /\ \A i \in 1..n : f[i] = F[<<i, f[i - 1]>>]

LEMMA Iteration ==
    ASSUME NEW D, NEW n \in Nat, NEW b \in D, NEW F \in [(1..n) \X D -> D]
    PROVE  \E f \in [0..n -> D] : Iterates(f, n, b, F)
<1> USE DEF Iterates
<1> DEFINE Is(f, m) == /\ f \in [0..m -> D] /\ f[0] = b
                       /\ \A i \in 1..m : f[i] = F[<<i, f[i - 1]>>]
           S == {m \in 0..n : \E f : Is(f, m)}
<1>1. 0 \in S
    <2> DEFINE f0 == [i \in 0..0 |-> b]
    <2>1. Is(f0, 0)
        OBVIOUS
    <2>2. 0 \in 0..n
        OBVIOUS
    <2> HIDE DEF f0, Is
    <2> QED
        BY <2>1, <2>2
<1>2. ASSUME NEW m \in 0..(n - 1), m \in S PROVE m + 1 \in S
    <2>1. PICK f : Is(f, m)
        BY <1>2
    <2> DEFINE last == F[<<m + 1, f[m]>>]
               g == [i \in 0..(m + 1) |-> IF i = m + 1 THEN last ELSE f[i]]
    <2>2. m \in 0..m /\ m + 1 \in 1..n /\ m + 1 \in 0..(m + 1) /\ m \in Nat /\ 0 \in 0..m
        OBVIOUS
    <2>3. last \in D
        <3>1. f[m] \in D
            BY <2>1, <2>2
        <3> QED
            BY <2>2, <3>1
    <2>4. g[m + 1] = last /\ \A i \in 0..m : g[i] = f[i]
        OBVIOUS
    <2> HIDE DEF last
    <2>5. g \in [0..(m + 1) -> D]
        BY <2>1, <2>2, <2>3
    <2> HIDE DEF g
    <2>6. ASSUME NEW i \in 1..(m + 1) PROVE g[i] = F[<<i, g[i - 1]>>]
        <3>1. CASE i = m + 1
            <4>1. i - 1 = m /\ g[m] = f[m]
                BY <2>2, <2>4, <3>1
            <4> QED
                BY <2>4, <3>1, <4>1 DEF last
        <3>2. CASE i # m + 1
            <4>1. i \in 1..m /\ i \in 0..m /\ i - 1 \in 0..m
                BY <2>2, <3>2
            <4> QED
                BY <2>1, <2>4, <4>1
        <3> QED
            BY <3>1, <3>2
    <2>7. g[0] = b
        BY <2>1, <2>2, <2>4
    <2> QED
        BY <2>2, <2>5, <2>6, <2>7
<1>3. 0..n \subseteq S
    <2> HIDE DEF S
    <2> QED
        BY <1>1, <1>2, UpTo
<1> QED
    BY <1>3

-----------------------------------------------------------------------------
\* The run of names that a path is cleaned by, from the names s that are clean already.
IsWalk(f, a, s, x) ==
    f = [n \in 0..Len(x) |-> IF n = 0 THEN s ELSE Resolved(a, f[n - 1], x[n])]

WalkOf(a, s, x) == CHOOSE f : IsWalk(f, a, s, x)
Walk(a, s, x) == WalkOf(a, s, x)[Len(x)]

Names == Seq(Name)

LEMMA ResolvedIs ==
    ASSUME NEW a \in BOOLEAN, NEW d \in Names, NEW e \in Name
    PROVE  Resolved(a, d, e) \in Names
<1> USE LoaderAssumption DEF Names
<1>1. Append(d, e) \in Names /\ Append(d, Up) \in Names
    OBVIOUS
<1>2. ASSUME d # <<>> PROVE Front(d) \in Names
    <2>1. Len(d) \in Nat /\ \A i \in 1..(Len(d) - 1) : d[i] \in Name
        BY LenProperties, ElementOfSeq
    <2> QED
        BY <2>1, SubSeqProperties DEF Front
<1> QED
    BY <1>1, <1>2 DEF Resolved

LEMMA WalkExists ==
    ASSUME NEW a \in BOOLEAN, NEW s \in Names, NEW x \in Names
    PROVE  \E f : IsWalk(f, a, s, x) /\ f \in [0..Len(x) -> Names]
<1> DEFINE F == [at \in (1..Len(x)) \X Names |-> Resolved(a, at[2], x[at[1]])]
<1>1. Len(x) \in Nat /\ \A i \in 1..Len(x) : x[i] \in Name
    BY LenProperties, ElementOfSeq DEF Names
<1>2. F \in [(1..Len(x)) \X Names -> Names]
    BY <1>1, ResolvedIs
<1>3. \A i \in 1..Len(x), d \in Names : F[<<i, d>>] = Resolved(a, d, x[i])
    OBVIOUS
<1> HIDE DEF F
<1>4. PICK f \in [0..Len(x) -> Names] :
          f[0] = s /\ \A i \in 1..Len(x) : f[i] = F[<<i, f[i - 1]>>]
    <2> DEFINE n == Len(x)
    <2>1. n \in Nat /\ F \in [(1..n) \X Names -> Names]
        BY <1>1, <1>2
    <2> HIDE DEF n
    <2>2. \E f \in [0..n -> Names] : Iterates(f, n, s, F)
        BY <2>1, Iteration
    <2> QED
        BY <2>2 DEF n, Iterates
<1>5. \A i \in 1..Len(x) : f[i] = Resolved(a, f[i - 1], x[i])
    <2> SUFFICES ASSUME NEW i \in 1..Len(x) PROVE f[i] = Resolved(a, f[i - 1], x[i])
        OBVIOUS
    <2>1. i - 1 \in 0..Len(x)
        BY <1>1
    <2> QED
        BY <1>3, <1>4, <2>1
<1>6. \A i \in 0..Len(x) : i = 0 \/ i \in 1..Len(x)
    BY <1>1
<1>7. IsWalk(f, a, s, x)
    BY <1>4, <1>5, <1>6 DEF IsWalk
<1> QED
    BY <1>7

\* What any such run is, and that there is one.
LEMMA WalkIs ==
    ASSUME NEW a \in BOOLEAN, NEW s \in Names, NEW x \in Names
    PROVE  /\ WalkOf(a, s, x)[0] = s
           /\ \A i \in 1..Len(x) :
                   WalkOf(a, s, x)[i] = Resolved(a, WalkOf(a, s, x)[i - 1], x[i])
           /\ \A i \in 0..Len(x) : WalkOf(a, s, x)[i] \in Names
<1> DEFINE f == WalkOf(a, s, x)
<1>1. IsWalk(f, a, s, x)
    BY WalkExists DEF WalkOf
<1>2. Len(x) \in Nat /\ \A i \in 1..Len(x) : x[i] \in Name
    BY LenProperties, ElementOfSeq DEF Names
<1> HIDE DEF f
<1>3. f[0] = s /\ \A i \in 1..Len(x) : f[i] = Resolved(a, f[i - 1], x[i])
    <2>1. \A i \in 0..Len(x) : f[i] = IF i = 0 THEN s ELSE Resolved(a, f[i - 1], x[i])
        BY <1>1 DEF IsWalk
    <2>2. 0 \in 0..Len(x) /\ \A i \in 1..Len(x) : i \in 0..Len(x) /\ i # 0
        BY <1>2
    <2> QED
        BY <2>1, <2>2
<1>4. 0..Len(x) \subseteq {i \in Nat : f[i] \in Names}
    <2> DEFINE S == {i \in Nat : f[i] \in Names}
    <2>1. 0 \in S
        BY <1>3
    <2>2. ASSUME NEW m \in 0..(Len(x) - 1), m \in S PROVE m + 1 \in S
        <3>1. m + 1 \in 1..Len(x) /\ m + 1 \in Nat /\ (m + 1) - 1 = m
            BY <1>2
        <3>2. f[m + 1] = Resolved(a, f[m], x[m + 1])
            BY <1>3, <3>1
        <3> QED
            BY <1>2, <2>2, <3>1, <3>2, ResolvedIs
    <2> HIDE DEF S
    <2>3. 0..Len(x) \subseteq S
        BY <1>2, <2>1, <2>2, UpTo
    <2> QED
        BY <2>3 DEF S
<1> QED
    BY <1>3, <1>4 DEF f

LEMMA WalkType ==
    ASSUME NEW a \in BOOLEAN, NEW s \in Names, NEW x \in Names
    PROVE  Walk(a, s, x) \in Names /\ Walk(a, s, <<>>) = s
<1>1. Len(x) \in Nat /\ Len(x) \in 0..Len(x)
    BY LenProperties DEF Names
<1>2. <<>> \in Names /\ Len(<<>>) = 0
    BY EmptySeq DEF Names
<1> QED
    BY <1>1, <1>2, WalkIs DEF Walk

\* What is appended is the last name.
LEMMA Appended ==
    ASSUME NEW x \in Names, NEW e \in Name
    PROVE  /\ Append(x, e) \in Names /\ Append(x, e) # <<>>
           /\ Len(x) \in Nat /\ Len(Append(x, e)) = Len(x) + 1
           /\ Append(x, e)[Len(x) + 1] = e
           /\ \A i \in 1..Len(x) : Append(x, e)[i] = x[i]
           /\ Last(Append(x, e)) = e /\ Front(Append(x, e)) = x
<1> USE DEF Names
<1>1. Append(x, e) \in Names /\ Append(x, e) # <<>>
    BY AppendProperties
<1>2. Len(x) \in Nat
    BY LenProperties
<1>3. Len(Append(x, e)) = Len(x) + 1
    BY AppendProperties
<1>4. Append(x, e)[Len(x) + 1] = e
    BY AppendProperties
<1>5. \A i \in 1..Len(x) : Append(x, e)[i] = x[i]
    BY AppendProperties
<1>6. Last(Append(x, e)) = e
    BY <1>3, <1>4 DEF Last
<1>7. Front(Append(x, e)) = x
    <2> DEFINE y == Append(x, e)
    <2>1. Front(y) = SubSeq(y, 1, Len(x)) /\ \A i \in 1..Len(x) : y[i] \in Name
        BY <1>2, <1>3, <1>5, ElementOfSeq DEF Front
    <2> HIDE DEF y
    <2>2. /\ SubSeq(y, 1, Len(x)) \in Seq(Name)
          /\ Len(SubSeq(y, 1, Len(x))) = IF 1 <= Len(x) THEN Len(x) - 1 + 1 ELSE 0
          /\ \A i \in 1..(Len(x) - 1 + 1) : SubSeq(y, 1, Len(x))[i] = y[1 + i - 1]
        BY <1>2, <2>1, SubSeqProperties
    <2>3. Len(SubSeq(y, 1, Len(x))) = Len(x)
        BY <1>2, <2>2
    <2>4. \A i \in 1..Len(x) : SubSeq(y, 1, Len(x))[i] = x[i]
        BY <1>2, <1>5, <2>2 DEF y
    <2> QED
        BY <2>1, <2>2, <2>3, <2>4, SeqEqual DEF y
<1> QED
    BY <1>1, <1>2, <1>3, <1>4, <1>5, <1>6, <1>7

\* A path that is not empty is its last name below the others.
LEMMA Fronts ==
    ASSUME NEW d \in Names, d # <<>>
    PROVE  /\ Front(d) \in Names /\ Last(d) \in Name /\ d = Append(Front(d), Last(d))
           /\ Len(Front(d)) = Len(d) - 1 /\ \A i \in 1..(Len(d) - 1) : Front(d)[i] = d[i]
<1>1. PICK x \in Names, e \in Name : d = Append(x, e)
    BY SequenceEmptyOrAppend DEF Names
<1>2. Front(d) = x /\ Last(d) = e /\ Len(d) = Len(x) + 1 /\ Len(x) \in Nat
      /\ \A i \in 1..Len(x) : d[i] = x[i]
    BY <1>1, Appended
<1>3. Len(d) - 1 = Len(x)
    BY <1>2
<1>4. \A i \in 1..(Len(d) - 1) : Front(d)[i] = d[i]
    BY <1>2, <1>3
<1> QED
    BY <1>1, <1>2, <1>3, <1>4

LEMMA ConcatAppend ==
    ASSUME NEW x \in Names, NEW y \in Names, NEW e \in Name
    PROVE  x \o Append(y, e) = Append(x \o y, e)
<1>1. <<e>> \in Names /\ x \o y \in Names
    BY ConcatProperties DEF Names
<1>2. Append(y, e) = y \o <<e>> /\ Append(x \o y, e) = (x \o y) \o <<e>>
    BY <1>1, AppendIsConcat DEF Names
<1>3. (x \o y) \o <<e>> = x \o (y \o <<e>>)
    BY <1>1, ConcatAssociative DEF Names
<1> QED
    BY <1>2, <1>3

LEMMA WalkAppend ==
    ASSUME NEW a \in BOOLEAN, NEW s \in Names, NEW x \in Names, NEW e \in Name
    PROVE  Walk(a, s, Append(x, e)) = Resolved(a, Walk(a, s, x), e)
<1> DEFINE y == Append(x, e)
           f == WalkOf(a, s, x)
           g == WalkOf(a, s, y)
           S == {i \in Nat : g[i] = f[i]}
<1>1. y \in Names /\ Len(x) \in Nat /\ Len(y) = Len(x) + 1 /\ y[Len(x) + 1] = e
      /\ \A i \in 1..Len(x) : y[i] = x[i]
    BY Appended
<1>2. f[0] = s /\ \A i \in 1..Len(x) : f[i] = Resolved(a, f[i - 1], x[i])
    BY WalkIs
<1> HIDE DEF y
<1>3. g[0] = s /\ \A i \in 1..Len(y) : g[i] = Resolved(a, g[i - 1], y[i])
    BY <1>1, WalkIs
<1> HIDE DEF f, g
<1>4. 0 \in S
    BY <1>2, <1>3
<1>5. ASSUME NEW m \in 0..(Len(x) - 1), m \in S PROVE m + 1 \in S
    <2>1. m + 1 \in 1..Len(x) /\ m + 1 \in 1..Len(y) /\ m + 1 \in Nat /\ (m + 1) - 1 = m
        BY <1>1
    <2> QED
        BY <1>1, <1>2, <1>3, <1>5, <2>1
<1>6. g[Len(x)] = f[Len(x)]
    <2> HIDE DEF S
    <2>1. Len(x) \in Nat /\ Len(x) \in 0..Len(x)
        BY <1>1
    <2>2. 0..Len(x) \subseteq S
        BY <2>1, <1>4, <1>5, UpTo
    <2> QED
        BY <2>1, <2>2 DEF S
<1>7. g[Len(y)] = Resolved(a, g[Len(x)], e)
    <2>1. Len(y) \in 1..Len(y) /\ Len(y) - 1 = Len(x)
        BY <1>1
    <2> QED
        BY <1>1, <1>3, <2>1
<1> QED
    BY <1>6, <1>7 DEF Walk, f, g, y

LEMMA CleanIs ==
    ASSUME NEW p \in Paths
    PROVE  /\ Clean(p) = [abs |-> p.abs, parts |-> Walk(p.abs, <<>>, p.parts)]
           /\ Clean(p) \in Paths
<1>1. p.abs \in BOOLEAN /\ p.parts \in Names /\ p = [abs |-> p.abs, parts |-> p.parts]
    BY DEF Paths, Names
<1>2. <<>> \in Names
    BY EmptySeq DEF Names
<1>3. Clean(p) = [p EXCEPT !.parts = Walk(p.abs, <<>>, p.parts)]
    BY DEF Clean, Walk, WalkOf, IsWalk
<1>4. Clean(p) = [abs |-> p.abs, parts |-> Walk(p.abs, <<>>, p.parts)]
    BY <1>1, <1>3 DEF Paths
<1>5. Walk(p.abs, <<>>, p.parts) \in Names
    BY <1>1, <1>2, WalkType
<1> QED
    BY <1>1, <1>4, <1>5 DEF Paths, Names

\* Cleaning a path is cleaning how it begins, and then the rest.
LEMMA WalkConcat ==
    ASSUME NEW a \in BOOLEAN, NEW s \in Names, NEW x \in Names, NEW y \in Names
    PROVE  x \o y \in Names /\ Walk(a, s, x \o y) = Walk(a, Walk(a, s, x), y)
<1> DEFINE S == {z \in Names : Walk(a, s, x \o z) = Walk(a, Walk(a, s, x), z)}
<1>1. Walk(a, s, x) \in Names
    BY WalkType
<1>2. <<>> \in S
    <2>1. <<>> \in Names /\ x \o <<>> = x
        BY EmptySeq, ConcatEmptySeq DEF Names
    <2> QED
        BY <1>1, <2>1, WalkType
<1>3. ASSUME NEW z \in Seq(Name), NEW e \in Name, z \in S PROVE Append(z, e) \in S
    <2>1. z \in Names /\ Append(z, e) \in Names
        BY <1>3, Appended
    <2>2. x \o z \in Names
        BY <2>1, ConcatProperties DEF Names
    <2>3. x \o Append(z, e) = Append(x \o z, e)
        BY <2>1, <2>2, ConcatAppend
    <2>4. Walk(a, s, Append(x \o z, e)) = Resolved(a, Walk(a, s, x \o z), e)
        <3> HIDE DEF S
        <3> QED
            BY <2>2, WalkAppend
    <2>5. Walk(a, Walk(a, s, x), Append(z, e)) = Resolved(a, Walk(a, Walk(a, s, x), z), e)
        BY <1>1, <2>1, WalkAppend
    <2> QED
        BY <1>3, <2>1, <2>3, <2>4, <2>5
<1>4. Seq(Name) \subseteq S
    <2> HIDE DEF S
    <2> QED
        BY <1>2, <1>3, ByAppending
<1> QED
    BY <1>4, ConcatProperties DEF Names

\* What a cleaned path is: no ".." but where it begins, and none at all below "/".
Settled(a, d) == \A i \in 1..Len(d) : d[i] = Up => ~a /\ \A j \in 1..i : d[j] = Up

LEMMA SettledAppend ==
    ASSUME NEW a \in BOOLEAN, NEW z \in Names, NEW e \in Name
    PROVE  Settled(a, Append(z, e)) <=>
               Settled(a, z) /\ (e = Up => ~a /\ \A j \in 1..Len(z) : z[j] = Up)
<1> DEFINE y == Append(z, e)
           n == Len(z)
<1>1. n \in Nat /\ Len(y) = n + 1 /\ y[n + 1] = e /\ \A i \in 1..n : y[i] = z[i]
    BY Appended
<1> HIDE DEF y, n
<1>2. \A i \in 1..(n + 1) : i \in 1..n \/ i = n + 1
    BY <1>1
<1>3. \A i \in 1..n : i \in 1..(n + 1) /\ \A j \in 1..i : j \in 1..n
    BY <1>1
<1>4. n + 1 \in 1..(n + 1) /\ \A j \in 1..n : j \in 1..(n + 1)
    BY <1>1
<1>5. ASSUME \A i \in 1..(n + 1) : y[i] = Up => ~a /\ \A j \in 1..i : y[j] = Up
      PROVE  /\ \A i \in 1..n : z[i] = Up => ~a /\ \A j \in 1..i : z[j] = Up
             /\ e = Up => ~a /\ \A j \in 1..n : z[j] = Up
    BY <1>1, <1>3, <1>4, <1>5
<1>6. ASSUME \A i \in 1..n : z[i] = Up => ~a /\ \A j \in 1..i : z[j] = Up,
             e = Up => ~a /\ \A j \in 1..n : z[j] = Up
      PROVE  \A i \in 1..(n + 1) : y[i] = Up => ~a /\ \A j \in 1..i : y[j] = Up
    <2> SUFFICES ASSUME NEW i \in 1..(n + 1), y[i] = Up
                 PROVE  ~a /\ \A j \in 1..i : y[j] = Up
        OBVIOUS
    <2>1. CASE i \in 1..n
        BY <1>1, <1>3, <1>6, <2>1
    <2>2. CASE i = n + 1
        BY <1>1, <1>2, <1>6, <2>2
    <2> QED
        BY <1>2, <2>1, <2>2
<1> QED
    BY <1>1, <1>5, <1>6 DEF Settled, y, n

LEMMA ResolvedSettles ==
    ASSUME NEW a \in BOOLEAN, NEW d \in Names, NEW e \in Name, Settled(a, d)
    PROVE  Settled(a, Resolved(a, d, e))
<1>1. Len(d) \in Nat
    BY LenProperties DEF Names
<1>2. CASE e # Up
    <2>1. Resolved(a, d, e) = Append(d, e)
        BY <1>2 DEF Resolved
    <2> QED
        BY <1>2, <2>1, SettledAppend
<1>3. CASE e = Up /\ d # <<>> /\ Last(d) # Up
    <2>1. Resolved(a, d, e) = Front(d)
        BY <1>3 DEF Resolved
    <2>2. Len(Front(d)) = Len(d) - 1 /\ \A i \in 1..(Len(d) - 1) : Front(d)[i] = d[i]
        BY <1>3, Fronts
    <2> QED
        BY <1>1, <2>1, <2>2 DEF Settled
<1>4. CASE e = Up /\ (d = <<>> \/ Last(d) = Up) /\ a
    BY <1>4 DEF Resolved
<1>5. CASE e = Up /\ (d = <<>> \/ Last(d) = Up) /\ ~a
    <2>1. Resolved(a, d, e) = Append(d, Up)
        BY <1>5 DEF Resolved
    <2>2. \A j \in 1..Len(d) : d[j] = Up
        <3>1. CASE d = <<>>
            BY <3>1, EmptySeq
        <3>2. CASE d # <<>>
            <4>1. d[Len(d)] = Up
                BY <1>5, <3>2 DEF Last
            <4>2. Len(d) \in Nat \ {0}
                BY <3>2, EmptySeq DEF Names
            <4>3. Len(d) \in 1..Len(d)
                BY <4>2
            <4> QED
                BY <4>1, <4>3 DEF Settled
        <3> QED
            BY <3>1, <3>2
    <2>3. Up \in Name
        BY LoaderAssumption
    <2> QED
        BY <1>5, <2>1, <2>2, <2>3, SettledAppend
<1> QED
    BY <1>2, <1>3, <1>4, <1>5

LEMMA WalkSettles ==
    ASSUME NEW a \in BOOLEAN, NEW s \in Names, Settled(a, s), NEW x \in Names
    PROVE  Settled(a, Walk(a, s, x))
<1> DEFINE S == {z \in Names : Settled(a, Walk(a, s, z))}
<1>1. <<>> \in S
    BY EmptySeq, WalkType DEF Names
<1>2. ASSUME NEW z \in Seq(Name), NEW e \in Name, z \in S PROVE Append(z, e) \in S
    <2>1. z \in Names /\ Append(z, e) \in Names /\ Walk(a, s, z) \in Names
        BY <1>2, Appended, WalkType
    <2> QED
        BY <1>2, <2>1, WalkAppend, ResolvedSettles
<1>3. Seq(Name) \subseteq S
    <2> HIDE DEF S
    <2> QED
        BY <1>1, <1>2, ByAppending
<1> QED
    BY <1>3 DEF Names

\* A path that is clean is left as it is.
LEMMA WalkSettled ==
    ASSUME NEW a \in BOOLEAN, NEW x \in Names, Settled(a, x)
    PROVE  Walk(a, <<>>, x) = x
<1> DEFINE S == {z \in Names : Settled(a, z) => Walk(a, <<>>, z) = z}
<1>1. <<>> \in Names
    BY EmptySeq DEF Names
<1>2. <<>> \in S
    BY <1>1, WalkType
<1>3. ASSUME NEW z \in Seq(Name), NEW e \in Name, z \in S PROVE Append(z, e) \in S
    <2>1. z \in Names /\ Append(z, e) \in Names
        BY <1>3, Appended
    <2>2. SUFFICES ASSUME Settled(a, Append(z, e))
                  PROVE  Walk(a, <<>>, Append(z, e)) = Append(z, e)
        BY <2>1
    <2>3. Settled(a, z) /\ (e = Up => ~a /\ \A j \in 1..Len(z) : z[j] = Up)
        BY <2>1, <2>2, SettledAppend
    <2>4. Walk(a, <<>>, z) = z
        BY <1>3, <2>3
    <2>5. Walk(a, <<>>, Append(z, e)) = Resolved(a, z, e)
        <3> HIDE DEF S
        <3> QED
            BY <1>1, <2>1, <2>4, WalkAppend
    <2>6. CASE e # Up
        BY <2>5, <2>6 DEF Resolved
    <2>7. CASE e = Up
        <3>1. ~a
            BY <2>3, <2>7
        <3>2. z # <<>> => Last(z) = Up
            <4> SUFFICES ASSUME z # <<>> PROVE Last(z) = Up
                OBVIOUS
            <4>1. Len(z) \in Nat \ {0}
                BY <2>1, EmptySeq DEF Names
            <4>2. Len(z) \in 1..Len(z)
                BY <4>1
            <4> QED
                BY <2>3, <2>7, <4>2 DEF Last
        <3> QED
            BY <2>5, <2>7, <3>1, <3>2 DEF Resolved
    <2> QED
        BY <2>6, <2>7
<1>4. Seq(Name) \subseteq S
    <2> HIDE DEF S
    <2> QED
        BY <1>2, <1>3, ByAppending
<1> QED
    BY <1>4 DEF Names

\* Where there is no "..", the names are added one by one.
LEMMA WalkDown ==
    ASSUME NEW a \in BOOLEAN, NEW s \in Names, NEW x \in Names, \A i \in 1..Len(x) : x[i] # Up
    PROVE  Walk(a, s, x) = s \o x
<1> DEFINE S == {z \in Names : (\A i \in 1..Len(z) : z[i] # Up) => Walk(a, s, z) = s \o z}
<1>1. <<>> \in S
    <2>1. <<>> \in Names /\ s \o <<>> = s
        BY EmptySeq, ConcatEmptySeq DEF Names
    <2> QED
        BY <2>1, WalkType
<1>2. ASSUME NEW z \in Seq(Name), NEW e \in Name, z \in S PROVE Append(z, e) \in S
    <2>1. z \in Names /\ Append(z, e) \in Names
        BY <1>2, Appended
    <2>2. SUFFICES ASSUME \A i \in 1..Len(Append(z, e)) : Append(z, e)[i] # Up
                   PROVE  Walk(a, s, Append(z, e)) = s \o Append(z, e)
        BY <2>1
    <2>3. Len(z) \in Nat /\ Len(Append(z, e)) = Len(z) + 1 /\ Append(z, e)[Len(z) + 1] = e
          /\ \A i \in 1..Len(z) : Append(z, e)[i] = z[i]
        BY <2>1, Appended
    <2>4. e # Up
        <3>1. Len(z) + 1 \in 1..(Len(z) + 1)
            BY <2>3
        <3> QED
            BY <2>2, <2>3, <3>1
    <2>5. \A i \in 1..Len(z) : z[i] # Up
        <3>1. \A i \in 1..Len(z) : i \in 1..(Len(z) + 1)
            BY <2>3
        <3> QED
            BY <2>2, <2>3, <3>1
    <2>6. Walk(a, s, z) = s \o z
        BY <1>2, <2>5
    <2>7. Walk(a, s, Append(z, e)) = Append(s \o z, e)
        <3> HIDE DEF S
        <3>1. Walk(a, s, Append(z, e)) = Resolved(a, Walk(a, s, z), e)
            BY <2>1, WalkAppend
        <3> QED
            BY <2>4, <2>6, <3>1 DEF Resolved
    <2> QED
        BY <2>1, <2>7, ConcatAppend
<1>3. Seq(Name) \subseteq S
    <2> HIDE DEF S
    <2> QED
        BY <1>1, <1>2, ByAppending
<1> QED
    BY <1>3 DEF Names

\* To clean a relative path before it is joined to another, or only then, is the same.
LEMMA WalkTwice ==
    ASSUME NEW t \in BOOLEAN, NEW f \in BOOLEAN, ~f, NEW c \in Names, NEW x \in Names
    PROVE  Walk(t, c, Walk(f, <<>>, x)) = Walk(t, c, x)
<1> DEFINE S == {z \in Names : Walk(t, c, Walk(f, <<>>, z)) = Walk(t, c, z)}
<1>1. <<>> \in Names
    BY EmptySeq DEF Names
<1>2. <<>> \in S
    BY <1>1, WalkType
<1>3. ASSUME NEW z \in Seq(Name), NEW e \in Name, z \in S PROVE Append(z, e) \in S
    <2> DEFINE d == Walk(f, <<>>, z)
    <2>1. /\ z \in Names /\ Append(z, e) \in Names /\ d \in Names
          /\ Walk(t, c, z) \in Names /\ Walk(t, c, d) = Walk(t, c, z)
        BY <1>1, <1>3, Appended, WalkType
    <2>2. Walk(f, <<>>, Append(z, e)) = Resolved(f, d, e)
        BY <1>1, <1>3, <2>1, WalkAppend
    <2> SUFFICES Walk(t, c, Resolved(f, d, e)) = Walk(t, c, Append(z, e))
        BY <2>1, <2>2
    <2> HIDE DEF d, S
    <2>3. Walk(t, c, Append(z, e)) = Resolved(t, Walk(t, c, d), e)
        BY <1>3, <2>1, WalkAppend
    <2>4. CASE e # Up \/ d = <<>> \/ Last(d) = Up
        <3>1. Resolved(f, d, e) = Append(d, e)
            BY <2>4 DEF Resolved
        <3>2. Walk(t, c, Append(d, e)) = Resolved(t, Walk(t, c, d), e)
            BY <1>3, <2>1, WalkAppend
        <3> QED
            BY <2>3, <3>1, <3>2
    <2>5. CASE e = Up /\ d # <<>> /\ Last(d) # Up
        <3> DEFINE b == Walk(t, c, Front(d))
        <3>1. Resolved(f, d, e) = Front(d)
            BY <2>5 DEF Resolved
        <3>2. Front(d) \in Names /\ Last(d) \in Name /\ d = Append(Front(d), Last(d))
            BY <2>1, <2>5, Fronts
        <3>3. b \in Names
            BY <3>2, WalkType
        <3>4. Walk(t, c, d) = Append(b, Last(d))
            <4>1. Walk(t, c, Append(Front(d), Last(d))) = Resolved(t, b, Last(d))
                BY <3>2, WalkAppend
            <4>2. Resolved(t, b, Last(d)) = Append(b, Last(d))
                BY <2>5 DEF Resolved
            <4> QED
                BY <3>2, <4>1, <4>2
        <3> HIDE DEF b
        <3>5. /\ Append(b, Last(d)) # <<>> /\ Last(Append(b, Last(d))) = Last(d)
              /\ Front(Append(b, Last(d))) = b
            BY <3>2, <3>3, Appended
        <3>6. Resolved(t, Append(b, Last(d)), e) = b
            BY <2>5, <3>5 DEF Resolved
        <3> QED
            BY <2>3, <3>1, <3>4, <3>6 DEF b
    <2> QED
        BY <2>4, <2>5
<1>4. Seq(Name) \subseteq S
    <2> HIDE DEF S
    <2> QED
        BY <1>2, <1>3, ByAppending
<1> QED
    BY <1>4 DEF Names

\* Paths are the same that begin at the same place and have the same names.
LEMMA SamePath ==
    ASSUME NEW p \in Paths, NEW q \in Paths, p.abs = q.abs, p.parts = q.parts
    PROVE  p = q
BY DEF Paths

\* The path of a directory, and that of a sheet.
IsClean(p) == p \in Paths /\ Settled(p.abs, p.parts)
IsSheet(p) == IsClean(p) /\ p.parts # <<>> /\ Last(p.parts) # Up

LEMMA PathIs ==
    ASSUME NEW p \in Paths
    PROVE  p.abs \in BOOLEAN /\ p.parts \in Names /\ <<>> \in Names /\ Settled(p.abs, <<>>)
<1>1. <<>> \in Names /\ Len(<<>>) = 0
    BY EmptySeq DEF Names
<1>2. Settled(p.abs, <<>>)
    BY <1>1 DEF Settled
<1> QED
    BY <1>1, <1>2 DEF Paths, Names

\* Clean returns a clean path, and a clean path as it is.
LEMMA Cleaned ==
    ASSUME NEW p \in Paths
    PROVE  IsClean(Clean(p)) /\ (IsClean(p) <=> Clean(p) = p)
<1>1. /\ Clean(p) \in Paths /\ Clean(p).abs = p.abs
      /\ Clean(p).parts = Walk(p.abs, <<>>, p.parts)
    BY CleanIs
<1>2. IsClean(Clean(p))
    <2>1. Settled(p.abs, Walk(p.abs, <<>>, p.parts))
        BY PathIs, WalkSettles
    <2> QED
        BY <1>1, <2>1 DEF IsClean
<1>3. ASSUME IsClean(p) PROVE Clean(p) = p
    <2>1. Walk(p.abs, <<>>, p.parts) = p.parts
        BY <1>3, PathIs, WalkSettled DEF IsClean
    <2> QED
        BY <1>1, <2>1, SamePath
<1> QED
    BY <1>2, <1>3

\* A path joined to another, and to a clean one.
LEMMA JoinIs ==
    ASSUME NEW dir \in Paths, NEW p \in Paths
    PROVE  /\ IsClean(Join(dir, p)) /\ Join(dir, p).abs = dir.abs
           /\ Join(dir, p).parts = Walk(dir.abs, <<>>, dir.parts \o p.parts)
           /\ IsClean(dir) => Join(dir, p).parts = Walk(dir.abs, dir.parts, p.parts)
<1> DEFINE q == [dir EXCEPT !.parts = dir.parts \o p.parts]
<1>1. dir.parts \o p.parts \in Names
    BY PathIs, WalkConcat
<1>2. q \in Paths /\ q.abs = dir.abs /\ q.parts = dir.parts \o p.parts
    BY <1>1 DEF Paths, Names
<1>3. Join(dir, p) = Clean(q)
    BY DEF Join
<1> HIDE DEF q
<1>4. /\ IsClean(Join(dir, p)) /\ Join(dir, p).abs = dir.abs
      /\ Join(dir, p).parts = Walk(dir.abs, <<>>, dir.parts \o p.parts)
    <2>1. Clean(q) = [abs |-> q.abs, parts |-> Walk(q.abs, <<>>, q.parts)]
        BY <1>2, CleanIs
    <2>2. Clean(q).abs = q.abs /\ Clean(q).parts = Walk(q.abs, <<>>, q.parts)
        BY <2>1
    <2>3. IsClean(Clean(q))
        BY <1>2, Cleaned
    <2> QED
        BY <1>2, <1>3, <2>2, <2>3
<1>5. ASSUME IsClean(dir) PROVE Join(dir, p).parts = Walk(dir.abs, dir.parts, p.parts)
    <2>1. Walk(dir.abs, <<>>, dir.parts \o p.parts)
              = Walk(dir.abs, Walk(dir.abs, <<>>, dir.parts), p.parts)
        BY PathIs, WalkConcat
    <2>2. Walk(dir.abs, <<>>, dir.parts) = dir.parts
        BY <1>5, PathIs, WalkSettled DEF IsClean
    <2> QED
        BY <1>4, <2>1, <2>2
<1> QED
    BY <1>4, <1>5

\* The directory of a sheet is a clean path too.
LEMMA DirIs ==
    ASSUME NEW n, IsSheet(n)
    PROVE  /\ IsClean(Dir(n)) /\ Dir(n).abs = n.abs /\ Dir(n).parts = Front(n.parts)
           /\ Front(n.parts) \in Names /\ Last(n.parts) \in Name
           /\ n.parts = Append(Front(n.parts), Last(n.parts))
<1>1. n \in Paths /\ n.parts # <<>> /\ Settled(n.abs, n.parts)
    BY DEF IsSheet, IsClean
<1>2. /\ Front(n.parts) \in Names /\ Last(n.parts) \in Name
      /\ n.parts = Append(Front(n.parts), Last(n.parts))
    BY <1>1, PathIs, Fronts
<1>3. Settled(n.abs, Front(n.parts))
    <2>1. n.abs \in BOOLEAN /\ Settled(n.abs, Append(Front(n.parts), Last(n.parts)))
        BY <1>1, <1>2, PathIs
    <2> QED
        BY <1>2, <2>1, SettledAppend
<1> DEFINE q == [n EXCEPT !.parts = Front(n.parts)]
<1>4. Dir(n) = Clean(q)
    BY <1>1 DEF Dir
<1>5. q \in Paths /\ q.abs = n.abs /\ q.parts = Front(n.parts)
    BY <1>1, <1>2 DEF Paths, Names
<1> HIDE DEF q
<1>6. IsClean(q) /\ Dir(n) = q
    BY <1>3, <1>4, <1>5, Cleaned DEF IsClean
<1> QED
    BY <1>2, <1>5, <1>6

\* A sheet's path joined to a directory is a sheet's: of the last name, in the directory
\* the others lead to.
LEMMA JoinSheet ==
    ASSUME NEW d, IsClean(d), NEW p \in Paths, p.parts # <<>>, Last(p.parts) # Up
    PROVE  /\ IsSheet(Join(d, p))
           /\ Dir(Join(d, p)).parts = Walk(d.abs, d.parts, Front(p.parts))
<1> DEFINE b == Walk(d.abs, d.parts, Front(p.parts))
<1>1. d \in Paths /\ d.abs \in BOOLEAN /\ d.parts \in Names /\ p.parts \in Names
    BY PathIs DEF IsClean
<1>2. /\ Front(p.parts) \in Names /\ Last(p.parts) \in Name
      /\ p.parts = Append(Front(p.parts), Last(p.parts))
    BY <1>1, Fronts
<1>3. b \in Names
    BY <1>1, <1>2, WalkType
<1>4. Walk(d.abs, d.parts, Append(Front(p.parts), Last(p.parts)))
          = Resolved(d.abs, b, Last(p.parts))
    BY <1>1, <1>2, WalkAppend
<1> HIDE DEF b
<1>5. Join(d, p).parts = Append(b, Last(p.parts)) /\ IsClean(Join(d, p))
    BY <1>1, <1>2, <1>4, JoinIs DEF Resolved
<1>6. /\ Append(b, Last(p.parts)) # <<>> /\ Last(Append(b, Last(p.parts))) = Last(p.parts)
      /\ Front(Append(b, Last(p.parts))) = b
    BY <1>2, <1>3, Appended
<1>7. IsSheet(Join(d, p))
    BY <1>5, <1>6 DEF IsSheet
<1> QED
    BY <1>5, <1>6, <1>7, DirIs DEF b

\* Where a path leads from a sheet is the same whether the sheet's name is placed first
\* or the path is joined to the name.
LEMMA JoinBeside ==
    ASSUME NEW d, IsClean(d), NEW n, IsSheet(n), ~n.abs, NEW r \in Paths
    PROVE  Join(d, Join(Dir(n), r)) = Join(Dir(Join(d, n)), r)
<1>1. /\ d \in Paths /\ d.abs \in BOOLEAN /\ d.parts \in Names
      /\ n \in Paths /\ n.abs \in BOOLEAN /\ r.parts \in Names
    BY PathIs DEF IsClean, IsSheet
<1>2. /\ Dir(n) \in Paths /\ Dir(n).abs = n.abs /\ Dir(n).parts = Front(n.parts)
      /\ Front(n.parts) \in Names
    BY DirIs DEF IsClean
<1> DEFINE q == Join(Dir(n), r)
           m == Join(d, n)
           x == Front(n.parts) \o r.parts
<1>3. x \in Names
    BY <1>1, <1>2, WalkConcat
<1>4. q \in Paths /\ q.parts = Walk(n.abs, <<>>, x)
    BY <1>2, JoinIs DEF IsClean
<1>5. /\ Join(d, q) \in Paths /\ Join(d, q).abs = d.abs
      /\ Join(d, q).parts = Walk(d.abs, d.parts, q.parts)
    BY <1>1, <1>4, JoinIs DEF IsClean
<1>6. Walk(d.abs, d.parts, Walk(n.abs, <<>>, x)) = Walk(d.abs, d.parts, x)
    BY <1>1, <1>3, WalkTwice
<1>7. Walk(d.abs, d.parts, x) = Walk(d.abs, Walk(d.abs, d.parts, Front(n.parts)), r.parts)
    BY <1>1, <1>2, WalkConcat
<1>8. IsSheet(m) /\ m.abs = d.abs /\ Dir(m).parts = Walk(d.abs, d.parts, Front(n.parts))
    BY <1>1, JoinSheet, JoinIs DEF IsSheet
<1>9. IsClean(Dir(m)) /\ Dir(m) \in Paths /\ Dir(m).abs = d.abs
    <2> HIDE DEF m
    <2> QED
        BY <1>8, DirIs DEF IsClean
<1>10. /\ Join(Dir(m), r) \in Paths /\ Join(Dir(m), r).abs = d.abs
       /\ Join(Dir(m), r).parts = Walk(d.abs, Dir(m).parts, r.parts)
    <2> HIDE DEF m
    <2> QED
        BY <1>9, JoinIs DEF IsClean
<1> HIDE DEF q, m, x
<1>11. Join(d, q) = Join(Dir(m), r)
    BY <1>4, <1>5, <1>6, <1>7, <1>8, <1>10, SamePath
<1> QED
    BY <1>11 DEF q, m

LEMMA PlaceBeside ==
    ASSUME NEW d, IsClean(d), NEW n, IsSheet(n), NEW r \in Paths
    PROVE  Place(d, Join(Dir(n), r)) = Join(Dir(Place(d, n)), r)
<1>1. n \in Paths /\ IsClean(n) /\ IsClean(Dir(n)) /\ Dir(n) \in Paths /\ Dir(n).abs = n.abs
    BY DirIs DEF IsSheet, IsClean
<1>2. IsClean(Join(Dir(n), r)) /\ Join(Dir(n), r) \in Paths /\ Join(Dir(n), r).abs = n.abs
    BY <1>1, JoinIs DEF IsClean
<1>3. CASE n.abs
    <2>1. Place(d, n) = n
        BY <1>1, <1>3, Cleaned DEF Place
    <2>2. Place(d, Join(Dir(n), r)) = Join(Dir(n), r)
        BY <1>2, <1>3, Cleaned DEF Place
    <2> QED
        BY <2>1, <2>2
<1>4. CASE ~n.abs
    BY <1>2, <1>4, JoinBeside DEF Place
<1> QED
    BY <1>3, <1>4

LEMMA SheetIs ==
    ASSUME NEW p
    PROVE  IsSheet(p) <=> NamesASheet(p) /\ p = Clean(p)
BY Cleaned DEF IsSheet, NamesASheet, IsClean

\* The bare name of the top sheet.
LEMMA BaseIs ==
    ASSUME NEW s, IsSheet(s)
    PROVE  /\ IsSheet(Base(s)) /\ ~Base(s).abs /\ Base(s).parts = <<Last(s.parts)>>
           /\ Dir(Base(s)) = Here /\ Base(s) = Clean(Base(s))
<1> DEFINE e == Last(s.parts)
           b == Base(s)
<1>1. e \in Name /\ e # Up
    BY DirIs DEF IsSheet
<1>2. b = [abs |-> FALSE, parts |-> <<e>>]
    BY DEF Base
<1> HIDE DEF e
<1>3. <<>> \in Names /\ Append(<<>>, e) = <<e>>
    BY <1>1, EmptySeq DEF Names
<1>4. <<e>> \in Names /\ Len(<<e>>) = 1 /\ <<e>>[1] = e
    BY <1>1, <1>3 DEF Names
<1>5. b \in Paths /\ ~b.abs /\ b.parts = <<e>>
    BY <1>2, <1>4 DEF Paths, Names
<1>6. Last(<<e>>) = e /\ Front(<<e>>) = <<>> /\ <<e>> # <<>>
    <2>1. /\ Last(Append(<<>>, e)) = e /\ Front(Append(<<>>, e)) = <<>>
          /\ Append(<<>>, e) # <<>>
        BY <1>1, <1>3, Appended
    <2> QED
        BY <1>3, <2>1
<1>7. Settled(b.abs, <<e>>)
    BY <1>1, <1>4 DEF Settled
<1>8. IsSheet(b)
    BY <1>1, <1>5, <1>6, <1>7 DEF IsSheet, IsClean
<1>9. Dir(b) = Here
    <2>1. b.abs = Here.abs /\ Here.parts = <<>> /\ Here \in Paths
        BY <1>2, <1>3 DEF Here, Paths, Names
    <2>2. Dir(b) \in Paths /\ Dir(b).abs = b.abs /\ Dir(b).parts = <<>>
        BY <1>5, <1>6, <1>8, DirIs DEF IsClean
    <2> QED
        BY <2>1, <2>2, SamePath
<1> QED
    BY <1>5, <1>8, <1>9, SheetIs DEF e

\* It is placed where its directory is, which is where the whole path places it.
LEMMA TopPlace ==
    ASSUME NEW d, IsClean(d), NEW s, IsSheet(s)
    PROVE  Join(Place(d, Dir(s)), Base(s)) = Place(d, s) /\ IsClean(Place(d, Dir(s)))
<1> DEFINE e == Last(s.parts)
           f == Front(s.parts)
           b == Base(s)
           g == Place(d, Dir(s))
<1>1. /\ IsClean(Dir(s)) /\ Dir(s).abs = s.abs /\ Dir(s).parts = f
      /\ f \in Names /\ e \in Name /\ s.parts = Append(f, e) /\ e # Up
    BY DirIs DEF IsSheet
<1>2. d \in Paths /\ d.abs \in BOOLEAN /\ d.parts \in Names /\ s \in Paths /\ s.abs \in BOOLEAN
    BY PathIs DEF IsClean, IsSheet
<1>3. b \in Paths /\ b.parts = <<e>>
    BY BaseIs DEF IsSheet, IsClean
<1>4. <<>> \in Names /\ Append(<<>>, e) = <<e>>
    BY <1>1, EmptySeq DEF Names
<1> HIDE DEF e, f, b
<1>5. ASSUME NEW h, IsClean(h) PROVE Join(h, b).parts = Append(h.parts, e)
    <2>1. h \in Paths /\ h.abs \in BOOLEAN /\ h.parts \in Names
        BY <1>5, PathIs DEF IsClean
    <2>2. Join(h, b).parts = Walk(h.abs, h.parts, <<e>>)
        BY <1>3, <1>5, <2>1, JoinIs
    <2>3. Walk(h.abs, h.parts, Append(<<>>, e)) = Resolved(h.abs, Walk(h.abs, h.parts, <<>>), e)
        BY <1>1, <1>4, <2>1, WalkAppend
    <2>4. Walk(h.abs, h.parts, <<>>) = h.parts
        BY <1>4, <2>1, WalkType
    <2> QED
        BY <1>1, <1>4, <2>2, <2>3, <2>4 DEF Resolved
<1>6. CASE s.abs
    <2>1. g = Dir(s) /\ Place(d, s) = s
        BY <1>1, <1>2, <1>6, Cleaned DEF Place, IsSheet, IsClean
    <2>2. Join(g, b).parts = s.parts /\ Join(g, b) \in Paths /\ Join(g, b).abs = s.abs
        BY <1>1, <1>3, <1>5, <2>1, JoinIs DEF IsClean
    <2>3. Join(g, b) = s
        BY <1>2, <2>2, SamePath
    <2> QED
        BY <1>1, <2>1, <2>3 DEF b
<1>7. CASE ~s.abs
    <2>1. g = Join(d, Dir(s)) /\ Place(d, s) = Join(d, s)
        BY <1>1, <1>7 DEF Place
    <2>2. IsClean(g) /\ g.abs = d.abs /\ g.parts = Walk(d.abs, d.parts, f)
        BY <1>1, <1>2, <2>1, JoinIs DEF IsClean
    <2> HIDE DEF g
    <2>3. Walk(d.abs, d.parts, Append(f, e)) = Resolved(d.abs, g.parts, e)
        BY <1>1, <1>2, <2>2, WalkAppend
    <2>4. /\ Join(d, s) \in Paths /\ Join(d, s).abs = d.abs
          /\ Join(d, s).parts = Append(g.parts, e)
        BY <1>1, <1>2, <2>3, JoinIs DEF IsClean, Resolved
    <2>5. /\ Join(g, b) \in Paths /\ Join(g, b).abs = d.abs
          /\ Join(g, b).parts = Append(g.parts, e)
        BY <1>3, <1>5, <2>2, JoinIs DEF IsClean
    <2>6. Join(g, b) = Join(d, s)
        BY <2>4, <2>5, SamePath
    <2> QED
        BY <2>1, <2>2, <2>6 DEF g, b
<1> QED
    BY <1>6, <1>7

\* A path that is cleaned still ends in its name, below what the others lead to.
LEMMA CleanSheet ==
    ASSUME NEW p, NamesASheet(p)
    PROVE  /\ IsSheet(Clean(p)) /\ Clean(p).abs = p.abs
           /\ Clean(p).parts = Append(Walk(p.abs, <<>>, Front(p.parts)), Last(p.parts))
<1> DEFINE b == Walk(p.abs, <<>>, Front(p.parts))
<1>1. p \in Paths /\ p.abs \in BOOLEAN /\ p.parts \in Names /\ p.parts # <<>> /\ <<>> \in Names
    BY PathIs DEF NamesASheet
<1>2. /\ Front(p.parts) \in Names /\ Last(p.parts) \in Name /\ Last(p.parts) # Up
      /\ p.parts = Append(Front(p.parts), Last(p.parts))
    BY <1>1, Fronts DEF NamesASheet
<1>3. b \in Names
    BY <1>1, <1>2, WalkType
<1>4. Walk(p.abs, <<>>, Append(Front(p.parts), Last(p.parts)))
        = Resolved(p.abs, b, Last(p.parts))
    BY <1>1, <1>2, WalkAppend
<1> HIDE DEF b
<1>5. Clean(p).abs = p.abs /\ Clean(p).parts = Walk(p.abs, <<>>, p.parts)
    <2>1. Clean(p) = [abs |-> p.abs, parts |-> Walk(p.abs, <<>>, p.parts)]
        BY <1>1, CleanIs
    <2> QED
        BY <2>1
<1>6. Clean(p).parts = Append(b, Last(p.parts))
    BY <1>2, <1>4, <1>5 DEF Resolved
<1>7. Append(b, Last(p.parts)) # <<>> /\ Last(Append(b, Last(p.parts))) = Last(p.parts)
    BY <1>2, <1>3, Appended
<1>8. IsSheet(Clean(p))
    BY <1>1, <1>2, <1>6, <1>7, Cleaned DEF IsSheet
<1> QED
    BY <1>5, <1>6, <1>8 DEF b

\* A source may be given by any path: its directory, its name and its place are those of
\* the path cleaned.
LEMMA SourceIs ==
    ASSUME NEW s \in Sources
    PROVE  /\ IsSheet(Clean(s)) /\ IsClean(Dir(s)) /\ IsClean(Cwd) /\ Cwd.abs
           /\ Dir(s) = Dir(Clean(s)) /\ Base(s) = Base(Clean(s))
           /\ Place(Cwd, s) = Place(Cwd, Clean(s))
<1> DEFINE f == Front(s.parts)
           e == Last(s.parts)
           c == Clean(s)
           b == Walk(s.abs, <<>>, f)
           q == [s EXCEPT !.parts = f]
<1>1. NamesASheet(s) /\ s \in Paths /\ s.abs \in BOOLEAN /\ s.parts \in Names /\ s.parts # <<>>
    BY LoaderAssumption, PathIs DEF NamesASheet
<1>2. IsClean(Cwd) /\ Cwd.abs
    BY Cleaned, LoaderAssumption
<1>3. f \in Names /\ e \in Name /\ <<>> \in Names /\ b \in Names
    BY <1>1, Fronts, PathIs, WalkType
<1>4. IsSheet(c) /\ c.abs = s.abs /\ c.parts = Append(b, e) /\ c \in Paths
    BY <1>1, CleanSheet, CleanIs
<1>5. c.parts = Walk(s.abs, <<>>, s.parts)
    <2>1. c = [abs |-> s.abs, parts |-> Walk(s.abs, <<>>, s.parts)]
        BY <1>1, CleanIs
    <2> QED
        BY <2>1
<1>6. q \in Paths /\ q.abs = s.abs /\ q.parts = f
    BY <1>1, <1>3 DEF Paths, Names
<1>7. Dir(s) = Clean(q)
    BY <1>1 DEF Dir
<1>8. Last(c.parts) = e /\ Front(c.parts) = b
    BY <1>3, <1>4, Appended
<1> HIDE DEF f, e, c, b, q
<1>9. Dir(s) = Dir(c) /\ IsClean(Dir(c))
    <2>1. Clean(q) = [abs |-> q.abs, parts |-> Walk(q.abs, <<>>, q.parts)] /\ Clean(q) \in Paths
        BY <1>6, CleanIs
    <2>2. Dir(s) \in Paths /\ Dir(s).abs = s.abs /\ Dir(s).parts = b
        BY <1>6, <1>7, <2>1 DEF b
    <2>3. Dir(c) \in Paths /\ Dir(c).abs = s.abs /\ Dir(c).parts = b /\ IsClean(Dir(c))
        BY <1>4, <1>8, DirIs DEF IsClean
    <2> QED
        BY <2>2, <2>3, SamePath
<1>10. Base(s) = Base(c)
    BY <1>8 DEF Base, e
<1>11. Place(Cwd, s) = Place(Cwd, c)
    <2>1. CASE s.abs
        <3>1. Clean(c) = c
            BY <1>4, Cleaned DEF IsSheet
        <3> QED
            BY <1>4, <2>1, <3>1 DEF Place, c
    <2>2. CASE ~s.abs
        <3>1. /\ Cwd \in Paths /\ Cwd.abs \in BOOLEAN /\ Cwd.parts \in Names
            BY <1>2, PathIs DEF IsClean
        <3>2. Walk(Cwd.abs, Cwd.parts, c.parts) = Walk(Cwd.abs, Cwd.parts, s.parts)
            BY <1>1, <1>5, <2>2, <3>1, WalkTwice
        <3>3. /\ Join(Cwd, s) \in Paths /\ Join(Cwd, s).abs = Cwd.abs
              /\ Join(Cwd, s).parts = Walk(Cwd.abs, Cwd.parts, s.parts)
            BY <1>1, <1>2, <3>1, JoinIs DEF IsClean
        <3>4. /\ Join(Cwd, c) \in Paths /\ Join(Cwd, c).abs = Cwd.abs
              /\ Join(Cwd, c).parts = Walk(Cwd.abs, Cwd.parts, c.parts)
            BY <1>2, <1>4, <3>1, JoinIs DEF IsClean
        <3>5. Join(Cwd, s) = Join(Cwd, c)
            BY <3>2, <3>3, <3>4, SamePath
        <3> QED
            BY <1>4, <2>2, <3>5 DEF Place
    <2> QED
        BY <2>1, <2>2
<1> QED
    BY <1>2, <1>4, <1>9, <1>10, <1>11 DEF c

\* Either loader gives a sheet a clean name that ends in the name the reference ends in.
LEMMA TargetIsSheet ==
    ASSUME NEW u, NEW s \in Sources, NEW n, IsSheet(n), NEW r \in Refs
    PROVE  IsSheet(Target(u, Dir(s), n, r))
<1>1. r \in Paths /\ r.parts # <<>> /\ Last(r.parts) # Up /\ NamesASheet(r)
    BY LoaderAssumption DEF NamesASheet
<1>2. IsClean(Dir(s)) /\ IsClean(Dir(n))
    BY SourceIs, DirIs
<1>3. IsSheet(Join(Dir(s), r)) /\ IsSheet(Join(Dir(n), r))
    BY <1>1, <1>2, JoinSheet
<1>4. IsSheet(Clean(r))
    BY <1>1, CleanSheet
<1> QED
    BY <1>3, <1>4 DEF Target, UnconfinedTarget, FSTarget

-----------------------------------------------------------------------------
\* What Linked says of one sheet.
Link(r, c, i) ==
    /\ NamesASheet(c[i].name) /\ c[i].name = Clean(c[i].name)
    /\ \A j \in 1..(i - 1) : c[j].name # c[i].name
    /\ i > 1 =>
        /\ c[i].ref \in Refs
        /\ c[i].name = Target(r.isUnconfined, Dir(r.source), c[i - 1].name, c[i].ref)
        /\ c[i].place = PlaceOf(r.isUnconfined, Dir(r.source), c[i].name)
        /\ r.isUnconfined \/ Confined(c[i].name)

LEMMA LinkedIs ==
    Linked <=> /\ chain # <<>> => run.source \in Sources /\ chain[1] = Top
               /\ \A i \in 1..Len(chain) : Link(run, chain, i)
BY DEF Linked, Link, Root

LEMMA LinkedAfter ==
    Linked' <=> /\ chain' # <<>> => run'.source \in Sources /\ chain'[1] = Top'
                /\ \A i \in 1..Len(chain') : Link(run', chain', i)
BY DEF Linked, Link, Root

\* A link is what it is whatever comes after it.
LEMMA LinkStays ==
    ASSUME NEW r, NEW c, NEW d, NEW i \in Nat, i >= 1,
           \A j \in 1..i : d[j] = c[j], Link(r, c, i)
    PROVE  Link(r, d, i)
<1>1. \A j \in 1..(i - 1) : j \in 1..i
    OBVIOUS
<1>2. i \in 1..i /\ (i > 1 => i - 1 \in 1..i)
    OBVIOUS
<1> QED
    BY <1>1, <1>2 DEF Link

LEMMA ComputeLinks == CommandTypeOK /\ Compute => Linked'
<1> SUFFICES ASSUME CommandTypeOK, Compute PROVE Linked'
    OBVIOUS
<1>1. run' = run /\ Top' = Top /\ Root' = Root
    BY DEF Compute, Top, Root
<1>2. CASE run.source = Stdin
    <2>1. chain' = <<>> /\ Len(chain') = 0
        BY <1>2, EmptySeq DEF Compute
    <2> QED
        BY <2>1 DEF Linked
<1>3. CASE run.source # Stdin
    <2>1. PICK k \in Kinds : run \in
            [kind : {k}, fault : Faults(k), source : Sources \cup {Stdin},
             isUnconfined : BOOLEAN, sheets : 1..(IF k = "check" THEN MaxSheets ELSE 1)]
        BY DEF CommandTypeOK, Runs
    <2>2. run.source \in Sources
        BY <1>3, <2>1
    <2>3. chain' = <<Top>>
        BY <1>3 DEF Compute
    <2>4. Len(chain') = 1 /\ chain'[1] = Top
        BY <2>3
    <2>5. Top.name = Base(run.source)
        BY DEF Top
    <2>6. NamesASheet(Top.name) /\ Top.name = Clean(Top.name)
        BY <2>2, <2>5, SourceIs, BaseIs, SheetIs
    <2>7. Link(run', chain', 1)
        BY <2>4, <2>6 DEF Link
    <2> QED
        BY <1>1, <2>2, <2>4, <2>7, LinkedAfter
<1> QED
    BY <1>2, <1>3

LEMMA LoadReferenceLinks ==
    ASSUME OnAChain, Linked, NEW r \in Refs, LoadReference(r)
    PROVE  Linked'
<1> DEFINE n == Len(chain)
           t == Named(r)
           x == [name |-> t, ref |-> r, place |-> PlaceOf(run.isUnconfined, Root, t)]
<1>1. run' = run /\ chain' = Append(chain, x) /\ chain # <<>>
      /\ Opens(run.isUnconfined, Root, t) /\ \A i \in DOMAIN chain : chain[i].name # t
    BY DEF LoadReference
<1>2. PICK S : chain \in Seq(S)
    BY DEF OnAChain
<1>3. chain \in Seq(S \cup {x}) /\ x \in S \cup {x}
    BY <1>2
<1> HIDE DEF x
<1>4. /\ n \in Nat \ {0} /\ DOMAIN chain = 1..n /\ Len(chain') = n + 1
      /\ chain'[n + 1] = x /\ \A j \in 1..n : chain'[j] = chain[j]
    <2>1. Len(chain) \in Nat \ {0} /\ DOMAIN chain = 1..Len(chain)
        BY <1>1, <1>3, EmptySeq, LenProperties
    <2> QED
        BY <1>1, <1>3, <2>1, AppendProperties
<1>5. run.source \in Sources /\ chain[1] = Top /\ \A i \in 1..n : Link(run, chain, i)
    BY <1>1, LinkedIs
<1>6. Root' = Root /\ Top' = Top
    BY <1>1 DEF Root, Top
<1>7. \A i \in 1..n : Link(run', chain', i)
    <2> SUFFICES ASSUME NEW i \in 1..n PROVE Link(run', chain', i)
        OBVIOUS
    <2>1. i \in Nat /\ i >= 1 /\ \A j \in 1..i : j \in 1..n
        BY <1>4
    <2> QED
        BY <1>1, <1>4, <1>5, <2>1, LinkStays
<1>8. t = Target(run.isUnconfined, Root, chain[n].name, r)
    BY DEF Named, Last
<1>9. NamesASheet(t) /\ t = Clean(t)
    <2>1. n \in 1..n
        BY <1>4
    <2>2. IsSheet(chain[n].name)
        BY <1>5, <2>1, SheetIs DEF Link
    <2>3. IsSheet(t)
        BY <1>5, <1>8, <2>2, TargetIsSheet DEF Root
    <2> QED
        BY <2>3, SheetIs
<1>10. Link(run', chain', n + 1)
    <2>1. x.name = t /\ x.ref = r /\ x.place = PlaceOf(run.isUnconfined, Root, t)
        BY DEF x
    <2>2. n + 1 > 1 /\ (n + 1) - 1 = n /\ n \in 1..n
        BY <1>4
    <2>3. chain'[n] = chain[n]
        BY <1>4, <2>2
    <2>4. run.isUnconfined \/ Confined(t)
        BY <1>1 DEF Opens
    <2>5. \A j \in 1..n : chain'[j].name # t
        BY <1>1, <1>4
    <2> HIDE DEF n, t
    <2>6. /\ chain'[n + 1].name = t /\ chain'[n + 1].ref = r
          /\ chain'[n + 1].place = PlaceOf(run.isUnconfined, Root, t)
        BY <1>4, <2>1
    <2>7. \A j \in 1..((n + 1) - 1) : chain'[j].name # chain'[n + 1].name
        BY <2>2, <2>5, <2>6
    <2>8. NamesASheet(chain'[n + 1].name) /\ chain'[n + 1].name = Clean(chain'[n + 1].name)
        BY <1>9, <2>6
    <2>9. chain'[n + 1].name
            = Target(run'.isUnconfined, Dir(run'.source), chain'[(n + 1) - 1].name, r)
        BY <1>1, <1>8, <2>2, <2>3, <2>6 DEF Root
    <2>10. /\ chain'[n + 1].place
                 = PlaceOf(run'.isUnconfined, Dir(run'.source), chain'[n + 1].name)
           /\ run'.isUnconfined \/ Confined(chain'[n + 1].name)
        BY <1>1, <2>4, <2>6 DEF Root
    <2> QED
        BY <2>6, <2>7, <2>8, <2>9, <2>10 DEF Link
<1>11. chain'[1] = chain[1]
    <2>1. 1 \in 1..n
        BY <1>4
    <2> QED
        BY <1>4, <2>1
<1>12. \A i \in 1..(n + 1) : i \in 1..n \/ i = n + 1
    BY <1>4
<1>13. \A i \in 1..Len(chain') : Link(run', chain', i)
    <2> HIDE DEF n
    <2> QED
        BY <1>4, <1>7, <1>10, <1>12
<1>14. run'.source \in Sources /\ chain'[1] = Top'
    BY <1>1, <1>5, <1>6, <1>11
<1> QED
    BY <1>13, <1>14, LinkedAfter

LEMMA ReturnLinks == OnAChain /\ Linked /\ Return => Linked'
<1> SUFFICES ASSUME OnAChain, Linked, Return PROVE Linked'
    OBVIOUS
<1> DEFINE n == Len(chain)
<1>1. PICK S : chain \in Seq(S)
    BY DEF OnAChain
<1>2. n \in Nat /\ n > 1 /\ run' = run /\ chain' = SubSeq(chain, 1, n - 1)
    BY <1>1, LenProperties DEF Return, Front
<1>3. \A i \in 1..(n - 1) : chain[i] \in S
    BY <1>1, <1>2, ElementOfSeq
<1>4. Len(chain') = n - 1 /\ \A i \in 1..(n - 1) : chain'[i] = chain[i]
    <2>1. /\ Len(SubSeq(chain, 1, n - 1)) = IF 1 <= n - 1 THEN (n - 1) - 1 + 1 ELSE 0
          /\ \A i \in 1..((n - 1) - 1 + 1) : SubSeq(chain, 1, n - 1)[i] = chain[1 + i - 1]
        BY <1>2, <1>3, SubSeqProperties
    <2>2. (n - 1) - 1 + 1 = n - 1 /\ 1 <= n - 1 /\ \A i \in 1..(n - 1) : 1 + i - 1 = i
        BY <1>2
    <2> QED
        BY <1>2, <2>1, <2>2
<1>5. chain # <<>>
    BY <1>2, EmptySeq
<1>6. run.source \in Sources /\ chain[1] = Top /\ \A i \in 1..n : Link(run, chain, i)
    BY <1>5, LinkedIs
<1>7. \A i \in 1..(n - 1) : Link(run', chain', i)
    <2> SUFFICES ASSUME NEW i \in 1..(n - 1) PROVE Link(run', chain', i)
        OBVIOUS
    <2>1. i \in Nat /\ i >= 1 /\ i \in 1..n /\ \A j \in 1..i : j \in 1..(n - 1)
        BY <1>2
    <2> QED
        BY <1>2, <1>4, <1>6, <2>1, LinkStays
<1>8. 1 \in 1..(n - 1) /\ Top' = Top
    BY <1>2 DEF Top
<1> QED
    BY <1>2, <1>4, <1>6, <1>7, <1>8, LinkedAfter

\* Where the sheets of a chain lie: a confined one where its name leads from the root.
LEMMA Placed ==
    ASSUME OnAChain, Linked, NEW i \in 1..Len(chain)
    PROVE  /\ run.source \in Sources /\ IsSheet(chain[i].name) /\ Link(run, chain, i)
           /\ ~run.isUnconfined =>
                  /\ IsClean(Place(Cwd, Root))
                  /\ chain[i].place = Place(Place(Cwd, Root), chain[i].name)
                  /\ ~chain[i].name.abs /\ Head(chain[i].name.parts) # Up
           /\ i = 1 => /\ chain[i].name = Base(run.source)
                       /\ chain[i].place = Place(Cwd, run.source)
           /\ run.isUnconfined /\ i > 1 => chain[i].place = Place(Cwd, chain[i].name)
<1>1. chain # <<>> /\ i >= 1
    <2>1. PICK S : chain \in Seq(S)
        BY DEF OnAChain
    <2>2. Len(chain) \in Nat
        BY <2>1, LenProperties
    <2> QED
        BY <2>2, EmptySeq
<1>2. run.source \in Sources /\ chain[1] = Top /\ Link(run, chain, i)
    BY <1>1, LinkedIs
<1>3. IsSheet(chain[i].name)
    BY <1>2, SheetIs DEF Link
<1>4. i = 1 => chain[i].name = Base(run.source) /\ chain[i].place = Place(Cwd, run.source)
    BY <1>2 DEF Top
<1>5. run.isUnconfined /\ i > 1 => chain[i].place = Place(Cwd, chain[i].name)
    BY <1>2 DEF Link, PlaceOf
<1>6. ASSUME ~run.isUnconfined
      PROVE  /\ IsClean(Place(Cwd, Root))
             /\ chain[i].place = Place(Place(Cwd, Root), chain[i].name)
             /\ ~chain[i].name.abs /\ Head(chain[i].name.parts) # Up
    <2> DEFINE s == Clean(run.source)
               b == Base(s)
    <2>1. /\ IsSheet(s) /\ IsClean(Cwd) /\ Dir(run.source) = Dir(s)
          /\ Base(run.source) = b /\ Place(Cwd, run.source) = Place(Cwd, s)
        BY <1>2, SourceIs
    <2> HIDE DEF s
    <2>2. Join(Place(Cwd, Dir(s)), b) = Place(Cwd, s) /\ IsClean(Place(Cwd, Dir(s)))
        BY <2>1, TopPlace
    <2>3. ~b.abs /\ b.parts = <<Last(s.parts)>> /\ Last(s.parts) # Up
        BY <2>1, BaseIs DEF IsSheet
    <2>4. Head(b.parts) # Up
        BY <2>3
    <2>5. Place(Place(Cwd, Dir(s)), b) = Place(Cwd, s)
        BY <2>2, <2>3 DEF Place
    <2>6. CASE i = 1
        BY <1>4, <2>1, <2>2, <2>3, <2>4, <2>5, <2>6 DEF Root
    <2>7. CASE i > 1
        BY <1>2, <1>6, <2>1, <2>2, <2>7 DEF Link, PlaceOf, Confined, Root
    <2> QED
        BY <1>1, <2>6, <2>7
<1> QED
    BY <1>2, <1>3, <1>4, <1>5, <1>6

LEMMA ResolvesFromLinks == OnAChain /\ Linked => ResolvesBesideReferrer
<1> SUFFICES ASSUME OnAChain, Linked, NEW i \in 2..Len(chain), ~TakenForTop(i - 1)
             PROVE  Beside(i)
    BY DEF ResolvesBesideReferrer
<1> DEFINE s == Clean(run.source)
           n == chain[i - 1].name
           p == chain[i - 1].place
           r == chain[i].ref
           t == chain[i].name
<1>1. Len(chain) \in Nat
    BY LenProperties DEF OnAChain
<1>2. i \in 1..Len(chain) /\ i - 1 \in 1..Len(chain) /\ i > 1 /\ (i - 1 > 1 \/ i - 1 = 1)
    BY <1>1
<1>3. /\ run.source \in Sources /\ IsSheet(n) /\ r \in Refs
      /\ t = Target(run.isUnconfined, Root, n, r) /\ IsSheet(t)
    BY <1>2, Placed DEF Link, Root
<1>4. /\ r \in Paths /\ NamesASheet(r) /\ IsSheet(s) /\ IsClean(Cwd) /\ Root = Dir(s)
      /\ Base(run.source) = Base(s) /\ Place(Cwd, run.source) = Place(Cwd, s)
    BY <1>3, SourceIs, LoaderAssumption DEF NamesASheet, Root
<1>5. CASE ~run.isUnconfined
    <2> DEFINE d == Place(Cwd, Root)
    <2>1. IsClean(d) /\ p = Place(d, n) /\ chain[i].place = Place(d, t)
        BY <1>2, <1>5, Placed
    <2>2. t = Join(Dir(n), r)
        BY <1>3, <1>5 DEF Target, FSTarget
    <2> HIDE DEF d
    <2>3. Place(d, Join(Dir(n), r)) = Join(Dir(Place(d, n)), r)
        BY <1>3, <1>4, <2>1, PlaceBeside
    <2> QED
        BY <1>5, <2>1, <2>2, <2>3 DEF Beside
<1>6. CASE run.isUnconfined /\ r.abs
    <2>1. t = Clean(r) /\ chain[i].place = Place(Cwd, t)
        BY <1>2, <1>3, <1>6, Placed DEF Target, UnconfinedTarget
    <2>2. Clean(r).abs /\ Clean(Clean(r)) = Clean(r)
        <3>1. Clean(r).abs = r.abs /\ Clean(r) \in Paths /\ IsClean(Clean(r))
            BY <1>4, CleanIs, Cleaned
        <3> QED
            BY <1>6, <3>1, Cleaned
    <2>3. Place(Cwd, t) = Clean(r) /\ Place(Dir(p), r) = Clean(r)
        BY <1>6, <2>1, <2>2 DEF Place
    <2> QED
        BY <1>6, <2>1, <2>3 DEF Beside
<1>7. CASE run.isUnconfined /\ ~r.abs
    <2> DEFINE dir == IF Dir(n) = Here THEN Root ELSE Dir(n)
    <2>1. t = Join(dir, r) /\ chain[i].place = Place(Cwd, t)
        BY <1>2, <1>3, <1>7, Placed DEF Target, UnconfinedTarget
    <2>2. Place(Dir(p), r) = Join(Dir(p), r)
        BY <1>7 DEF Place
    <2>3. CASE i - 1 = 1
        <3>1. n = Base(s) /\ p = Place(Cwd, s)
            BY <1>2, <1>4, <2>3, Placed
        <3>2. dir = Dir(s)
            BY <1>4, <3>1, BaseIs
        <3>3. Place(Cwd, Join(Dir(s), r)) = Join(Dir(Place(Cwd, s)), r)
            BY <1>4, PlaceBeside
        <3> QED
            BY <1>7, <2>1, <2>2, <3>1, <3>2, <3>3 DEF Beside
    <2>4. CASE i - 1 > 1
        <3>1. p = Place(Cwd, n)
            BY <1>2, <1>7, <2>4, Placed
        <3>2. dir = Dir(n)
            BY <1>7, <2>4 DEF TakenForTop
        <3>3. Place(Cwd, Join(Dir(n), r)) = Join(Dir(Place(Cwd, n)), r)
            BY <1>3, <1>4, PlaceBeside
        <3> QED
            BY <1>7, <2>1, <2>2, <3>1, <3>2, <3>3 DEF Beside
    <2> QED
        BY <1>2, <2>3, <2>4
<1> QED
    BY <1>5, <1>6, <1>7

\* Below a directory, a name without ".." is placed name by name.
LEMMA PlaceBelow ==
    ASSUME NEW d, IsClean(d), NEW q, IsSheet(q), ~q.abs, Head(q.parts) # Up
    PROVE  /\ q \in Paths /\ q.parts \in Names /\ d.parts \in Names
           /\ Place(d, q).parts = d.parts \o q.parts
<1>1. q \in Paths /\ q.parts \in Names /\ q.abs \in BOOLEAN /\ q.parts # <<>>
      /\ Settled(q.abs, q.parts) /\ d \in Paths /\ d.abs \in BOOLEAN /\ d.parts \in Names
    BY PathIs DEF IsSheet, IsClean
<1>2. q.parts[1] # Up
    BY <1>1 DEF Names
<1>3. \A j \in 1..Len(q.parts) : q.parts[j] # Up
    <2> SUFFICES ASSUME NEW j \in 1..Len(q.parts), q.parts[j] = Up PROVE FALSE
        OBVIOUS
    <2>1. 1 \in 1..j
        OBVIOUS
    <2> QED
        BY <1>1, <1>2, <2>1 DEF Settled
<1>4. Walk(d.abs, d.parts, q.parts) = d.parts \o q.parts
    BY <1>1, <1>3, WalkDown
<1>5. Place(d, q) = Join(d, q)
    BY DEF Place
<1> QED
    BY <1>1, <1>4, <1>5, JoinIs

LEMMA ConfinedFromLinks == OnAChain /\ Linked => StaysInDirectory
<1> SUFFICES ASSUME OnAChain, Linked, ~run.isUnconfined, NEW i \in DOMAIN chain
             PROVE  IsPrefix(Place(Cwd, Root).parts, chain[i].place.parts)
    BY DEF StaysInDirectory
<1> DEFINE d == Place(Cwd, Root)
           q == chain[i].name
<1>1. i \in 1..Len(chain)
    BY LenProperties DEF OnAChain
<1>2. IsClean(d) /\ IsSheet(q) /\ ~q.abs /\ Head(q.parts) # Up /\ chain[i].place = Place(d, q)
    BY <1>1, Placed
<1> HIDE DEF d, q
<1>3. d.parts \in Names /\ q.parts \in Names /\ chain[i].place.parts = d.parts \o q.parts
    BY <1>2, PlaceBelow
<1> DEFINE x == d.parts
           y == q.parts
<1>4. x \in Names /\ y \in Names
    BY <1>3
<1> HIDE DEF x, y
<1>5. Len(x) <= Len(x \o y) /\ SubSeq(x \o y, 1, Len(x)) = x
    <2>1. Len(x) \in Nat /\ Len(y) \in Nat /\ Len(x \o y) = Len(x) + Len(y)
        BY <1>4, ConcatProperties, LenProperties DEF Names
    <2>2. SubSeq(x, 1, Len(x)) = x
        BY <1>4, SubSeqFull DEF Names
    <2>3. CASE Len(x) = 0
        <3>1. x = <<>>
            BY <1>4, <2>3, EmptySeq DEF Names
        <3>2. SubSeq(x \o y, 1, Len(x)) = <<>>
            BY <2>3, SubSeqEmpty
        <3> QED
            BY <2>1, <3>1, <3>2
    <2>4. CASE Len(x) # 0
        <3>1. 1 \in 1..Len(x) /\ Len(x) \in 1..Len(x)
            BY <2>1, <2>4
        <3>2. SubSeq(x \o y, 1, Len(x)) = SubSeq(x, 1, Len(x))
            BY <1>4, <3>1, SubSeqOfConcat1 DEF Names
        <3>3. Len(x) <= Len(x) + Len(y)
            BY <2>1
        <3> QED
            BY <2>1, <2>2, <3>2, <3>3
    <2> QED
        BY <2>3, <2>4
<1>6. SubSeq(x, 1, Len(x)) = x
    BY <1>4, SubSeqFull DEF Names
<1>7. IsPrefix(x, x \o y)
    BY <1>5, <1>6 DEF IsPrefix
<1> QED
    BY <1>3, <1>7 DEF d, x, y

\* Two such names are at two places.
LEMMA OnePlace ==
    ASSUME NEW d, IsClean(d), NEW n, IsSheet(n), ~n.abs, Head(n.parts) # Up,
           NEW m, IsSheet(m), ~m.abs, Head(m.parts) # Up, Place(d, n) = Place(d, m)
    PROVE  n = m
<1>1. /\ n \in Paths /\ n.parts \in Names /\ m \in Paths /\ m.parts \in Names
      /\ d.parts \in Names /\ d.parts \o n.parts = d.parts \o m.parts
    BY PlaceBelow
<1>2. n.parts = m.parts
    BY <1>1, ConcatSimplifications DEF Names
<1>3. n.abs = m.abs
    BY <1>1, PathIs
<1> QED
    BY <1>1, <1>2, <1>3, SamePath

LEMMA OnceFromLinks == OnAChain /\ Linked => ComputesNoSheetTwice
<1> SUFFICES ASSUME OnAChain, Linked, ~run.isUnconfined,
                    NEW i \in DOMAIN chain, NEW j \in DOMAIN chain,
                    chain[i].place = chain[j].place
             PROVE  i = j
    BY DEF ComputesNoSheetTwice, IsInjective
<1>1. Len(chain) \in Nat /\ DOMAIN chain = 1..Len(chain)
    BY LenProperties DEF OnAChain
<1>2. chain[i].name = chain[j].name
    <2>1. \A k \in {i, j} :
              /\ IsSheet(chain[k].name) /\ IsClean(Place(Cwd, Root))
              /\ chain[k].place = Place(Place(Cwd, Root), chain[k].name)
              /\ ~chain[k].name.abs /\ Head(chain[k].name.parts) # Up
        BY <1>1, Placed
    <2> QED
        BY <2>1, OnePlace
<1>3. Link(run, chain, i) /\ Link(run, chain, j)
    BY <1>1, Placed
<1>4. i \in 1..(j - 1) \/ j \in 1..(i - 1) \/ i = j
    BY <1>1
<1> QED
    BY <1>2, <1>3, <1>4 DEF Link

LEMMA LinkedBegins == CommandInit => Linked
<1> SUFFICES ASSUME CommandInit PROVE Linked
    OBVIOUS
<1>1. chain = <<>> /\ Len(chain) = 0
    BY EmptySeq DEF CommandInit
<1> QED
    BY <1>1 DEF Linked

LEMMA LinkedKeeps == CommandCore /\ Linked /\ [CommandNext]_commandVars => Linked'
<1> SUFFICES ASSUME CommandCore, Linked, [CommandNext]_commandVars PROVE Linked'
    OBVIOUS
<1>1. CASE UNCHANGED <<run, chain>>
    BY <1>1 DEF Linked, Top, Root
<1>2. CASE Compute
    BY <1>2, ComputeLinks DEF CommandCore
<1>3. ASSUME NEW ref \in Refs, LoadReference(ref) PROVE Linked'
    BY <1>3, LoadReferenceLinks DEF CommandCore
<1>4. CASE Return
    BY <1>4, ReturnLinks DEF CommandCore
<1>5. CASE NextSheet
    <2>1. chain' = <<>> /\ Len(chain') = 0
        BY <1>5, EmptySeq DEF NextSheet
    <2> QED
        BY <2>1 DEF Linked
<1>6. \/ UNCHANGED <<run, chain>> \/ Compute \/ (\E ref \in Refs : LoadReference(ref))
      \/ Return \/ NextSheet
    BY DEF CommandNext, commandVars, Start, OpenSheet, ReadSheet, Decode, CheckSheet, Evaluate,
           Computed, ParseOnly, Emit, Exit, GoOn, Fails, Finish
<1> QED
    BY <1>1, <1>2, <1>3, <1>4, <1>5, <1>6

LEMMA LinkedHolds == CommandSpec => [](CommandCore /\ Linked)
BY LinkedBegins, LinkedKeeps, CommandCoreHolds, PTL DEF CommandSpec

\* "the run exits with the severest result", for any number of sheets: worseOutcome
\* over the sheets so far is the worst of them, whatever their order; and each sheet
\* that is being computed is where the sheet before it refers to.
THEOREM CommandInvariance == CommandSpec => []CommandIInv
BY LinkedHolds, ExitFromCore, AnswerFromCore, PTL DEF CommandCore, CommandIInv


\* "a reference resolves relative to the referencing sheet's own directory": for any
\* paths, and however long the chain of references, FS and Unconfined lead where the
\* reference leads from the place of the sheet that makes it, unless Unconfined takes
\* that sheet for the top one.
THEOREM ResolvesBeside == CommandSpec => []ResolvesBesideReferrer
BY LinkedHolds, ResolvesFromLinks, PTL DEF CommandCore

\* "the default confines them to it", whatever a reference says and wherever it is: the
\* names FS does not refuse, and only the top sheet's own, are below the directory.
THEOREM Confines == CommandSpec => []StaysInDirectory
BY LinkedHolds, ConfinedFromLinks, PTL DEF CommandCore

\* Names are "used for cycle detection": FS gives a place in the root one name, so no
\* sheet is computed while it is being computed, whatever refers to it in whatever words.
THEOREM ComputesOnce == CommandSpec => []ComputesNoSheetTwice
BY LinkedHolds, OnceFromLinks, PTL DEF CommandCore
-----------------------------------------------------------------------------
\* A numbering of positions up to m, and the position after m under the next number.
LEMMA NumberedNext ==
    ASSUME NEW n \in Nat, NEW m \in Nat, NEW P, P \subseteq 1..m, NEW at \in InOrder(n, P)
    PROVE  [i \in 1..(n + 1) |-> IF i = n + 1 THEN m + 1 ELSE at[i]]
             \in InOrder(n + 1, P \cup {m + 1})
<1> DEFINE N == 1..(n + 1)
           next == [i \in N |-> IF i = n + 1 THEN m + 1 ELSE at[i]]
<1>1. /\ at \in [1..n -> P] /\ \A p \in P : \E i \in 1..n : at[i] = p
      /\ \A i, j \in 1..n : i < j => at[i] < at[j]
    BY DEF InOrder
<1>2. n + 1 \in N /\ \A i \in N : i = n + 1 \/ (i \in 1..n /\ i # n + 1)
    OBVIOUS
<1>3. \A i \in 1..n : i \in N /\ i # n + 1
    OBVIOUS
<1>4. next[n + 1] = m + 1 /\ \A i \in 1..n : next[i] = at[i]
    BY <1>2, <1>3
<1>5. next \in [N -> P \cup {m + 1}]
    BY <1>1, <1>2
<1> HIDE DEF next, N
<1>6. \A p \in P \cup {m + 1} : \E i \in N : next[i] = p
    BY <1>1, <1>2, <1>3, <1>4
<1>7. ASSUME NEW i \in N, NEW j \in N, i < j PROVE next[i] < next[j]
    <2>1. i \in 1..n /\ (j \in 1..n \/ j = n + 1)
        BY <1>2, <1>7 DEF N
    <2>2. at[i] \in 1..m
        BY <1>1, <2>1
    <2> QED
        BY <1>1, <1>4, <1>7, <2>1, <2>2
<1>8. next \in [1..(n + 1) -> P \cup {m + 1}]
    BY <1>5 DEF N
<1> QED
    BY <1>6, <1>7, <1>8 DEF InOrder, next, N

\* How what is hidden is passed over: f is what is left, h where the headers land.
Keeps(E, n, hidden, headers, v, f, h) ==
    /\ \A m \in 1..n : m \notin hidden => v[m] \in E
    /\ f[0] = <<>> /\ h[0] = {}
    /\ \A m \in 1..n : m \in hidden => f[m] = f[m - 1] /\ h[m] = h[m - 1]
    /\ \A m \in 1..n : m \notin hidden =>
           /\ f[m] = Append(f[m - 1], v[m])
           /\ h[m] = h[m - 1] \cup (IF m \in headers THEN {Len(f[m - 1]) + 1} ELSE {})

\* What is left then: kept, of the first n of v, and its headers.
Leaves(kept, its, n, hidden, headers, v) ==
    \E at \in InOrder(Len(kept), (1..n) \ hidden) :
        \A i \in 1..Len(kept) : kept[i] = v[at[i]] /\ (i \in its <=> at[i] \in headers)

LEMMA Kept ==
    ASSUME NEW E, NEW n \in Nat, NEW hidden, NEW headers, NEW v, NEW f, NEW h,
           Keeps(E, n, hidden, headers, v, f, h)
    PROVE  /\ f[n] \in Seq(E) /\ h[n] \subseteq 1..Len(f[n])
           /\ Leaves(f[n], h[n], n, hidden, headers, v)
<1> USE DEF Keeps, Leaves
<1> DEFINE Is(m) ==
              /\ f[m] \in Seq(E) /\ h[m] \subseteq 1..Len(f[m])
              /\ \E at \in InOrder(Len(f[m]), (1..m) \ hidden) :
                      \A i \in 1..Len(f[m]) :
                          f[m][i] = v[at[i]] /\ (i \in h[m] <=> at[i] \in headers)
           S == {m \in 0..n : Is(m)}
<1>1. 0 \in S
    <2> DEFINE none == [i \in 1..0 |-> 0]
    <2>1. none \in InOrder(0, (1..0) \ hidden)
        BY DEF InOrder
    <2>2. f[0] \in Seq(E) /\ Len(f[0]) = 0 /\ 1..Len(f[0]) = 1..0 /\ h[0] \subseteq 1..Len(f[0])
        BY EmptySeq
    <2>3. \A i \in 1..0 : FALSE
        OBVIOUS
    <2> HIDE DEF none
    <2>4. none \in InOrder(Len(f[0]), (1..0) \ hidden) /\ \A i \in 1..Len(f[0]) : FALSE
        BY <2>1, <2>2, <2>3
    <2>5. Is(0)
        BY <2>2, <2>4
    <2>6. 0 \in 0..n
        OBVIOUS
    <2> HIDE DEF Is
    <2> QED
        BY <2>5, <2>6
<1>2. ASSUME NEW m \in 0..(n - 1), m \in S PROVE m + 1 \in S
    <2> DEFINE k == Len(f[m])
               p == m + 1
    <2>1. Is(m)
        BY <1>2
    <2>2. m \in Nat /\ p \in 1..n /\ p \in 0..n /\ p - 1 = m
        OBVIOUS
    <2>3. k \in Nat
        BY <2>1, LenProperties
    <2>4. CASE p \in hidden
        <3>1. f[p] = f[m] /\ h[p] = h[m]
            BY <2>2, <2>4
        <3>2. (1..p) \ hidden = (1..m) \ hidden
            BY <2>2, <2>4
        <3> DEFINE w == f[p]
                   g == h[p]
                   P == (1..p) \ hidden
        <3> HIDE DEF w, g, P
        <3>3. w = f[m] /\ g = h[m] /\ P = (1..m) \ hidden
            BY <3>1, <3>2 DEF w, g, P
        <3>4. /\ w \in Seq(E) /\ g \subseteq 1..Len(w)
              /\ \E at \in InOrder(Len(w), P) :
                      \A i \in 1..Len(w) : w[i] = v[at[i]] /\ (i \in g <=> at[i] \in headers)
            BY <2>1, <3>3
        <3>5. Is(p)
            BY <3>4 DEF w, g, P
        <3> HIDE DEF Is, p
        <3> QED
            BY <2>2, <3>5 DEF p
    <2>5. CASE p \notin hidden
        <3> DEFINE P == (1..m) \ hidden
                   w == f[p]
                   g == h[p]
        <3>1. w = Append(f[m], v[p]) /\ g = h[m] \cup (IF p \in headers THEN {k + 1} ELSE {})
            BY <2>2, <2>5
        <3>2. v[p] \in E
            BY <2>2, <2>5
        <3>3. w \in Seq(E) /\ Len(w) = k + 1 /\ w[k + 1] = v[p] /\ \A i \in 1..k : w[i] = f[m][i]
            BY <2>1, <3>1, <3>2, AppendProperties
        <3>4. PICK at \in InOrder(k, P) :
                  \A i \in 1..k : f[m][i] = v[at[i]] /\ (i \in h[m] <=> at[i] \in headers)
            BY <2>1
        <3> DEFINE next == [i \in 1..(k + 1) |-> IF i = k + 1 THEN p ELSE at[i]]
        <3>5. (1..p) \ hidden = P \cup {p}
            BY <2>2, <2>5
        <3>6. next \in InOrder(k + 1, P \cup {p})
            <4>1. P \subseteq 1..m
                OBVIOUS
            <4> HIDE DEF P, k
            <4> QED
                BY <2>2, <2>3, <3>4, <4>1, NumberedNext
        <3>7. next[k + 1] = p /\ \A i \in 1..k : next[i] = at[i]
            BY <2>3
        <3>8. \A i \in 1..(k + 1) : i = k + 1 \/ i \in 1..k
            BY <2>3
        <3>9. \A i \in 1..k : i \in 1..(k + 1) /\ i # k + 1
            BY <2>3
        <3>10. g \subseteq 1..(k + 1) /\ (k + 1 \in g <=> p \in headers)
               /\ \A i \in 1..k : i \in g <=> i \in h[m]
            <4>1. h[m] \subseteq 1..k /\ k + 1 \notin 1..k /\ k + 1 \in 1..(k + 1)
                BY <2>1, <2>3
            <4> HIDE DEF g, k
            <4> QED
                BY <3>1, <3>9, <4>1
        <3> HIDE DEF next, w, g, P, k
        <3>11. \A i \in 1..(k + 1) : w[i] = v[next[i]] /\ (i \in g <=> next[i] \in headers)
            BY <3>3, <3>4, <3>7, <3>8, <3>10
        <3>12. Is(p)
            BY <3>3, <3>5, <3>6, <3>10, <3>11 DEF w, g
        <3> HIDE DEF Is, p
        <3> QED
            BY <2>2, <3>12 DEF p
    <2> QED
        BY <2>4, <2>5
<1>3. n \in S
    <2>1. n \in 0..n
        OBVIOUS
    <2> HIDE DEF S
    <2>2. 0..n \subseteq S
        BY <1>1, <1>2, UpTo
    <2> QED
        BY <2>1, <2>2
<1> QED
    BY <1>3

Row == Seq(Cells)
Rows == Seq(Row)

\* The columns of a row that are not hidden, in their order.
ColumnsOf(cells, row, hidden) ==
    \E of \in InOrder(Len(cells), DOMAIN row \ hidden) :
        \A c \in 1..Len(cells) : cells[c] = row[of[c]]

IsKept(f, row, hidden) ==
    f = [c \in 0..Len(row) |->
            IF c = 0 THEN <<>>
            ELSE IF c \in hidden THEN f[c - 1] ELSE Append(f[c - 1], row[c])]

KeptOf(row, hidden) == CHOOSE f : IsKept(f, row, hidden)

LEMMA KeepColumnsIs ==
    ASSUME NEW row \in Row, NEW hidden
    PROVE  KeepColumns(row, hidden) \in Row /\ ColumnsOf(KeepColumns(row, hidden), row, hidden)
<1> DEFINE n == Len(row)
           F == [at \in (1..n) \X Row |->
                    IF at[1] \in hidden THEN at[2] ELSE Append(at[2], row[at[1]])]
           f == KeptOf(row, hidden)
<1>1. n \in Nat /\ DOMAIN row = 1..n /\ \A i \in 1..n : row[i] \in Cells
    BY LenProperties, ElementOfSeq DEF Row
<1>2. F \in [(1..n) \X Row -> Row]
    BY <1>1, AppendProperties DEF Row
<1>3. \A i \in 1..n, d \in Row :
          F[<<i, d>>] = IF i \in hidden THEN d ELSE Append(d, row[i])
    OBVIOUS
<1> HIDE DEF F, f
<1>4. <<>> \in Row
    BY EmptySeq DEF Row
<1>5. \A i \in 0..n : i = 0 \/ (i \in 1..n /\ i - 1 \in 0..n)
    BY <1>1
<1>6. IsKept(f, row, hidden)
    <2>1. PICK g \in [0..n -> Row] : g[0] = <<>> /\ \A i \in 1..n : g[i] = F[<<i, g[i - 1]>>]
        <3> HIDE DEF n
        <3>1. \E g \in [0..n -> Row] : Iterates(g, n, <<>>, F)
            BY <1>1, <1>2, <1>4, Iteration
        <3> QED
            BY <3>1 DEF Iterates
    <2>2. \A i \in 0..n : g[i] = IF i = 0 THEN <<>>
              ELSE IF i \in hidden THEN g[i - 1] ELSE Append(g[i - 1], row[i])
        <3> HIDE DEF n
        <3> QED
            BY <1>3, <1>5, <2>1
    <2>3. IsKept(g, row, hidden)
        BY <2>1, <2>2 DEF IsKept
    <2> QED
        BY <2>3 DEF f, KeptOf
<1>7. KeepColumns(row, hidden) = f[n]
    BY DEF KeepColumns, KeptOf, IsKept, f
<1>8. /\ f[0] = <<>> /\ \A m \in 1..n : m \in hidden => f[m] = f[m - 1]
      /\ \A m \in 1..n : m \notin hidden => f[m] = Append(f[m - 1], row[m])
    <2>1. \A i \in 0..n : f[i] = IF i = 0 THEN <<>>
              ELSE IF i \in hidden THEN f[i - 1] ELSE Append(f[i - 1], row[i])
        BY <1>6 DEF IsKept
    <2>2. 0 \in 0..n /\ \A i \in 1..n : i \in 0..n /\ i # 0
        BY <1>1
    <2> HIDE DEF n
    <2> QED
        BY <2>1, <2>2
<1>9. f[n] \in Row /\ \E of \in InOrder(Len(f[n]), (1..n) \ hidden) :
          \A c \in 1..Len(f[n]) : f[n][c] = row[of[c]]
    <2> DEFINE h == [m \in 0..n |-> {}]
    <2>1. h[0] = {} /\ \A m \in 1..n : h[m] = h[m - 1] /\ h[m] = {}
        BY <1>1
    <2> HIDE DEF h, n
    <2>2. \A m \in 1..n : m \in hidden => f[m] = f[m - 1] /\ h[m] = h[m - 1]
        BY <1>8, <2>1
    <2>3. \A m \in 1..n : m \notin hidden =>
              /\ f[m] = Append(f[m - 1], row[m])
              /\ h[m] = h[m - 1] \cup (IF m \in {} THEN {Len(f[m - 1]) + 1} ELSE {})
        BY <1>8, <2>1
    <2>4. \A m \in 1..n : m \notin hidden => row[m] \in Cells
        BY <1>1
    <2> DEFINE none == {}
    <2> HIDE DEF none
    <2>5. \A m \in 1..n : m \notin hidden =>
              /\ f[m] = Append(f[m - 1], row[m])
              /\ h[m] = h[m - 1] \cup (IF m \in none THEN {Len(f[m - 1]) + 1} ELSE {})
        BY <2>3 DEF none
    <2>6. f[0] = <<>> /\ h[0] = {} /\ n \in Nat
        BY <1>1, <1>8, <2>1
    <2>7. f[n] \in Seq(Cells) /\ Leaves(f[n], h[n], n, hidden, none, row)
        <3>1. Keeps(Cells, n, hidden, none, row, f, h)
            BY <2>2, <2>4, <2>5, <2>6 DEF Keeps
        <3> QED
            BY <2>6, <3>1, Kept
    <2> QED
        BY <2>7 DEF Row, Leaves
<1> QED
    BY <1>1, <1>7, <1>9 DEF ColumnsOf

Seen == [grid : Rows, headerRows : SUBSET Nat]
Visible(grid, view) == [at \in DOMAIN grid |-> KeepColumns(grid[at], view.hiddenCols)]

IsDropped(f, grid, view) ==
    f = [at \in 0..Len(grid) |->
            IF at = 0 THEN [grid |-> <<>>, headerRows |-> {}]
            ELSE IF at \in view.hiddenRows THEN f[at - 1]
            ELSE [grid |-> Append(f[at - 1].grid, KeepColumns(grid[at], view.hiddenCols)),
                  headerRows |-> f[at - 1].headerRows \cup
                      (IF at \in view.headerRows THEN {Lands(f[at - 1], at)} ELSE {})]]

DroppedOf(grid, view) == CHOOSE f : IsDropped(f, grid, view)

LEMMA DropHiddenIs ==
    ASSUME NEW grid \in Rows, NEW view
    PROVE  LET seen == DropHidden(grid, view)
           IN  /\ seen.grid \in Rows /\ seen.headerRows \subseteq 1..Len(seen.grid)
               /\ Leaves(seen.grid, seen.headerRows, Len(grid),
                         view.hiddenRows, view.headerRows, Visible(grid, view))
<1> DEFINE n == Len(grid)
           hidden == view.hiddenRows
           headers == view.headerRows
           v == Visible(grid, view)
           Nothing == [grid |-> <<>>, headerRows |-> {}]
           After(d, at) == [grid |-> Append(d.grid, v[at]),
               headerRows |-> d.headerRows \cup (IF at \in headers THEN {Lands(d, at)} ELSE {})]
           F == [x \in (1..n) \X Seen |-> IF x[1] \in hidden THEN x[2] ELSE After(x[2], x[1])]
           f == DroppedOf(grid, view)
<1>1. n \in Nat /\ DOMAIN grid = 1..n /\ \A i \in 1..n : grid[i] \in Row
    BY LenProperties, ElementOfSeq DEF Rows
<1>2. \A i \in 1..n : v[i] = KeepColumns(grid[i], view.hiddenCols) /\ v[i] \in Row
    <2> SUFFICES ASSUME NEW i \in 1..n
                 PROVE  v[i] = KeepColumns(grid[i], view.hiddenCols) /\ v[i] \in Row
        OBVIOUS
    <2>1. grid[i] \in Row /\ i \in DOMAIN grid
        BY <1>1
    <2> QED
        BY <2>1, KeepColumnsIs DEF Visible
<1> HIDE DEF v
<1>3. \A d \in Seen, i \in 1..n : After(d, i) \in Seen
    <2> SUFFICES ASSUME NEW d \in Seen, NEW i \in 1..n PROVE After(d, i) \in Seen
        OBVIOUS
    <2>1. d.grid \in Rows /\ d.headerRows \subseteq Nat /\ Len(d.grid) \in Nat
        BY LenProperties DEF Seen, Rows
    <2>2. Append(d.grid, v[i]) \in Rows
        BY <1>2, <2>1, AppendProperties DEF Rows
    <2>3. d.headerRows \cup (IF i \in headers THEN {Lands(d, i)} ELSE {}) \subseteq Nat
        BY <2>1 DEF Lands
    <2> QED
        BY <2>2, <2>3 DEF Seen
<1>4. Nothing \in Seen
    BY EmptySeq DEF Seen, Rows
<1> HIDE DEF After, Nothing
<1>5. F \in [(1..n) \X Seen -> Seen]
    BY <1>3
<1>6. \A i \in 1..n, d \in Seen : F[<<i, d>>] = IF i \in hidden THEN d ELSE After(d, i)
    OBVIOUS
<1> HIDE DEF F, f
<1>7. \A i \in 0..n : i = 0 \/ (i \in 1..n /\ i - 1 \in 0..n)
    BY <1>1
<1>8. \A i \in 1..n : i \in 0..n /\ i # 0
    BY <1>1
<1>9. PICK g \in [0..n -> Seen] : g[0] = Nothing /\ \A i \in 1..n : g[i] = F[<<i, g[i - 1]>>]
    <2>1. n \in Nat /\ Nothing \in Seen /\ F \in [(1..n) \X Seen -> Seen]
        BY <1>1, <1>4, <1>5
    <2> HIDE DEF n
    <2>2. \E g \in [0..n -> Seen] : Iterates(g, n, Nothing, F)
        BY <2>1, Iteration
    <2> QED
        BY <2>2 DEF Iterates
<1>10. IsDropped(g, grid, view)
    <2>1. \A i \in 0..n : g[i] =
              IF i = 0 THEN Nothing ELSE IF i \in hidden THEN g[i - 1] ELSE After(g[i - 1], i)
        <3> SUFFICES ASSUME NEW i \in 0..n
                     PROVE  g[i] = IF i = 0 THEN Nothing
                                ELSE IF i \in hidden THEN g[i - 1] ELSE After(g[i - 1], i)
            OBVIOUS
        <3>1. CASE i = 0
            BY <1>9, <3>1
        <3>2. CASE i # 0
            <4>1. i \in 1..n /\ i - 1 \in 0..n
                BY <1>7, <3>2
            <4> HIDE DEF n, hidden
            <4>2. g[i - 1] \in Seen
                BY <1>9, <4>1
            <4> QED
                BY <1>6, <1>9, <3>2, <4>1, <4>2
        <3> QED
            BY <3>1, <3>2
    <2>2. \A i \in 1..n : After(g[i - 1], i) =
              [grid |-> Append(g[i - 1].grid, KeepColumns(grid[i], view.hiddenCols)),
               headerRows |-> g[i - 1].headerRows \cup
                   (IF i \in view.headerRows THEN {Lands(g[i - 1], i)} ELSE {})]
        BY <1>2 DEF After
    <2> QED
        BY <1>7, <1>9, <2>1, <2>2 DEF IsDropped, Nothing
<1>11. IsDropped(f, grid, view)
    BY <1>10 DEF f, DroppedOf
<1>12. DropHidden(grid, view) = f[n]
    BY DEF DropHidden, DroppedOf, IsDropped, f
<1>13. f[0] = Nothing /\ \A i \in 1..n : f[i] = IF i \in hidden THEN f[i - 1] ELSE After(f[i - 1], i)
    <2>1. \A i \in 0..n : f[i] = IF i = 0 THEN Nothing
              ELSE IF i \in hidden THEN f[i - 1]
              ELSE [grid |-> Append(f[i - 1].grid, KeepColumns(grid[i], view.hiddenCols)),
                    headerRows |-> f[i - 1].headerRows \cup
                        (IF i \in view.headerRows THEN {Lands(f[i - 1], i)} ELSE {})]
        BY <1>11 DEF IsDropped, Nothing
    <2>2. 0 \in 0..n
        BY <1>1
    <2> HIDE DEF n
    <2> QED
        BY <1>2, <1>8, <2>1, <2>2 DEF After
<1>14. Keeps(Row, n, hidden, headers, v, [i \in 0..n |-> f[i].grid],
        [i \in 0..n |-> f[i].headerRows])
    <2> DEFINE kept == [i \in 0..n |-> f[i].grid]
               its == [i \in 0..n |-> f[i].headerRows]
    <2>1. \A i \in 0..n : kept[i] = f[i].grid /\ its[i] = f[i].headerRows
        OBVIOUS
    <2>2. 0 \in 0..n /\ \A i \in 1..n : i - 1 \in 0..n
        BY <1>1
    <2> HIDE DEF kept, its, n
    <2>3. kept[0] = <<>> /\ its[0] = {}
        BY <1>13, <2>1, <2>2 DEF Nothing
    <2>4. \A i \in 1..n : i \in hidden => kept[i] = kept[i - 1] /\ its[i] = its[i - 1]
        BY <1>8, <1>13, <2>1, <2>2
    <2>5. \A i \in 1..n : i \notin hidden =>
              /\ kept[i] = Append(kept[i - 1], v[i])
              /\ its[i] = its[i - 1] \cup (IF i \in headers THEN {Len(kept[i - 1]) + 1} ELSE {})
        <3> SUFFICES ASSUME NEW i \in 1..n, i \notin hidden
                     PROVE  /\ kept[i] = Append(kept[i - 1], v[i])
                            /\ its[i] = its[i - 1] \cup
                                   (IF i \in headers THEN {Len(kept[i - 1]) + 1} ELSE {})
            OBVIOUS
        <3>1. f[i] = After(f[i - 1], i)
            BY <1>13
        <3>2. kept[i - 1] = f[i - 1].grid /\ its[i - 1] = f[i - 1].headerRows
            BY <2>1, <2>2
        <3>3. kept[i] = f[i].grid /\ its[i] = f[i].headerRows
            BY <1>8, <2>1
        <3> QED
            BY <3>1, <3>2, <3>3 DEF After, Lands
    <2>6. \A i \in 1..n : i \notin hidden => v[i] \in Row
        BY <1>2
    <2>7. Keeps(Row, n, hidden, headers, v, kept, its)
        BY <2>3, <2>4, <2>5, <2>6 DEF Keeps
    <2> QED
        BY <2>7 DEF kept, its
<1>15. f[n].grid \in Seq(Row) /\ f[n].headerRows \subseteq 1..Len(f[n].grid)
       /\ Leaves(f[n].grid, f[n].headerRows, n, hidden, headers, v)
    <2> DEFINE kept == [i \in 0..n |-> f[i].grid]
               its == [i \in 0..n |-> f[i].headerRows]
    <2>1. n \in 0..n
        BY <1>1
    <2>2. kept[n] = f[n].grid /\ its[n] = f[n].headerRows
        BY <2>1
    <2>3. Keeps(Row, n, hidden, headers, v, kept, its)
        BY <1>14
    <2> HIDE DEF kept, its, n, hidden, headers
    <2>4. kept[n] \in Seq(Row) /\ its[n] \subseteq 1..Len(kept[n])
          /\ Leaves(kept[n], its[n], n, hidden, headers, v)
        BY <1>1, <2>3, Kept
    <2> QED
        BY <2>2, <2>4
<1> QED
    BY <1>12, <1>15 DEF Rows, v

\* Nothing hidden, every position has its own number.
LEMMA AllInOrder ==
    ASSUME NEW n \in Nat
    PROVE  [i \in 1..n |-> i] \in InOrder(n, (1..n) \ {})
BY DEF InOrder

HiddenBy(policy, declared) == IF policy = "drop" THEN declared ELSE {}

\* What project leaves of a grid: its rows and columns in order, and its headers.
Shown(seen, grid, view, policy) ==
    /\ seen.grid \in Rows /\ seen.headerRows \subseteq 1..Len(seen.grid)
    /\ \E at \in InOrder(Len(seen.grid), DOMAIN grid \ HiddenBy(policy, view.hiddenRows)) :
        \A i \in 1..Len(seen.grid) :
            /\ i \in seen.headerRows <=> at[i] \in view.headerRows
            /\ ColumnsOf(seen.grid[i], grid[at[i]], HiddenBy(policy, view.hiddenCols))

LEMMA ProjectIs ==
    ASSUME NEW grid \in Rows, NEW view, view.headerRows \subseteq DOMAIN grid,
    NEW policy \in Policies
    PROVE  Shown(Project(grid, view, policy), grid, view, policy)
<1> DEFINE n == Len(grid)
<1>1. n \in Nat /\ DOMAIN grid = 1..n /\ \A i \in 1..n : grid[i] \in Row
    BY LenProperties, ElementOfSeq DEF Rows
<1>2. CASE policy = "keep"
    <2> DEFINE seen == [grid |-> grid, headerRows |-> view.headerRows]
               at == [i \in 1..n |-> i]
    <2>1. Project(grid, view, policy) = seen /\ \A d : HiddenBy(policy, d) = {}
        BY <1>2 DEF Project, HiddenBy
    <2>2. at \in InOrder(n, (1..n) \ {}) /\ \A i \in 1..n : at[i] = i
        BY <1>1, AllInOrder
    <2>3. \A i \in 1..n : ColumnsOf(grid[i], grid[i], {})
        <3> SUFFICES ASSUME NEW i \in 1..n PROVE ColumnsOf(grid[i], grid[i], {})
            OBVIOUS
        <3> DEFINE row == grid[i]
                   m == Len(row)
                   of == [c \in 1..m |-> c]
        <3>1. m \in Nat /\ DOMAIN row = 1..m
            BY <1>1, LenProperties DEF Row
        <3>2. of \in InOrder(m, (1..m) \ {}) /\ \A c \in 1..m : of[c] = c
            BY <3>1, AllInOrder
        <3> HIDE DEF of, row
        <3>3. /\ of \in InOrder(Len(row), DOMAIN row \ {})
              /\ \A c \in 1..Len(row) : row[c] = row[of[c]]
            BY <3>1, <3>2
        <3> QED
            BY <3>3 DEF ColumnsOf, row
    <2> HIDE DEF at
    <2>4. \A i \in 1..n : (i \in view.headerRows <=> at[i] \in view.headerRows)
                          /\ ColumnsOf(grid[i], grid[at[i]], {})
        BY <2>2, <2>3
    <2>5. at \in InOrder(Len(grid), DOMAIN grid \ {})
        BY <1>1, <2>2
    <2>6. Shown(seen, grid, view, policy)
        BY <1>1, <2>1, <2>4, <2>5 DEF Shown
    <2> QED
        BY <2>1, <2>6
<1>3. CASE policy = "drop"
    <2> DEFINE seen == DropHidden(grid, view)
               hidden == view.hiddenRows
    <2>1. Project(grid, view, policy) = seen /\ \A d : HiddenBy(policy, d) = d
        BY <1>3 DEF Project, HiddenBy
    <2>2. /\ seen.grid \in Rows /\ seen.headerRows \subseteq 1..Len(seen.grid)
          /\ Leaves(seen.grid, seen.headerRows, n, hidden, view.headerRows, Visible(grid, view))
        BY DropHiddenIs
    <2> HIDE DEF seen
    <2>3. PICK at \in InOrder(Len(seen.grid), (1..n) \ hidden) :
              \A i \in 1..Len(seen.grid) :
                  /\ seen.grid[i] = Visible(grid, view)[at[i]]
                  /\ i \in seen.headerRows <=> at[i] \in view.headerRows
        BY <2>2 DEF Leaves
    <2>4. \A i \in 1..Len(seen.grid) : at[i] \in 1..n
        BY <2>3 DEF InOrder
    <2>5. \A j \in 1..n : ColumnsOf(Visible(grid, view)[j], grid[j], view.hiddenCols)
        BY <1>1, KeepColumnsIs DEF Visible
    <2>6. \A i \in 1..Len(seen.grid) : ColumnsOf(seen.grid[i], grid[at[i]], view.hiddenCols)
        BY <2>3, <2>4, <2>5
    <2>7. /\ HiddenBy(policy, view.hiddenRows) = view.hiddenRows
          /\ HiddenBy(policy, view.hiddenCols) = view.hiddenCols
        BY <2>1
    <2>8. at \in InOrder(Len(seen.grid), DOMAIN grid \ HiddenBy(policy, view.hiddenRows))
        BY <1>1, <2>3, <2>7
    <2>9. \A i \in 1..Len(seen.grid) :
              /\ i \in seen.headerRows <=> at[i] \in view.headerRows
              /\ ColumnsOf(seen.grid[i], grid[at[i]], HiddenBy(policy, view.hiddenCols))
        BY <2>3, <2>6, <2>7
    <2>10. Shown(seen, grid, view, policy)
        BY <2>2, <2>8, <2>9 DEF Shown
    <2> QED
        BY <2>1, <2>10
<1> QED
    BY <1>2, <1>3 DEF Policies

\* The headers at the top are a block, whatever there are.
LEMMA LeadingIs ==
    ASSUME NEW seen, seen.grid \in Rows, seen.headerRows \subseteq 1..Len(seen.grid)
    PROVE  LET n == LeadingHeaderRows(seen)
           IN  n \in 0..Len(seen.grid) /\ 1..n \subseteq seen.headerRows /\ n + 1 \notin seen.headerRows
<1> DEFINE N == Len(seen.grid)
           H == seen.headerRows
           S == {m \in Nat : 1..m \subseteq H}
<1>1. N \in Nat /\ H \subseteq 1..N
    BY LenProperties DEF Rows
<1>2. ASSUME \A n \in 0..N : ~(1..n \subseteq H /\ n + 1 \notin H) PROVE FALSE
    <2>1. 0 \in S /\ N + 1 \in Nat /\ (N + 1) - 1 = N /\ N + 1 \in 0..(N + 1)
        BY <1>1
    <2>2. ASSUME NEW m \in 0..N, m \in S PROVE m + 1 \in S
        <3>1. m + 1 \in H /\ m + 1 \in Nat
            BY <1>2, <2>2
        <3>2. \A i \in 1..(m + 1) : i \in 1..m \/ i = m + 1
            OBVIOUS
        <3> HIDE DEF H
        <3> QED
            BY <2>2, <3>1, <3>2
    <2> HIDE DEF S, N
    <2>3. 0..(N + 1) \subseteq S
        BY <2>1, <2>2, UpTo
    <2>4. N + 1 \in H
        <3>1. N + 1 \in S /\ N + 1 \in 1..(N + 1)
            BY <1>1, <2>1, <2>3
        <3> HIDE DEF H
        <3> QED
            BY <3>1 DEF S
    <2> QED
        BY <1>1, <2>4
<1>3. \E n \in 0..N : 1..n \subseteq H /\ n + 1 \notin H
    BY <1>2
<1> QED
    BY <1>3 DEF LeadingHeaderRows

LEMMA HTMLIs ==
    ASSUME NEW seen, seen.grid \in Rows, seen.headerRows \subseteq 1..Len(seen.grid)
    PROVE  LET head == HTML(seen).head
               rows == head \o HTML(seen).body
               n == Len(seen.grid)
           IN  /\ Len(rows) = n /\ DOMAIN rows = 1..n
               /\ \A i \in 1..n :
                    rows[i].cells = seen.grid[i] /\ (rows[i].isHeader = (i \in seen.headerRows))
               /\ Len(head) \in 0..n /\ 1..Len(head) \subseteq seen.headerRows
               /\ Len(head) + 1 \notin seen.headerRows
<1> DEFINE n == Len(seen.grid)
           H == seen.headerRows
           rows == [i \in DOMAIN seen.grid |-> [cells |-> seen.grid[i], isHeader |-> i \in H]]
           X == [cells : Row, isHeader : BOOLEAN]
           k == LeadingHeaderRows(seen)
<1>1. n \in Nat /\ DOMAIN seen.grid = 1..n /\ \A i \in 1..n : seen.grid[i] \in Row
    BY LenProperties, ElementOfSeq DEF Rows
<1>2. k \in 0..n /\ 1..k \subseteq H /\ k + 1 \notin H
    BY LeadingIs
<1>3. \A i \in 1..n : /\ rows[i] \in X /\ rows[i].cells = seen.grid[i]
                      /\ rows[i].isHeader = (i \in H)
    BY <1>1
<1>4. rows \in Seq(X) /\ Len(rows) = n /\ DOMAIN rows = 1..n
    <2>1. rows = [i \in 1..n |-> rows[i]]
        BY <1>1
    <2>2. \A i \in 1..n : rows[i] \in X
        BY <1>3
    <2> HIDE DEF rows, X, n
    <2> QED
        BY <1>1, <2>1, <2>2, IsASeq, LenProperties
<1>5. HTML(seen).head = SubSeq(rows, 1, k) /\ HTML(seen).body = SubSeq(rows, k + 1, n)
    BY <1>4 DEF HTML
<1> HIDE DEF rows, X, k, n, H
<1>6. SubSeq(rows, 1, k) \o SubSeq(rows, k + 1, n) = rows
    <2>1. 1 \in 1..(Len(rows) + 1) /\ k \in (1 - 1)..Len(rows) /\ n \in k..Len(rows)
        BY <1>1, <1>2, <1>4
    <2>2. SubSeq(rows, 1, k) \o SubSeq(rows, k + 1, n) = SubSeq(rows, 1, n)
        BY <1>4, <2>1, ConcatAdjacentSubSeq
    <2>3. SubSeq(rows, 1, n) = rows
        BY <1>4, SubSeqFull
    <2> QED
        BY <2>2, <2>3
<1>7. Len(SubSeq(rows, 1, k)) = k
    <2>1. \A i \in 1..k : rows[i] \in X
        BY <1>1, <1>2, <1>3
    <2> QED
        BY <1>1, <1>2, <2>1, SubSeqProperties
<1> DEFINE head == HTML(seen).head
           all == head \o HTML(seen).body
<1>8. head = SubSeq(rows, 1, k) /\ all = rows
    BY <1>5, <1>6
<1> HIDE DEF head, all
<1>9. /\ Len(all) = n /\ DOMAIN all = 1..n
      /\ \A i \in 1..n : all[i].cells = seen.grid[i] /\ (all[i].isHeader = (i \in H))
    BY <1>3, <1>4, <1>8
<1>10. Len(head) \in 0..n /\ 1..Len(head) \subseteq H /\ Len(head) + 1 \notin H
    BY <1>2, <1>7, <1>8
<1> QED
    BY <1>9, <1>10 DEF n, H, head, all

\* Whatever is printed, some grid was computed to it under some policy.
Rendered ==
    printed = None \/ \E computed \in Computeds, policy \in Policies :
        printed = [computed |-> computed, policy |-> policy,
                   table |-> HTML(Project(computed.grid, computed.view, policy))]

\* What PrintsProjection says of the rows printed, and of those of them in the thead.
RowPrinted(row, from, isHeader, hidden) ==
    /\ row.isHeader = isHeader
    /\ \E of \in InOrder(Len(row.cells), DOMAIN from \ hidden) :
           \A c \in DOMAIN row.cells : row.cells[c] = from[of[c]]

RowsPrinted(head, rows, grid, view, policy) ==
    /\ \E at \in InOrder(Len(rows), DOMAIN grid \ HiddenBy(policy, view.hiddenRows)) :
           \A i \in DOMAIN rows :
               RowPrinted(rows[i], grid[at[i]], at[i] \in view.headerRows,
                          HiddenBy(policy, view.hiddenCols))
    /\ \A i \in DOMAIN rows : i <= Len(head) => rows[i].isHeader
    /\ Len(head) < Len(rows) => ~rows[Len(head) + 1].isHeader

LEMMA PrintsProjectionIs ==
    PrintsProjection <=>
        (printed # None =>
             RowsPrinted(printed.table.head, printed.table.head \o printed.table.body,
                         printed.computed.grid, printed.computed.view, printed.policy))
BY DEF PrintsProjection, RowsPrinted, RowPrinted, HiddenBy

LEMMA PrintsFromRendered == Rendered => PrintsProjection
<1> SUFFICES ASSUME Rendered, printed # None PROVE PrintsProjection
    BY PrintsProjectionIs
<1>1. PICK computed \in Computeds, policy \in Policies :
          printed = [computed |-> computed, policy |-> policy,
                     table |-> HTML(Project(computed.grid, computed.view, policy))]
    BY DEF Rendered
<1> DEFINE grid == computed.grid
           view == computed.view
           seen == Project(grid, view, policy)
           head == HTML(seen).head
           rows == head \o HTML(seen).body
           n == Len(seen.grid)
<1>2. grid \in Rows /\ view.headerRows \subseteq DOMAIN grid
    BY CommandAssumption DEF Rows, Row
<1>3. Shown(seen, grid, view, policy)
    BY <1>2, ProjectIs
<1> HIDE DEF seen
<1>4. seen.grid \in Rows /\ seen.headerRows \subseteq 1..n /\ n \in Nat
    BY <1>3, LenProperties DEF Shown, Rows
<1>5. /\ Len(rows) = n /\ DOMAIN rows = 1..n
      /\ \A i \in 1..n : rows[i].cells = seen.grid[i] /\ (rows[i].isHeader = (i \in seen.headerRows))
      /\ Len(head) \in 0..n /\ 1..Len(head) \subseteq seen.headerRows
      /\ Len(head) + 1 \notin seen.headerRows
    BY <1>4, HTMLIs
<1>6. /\ printed.computed.grid = grid /\ printed.computed.view = view /\ printed.policy = policy
      /\ printed.table.head = head /\ printed.table.body = HTML(seen).body
    BY <1>1 DEF seen
<1> HIDE DEF rows, head, n, grid, view
<1>7. PICK at \in InOrder(n, DOMAIN grid \ HiddenBy(policy, view.hiddenRows)) :
          \A i \in 1..n :
              /\ i \in seen.headerRows <=> at[i] \in view.headerRows
              /\ ColumnsOf(seen.grid[i], grid[at[i]], HiddenBy(policy, view.hiddenCols))
    BY <1>3 DEF Shown, n
<1>8. ASSUME NEW i \in 1..n
      PROVE  RowPrinted(rows[i], grid[at[i]], at[i] \in view.headerRows,
                        HiddenBy(policy, view.hiddenCols))
    <2> DEFINE cells == seen.grid[i]
    <2>1. rows[i].cells = cells /\ rows[i].isHeader = (i \in seen.headerRows)
        BY <1>5
    <2>2. cells \in Row /\ DOMAIN cells = 1..Len(cells)
        <3>1. cells \in Row
            BY <1>4, ElementOfSeq DEF Rows, n
        <3> QED
            BY <3>1, LenProperties DEF Row
    <2>3. /\ i \in seen.headerRows <=> at[i] \in view.headerRows
          /\ ColumnsOf(cells, grid[at[i]], HiddenBy(policy, view.hiddenCols))
        BY <1>7
    <2> HIDE DEF cells
    <2>4. rows[i].isHeader = (at[i] \in view.headerRows)
        BY <2>1, <2>3
    <2>5. \E of \in InOrder(Len(cells),
                            DOMAIN grid[at[i]] \ HiddenBy(policy, view.hiddenCols)) :
              \A c \in DOMAIN cells : cells[c] = grid[at[i]][of[c]]
        BY <2>2, <2>3 DEF ColumnsOf
    <2> QED
        BY <2>1, <2>4, <2>5 DEF RowPrinted
<1>9. \A i \in DOMAIN rows : i <= Len(head) => rows[i].isHeader
    <2> SUFFICES ASSUME NEW i \in 1..n, i <= Len(head) PROVE rows[i].isHeader
        BY <1>5
    <2>1. i \in 1..Len(head)
        BY <1>4, <1>5
    <2>2. i \in seen.headerRows
        BY <1>5, <2>1
    <2> QED
        BY <1>5, <2>2
<1>10. Len(head) < Len(rows) => ~rows[Len(head) + 1].isHeader
    <2> SUFFICES ASSUME Len(head) < n PROVE ~rows[Len(head) + 1].isHeader
        BY <1>5
    <2>1. Len(head) + 1 \in 1..n
        BY <1>4, <1>5
    <2> QED
        BY <1>5, <2>1
<1>11. RowsPrinted(head, rows, grid, view, policy)
    BY <1>5, <1>7, <1>8, <1>9, <1>10 DEF RowsPrinted
<1> QED
    BY <1>6, <1>11, PrintsProjectionIs DEF rows

LEMMA RenderedKeeps == Rendered /\ [CommandNext]_commandVars => Rendered'
<1> SUFFICES ASSUME Rendered, [CommandNext]_commandVars PROVE Rendered'
    OBVIOUS
<1>1. CASE UNCHANGED printed
    BY <1>1 DEF Rendered
<1>2. CASE WriteGrid
    BY <1>1, <1>2 DEF Rendered, WriteGrid
<1>3. UNCHANGED printed \/ WriteGrid
    BY DEF CommandNext, commandVars, Start, OpenSheet, ReadSheet, Decode, CheckSheet,
       Evaluate, Compute,
           LoadReference, Return, Computed, ParseOnly, Emit, NextSheet, Exit, GoOn, Fails
<1> QED
    BY <1>1, <1>2, <1>3

\* What render prints is what its view leaves of the grid, in order, headers and all.
THEOREM PrintsWhole == CommandSpec => []PrintsProjection
<1>1. CommandInit => Rendered
    BY DEF CommandInit, Rendered
<1> QED
    BY <1>1, RenderedKeeps, PrintsFromRendered, PTL DEF CommandSpec
=============================================================================
