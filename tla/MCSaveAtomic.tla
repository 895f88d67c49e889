---------------------------- MODULE MCSaveAtomic ----------------------------
(* SaveAtomic with goroutines s1 and s2 of process p1, and s3 of process p2. *)
EXTENDS SaveAtomic, TLC

CONSTANTS p1, p2, s1, s2, s3, a, b, old, owner, group, others

MCProcessOf(s) == IF s = s3 THEN p2 ELSE p1

\* A sheet that exists, and one to be created.
MCOldSheets == {old, NoFile}

\* owner: 0600; group: 0020; others: 0044.  The sheet, when there is one, is 0664.
MCBits == {owner, group, others}
MCOldModes == {MCBits, {owner, others}}
MCPrivate == {owner}
MCUmask == {group}

MCSymmetry == Permutations({s1, s2}) \cup Permutations({a, b})
MCContentSymmetry == Permutations({a, b})
=============================================================================
