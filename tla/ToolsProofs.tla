---------------------------- MODULE ToolsProofs ----------------------------
(***************************************************************************)
(* Proofs about the tools that act: an edit of a file (ToolRuns, extended) *)
(* is atomic and needs the gate's leave, whatever the verifier says and    *)
(* whatever a patch makes of a text, and the child process of shell.run    *)
(* and git.* (Process, PR) is waited for and read to its end.              *)
(*                                                                         *)
(* For the edit the invariant says, for each place in the code, what the   *)
(* file, its shadow copy and the temporary files hold; for the process,    *)
(* that bytes are only moved, and who can still write.                     *)
(***************************************************************************)
EXTENDS ToolRuns, Integers, TLAPS

-----------------------------------------------------------------------------
(* A write_file_atomic under way *)

IsFile(f) == f = Absent \/ f = Part(f.text) \/ f = Whole(f.text)

\* The shapes of the variables, and what a temporary file holds when it is
\* about to be renamed, if its flush was not lost.
Shape ==
    /\ DOMAIN disk = Paths /\ \A p \in Paths : IsFile(disk[p])
    /\ DOMAIN write = {"path", "text", "at"}
    /\ calls \in Nat /\ applied \in Nat /\ faults \in Nat /\ outside \in Nat
    /\ lost \in BOOLEAN
    /\ pc = "shadow" => write.path = Shadow
    /\ pc \in {"target", "rollback"} => write.path = Target
    /\ Written("rename") /\ ~lost => disk[tmp(write.path)] = Whole(write.text)

\* Which tool the steps belong to, and what is written.
Purpose ==
    /\ pc \in {"check", "shadow", "rollback"} => call.tool = "file.write"
    /\ pc = "patch" => call.tool = "file.patch"
    /\ pc = "target" => call.tool \in {"file.write", "file.patch"}
    /\ pc = "other" => call.tool # "file.write"
    /\ pc = "target" /\ call.tool = "file.write" => write.text = call.content
    /\ pc = "rollback" => write.text = previous /\ had_shadow

Before == {"unknown", "verify", "gate", "check", "patch", "other", "shadow"}

\* The file while nobody else writes it: as it was when the tool began until the
\* rename of the new text, and again after the rename of the old one.
Kept ==
    outside = 0 /\ ~lost =>
        /\ pc \in Before \cup {"rollback"} => disk[Target] = base
        /\ pc = "target" =>
               disk[Target] = IF write.at = "ok" THEN Whole(write.text) ELSE base
        /\ Writing /\ call.tool = "file.write" /\ had_shadow => base = Whole(previous)

\* The other files in the first call.
Tidy ==
    /\ calls = 0 => pc = "idle" /\ result = "none"
    /\ calls = 0 \/ (calls = 1 /\ pc \in Before \ {"shadow"}) =>
           \A p \in Paths \ {Target} : disk[p] = Absent
    /\ calls = 1 /\ Writing =>
           /\ disk[tmp(IF pc = "shadow" THEN Target ELSE Shadow)] = Absent
           /\ write.at \in {"create", "ok", "bad"} => disk[tmp(write.path)] = Absent
           /\ call.tool = "file.patch" => disk[Shadow] = Absent
    /\ pc = "target" /\ write.at = "bad" => faults > 0

\* A tool that writes, or runs a command, has passed the gate.
Allowed ==
    /\ pc \in {"check", "patch", "shadow", "target", "rollback"}
           => policy_for(gate, "write") \in {"allow", "ask"}
    /\ pc = "other" /\ call.tool = "shell.run"
           => policy_for(gate, "shell") \in {"allow", "ask"}

\* Somebody else's edit is counted.
LEMMA OutsideCounts == ASSUME Shape, NEW t, Outside(t) PROVE outside' # 0
    BY DEF Shape, Outside

\* The variables keep their shapes, and what is about to be renamed is the
\* whole text.
LEMMA ShapeStep == Shape /\ [Next]_vars => Shape'
<1> SUFFICES ASSUME Shape, [Next]_vars PROVE Shape'
    OBVIOUS
<1> USE DEF Shape, IsFile, Paths, Target, Shadow, tmp, Absent, Part, Partial, Whole,
            Written, Writing, Reply, Begin, tool
<1>1. ASSUME NEW c \in Calls, run_tool(c) \/ Direct(c) PROVE Shape'
    BY <1>1 DEF run_tool, Direct
<1>2. CASE Unknown  BY <1>2 DEF Unknown
<1>3. CASE Invalid  BY <1>3 DEF Invalid
<1>4. CASE VerifyFails  BY Zenon, <1>4 DEF VerifyFails
<1>5. CASE VerifyPasses  BY <1>5 DEF VerifyPasses
<1>6. CASE Denied  BY <1>6 DEF Denied
<1>7. CASE Granted  BY <1>7 DEF Granted
<1>8. CASE Other  BY <1>8 DEF Other
<1>9. CASE CreateTmp  BY <1>9 DEF CreateTmp, fopen, Put
<1>10. CASE FillTmp  BY <1>10 DEF FillTmp, Put
<1>11. CASE Rename  BY <1>11 DEF Rename
<1>12. CASE WriteFails  BY <1>12 DEF WriteFails, Discard
<1>13. CASE RefuseWrite  BY <1>13 DEF RefuseWrite
<1>14. CASE StartNew  BY <1>14 DEF StartNew, Refused
<1>15. CASE StartShadow  BY <1>15 DEF StartShadow, Text
<1>16. CASE AfterShadow  BY <1>16 DEF AfterShadow
<1>17. CASE WriteDone  BY <1>17 DEF WriteDone, Cleared, Outcome
<1>18. CASE StartRollback  BY <1>18 DEF StartRollback
<1>19. CASE RolledBack  BY <1>19 DEF RolledBack, Cleared
<1>20. CASE PatchRejected  BY <1>20 DEF PatchRejected
<1>21. CASE PatchApplies  BY <1>21 DEF PatchApplies
<1>22. CASE Crash  BY <1>22 DEF Crash
<1>23. ASSUME NEW t \in OutsideTexts, Outside(t) PROVE Shape'
    BY <1>23 DEF Outside, Put
<1>25. CASE FlushFails
    <2> PICK n \in 0 .. Len(write.text) - 1 :
            disk' = [disk EXCEPT ![tmp(write.path)] = Part(SubSeq(write.text, 1, n))]
        BY <1>25 DEF FlushFails, Put
    <2> HIDE DEF Part
    <2>1. \A t : Part(t).text = t
        BY DEF Part
    <2>2. \A p \in Paths : IsFile(disk'[p])
        BY <2>1
    <2> QED
        BY <1>25, <2>2 DEF FlushFails
<1>26. ASSUME NEW t \in OutsideTexts, Shell(t) PROVE Shape'
    BY <1>26 DEF Shell, Put
<1>24. CASE UNCHANGED vars  BY <1>24 DEF vars
<1> QED
    BY <1>1, <1>2, <1>3, <1>4, <1>5, <1>6, <1>7, <1>8, <1>9, <1>10, <1>11, <1>12,
       <1>13, <1>14, <1>15, <1>16, <1>17, <1>18, <1>19, <1>20, <1>21, <1>22,
       <1>23, <1>24, <1>25, <1>26 DEF Next

\* A step of a write belongs to the tool that began it.
LEMMA PurposeStep == Shape /\ Purpose /\ [Next]_vars => Purpose'
<1> SUFFICES ASSUME Shape, Purpose, [Next]_vars PROVE Purpose'
    OBVIOUS
<1> USE DEF Shape, Purpose, Written, Writing, Reply, Begin, tool
<1>1. ASSUME NEW c \in Calls, run_tool(c) \/ Direct(c) PROVE Purpose'
    BY <1>1 DEF run_tool, Direct
<1>2. CASE Unknown  BY <1>2 DEF Unknown
<1>3. CASE Invalid  BY <1>3 DEF Invalid
<1>4. CASE VerifyFails  BY Zenon, <1>4 DEF VerifyFails
<1>5. CASE VerifyPasses  BY <1>5 DEF VerifyPasses
<1>6. CASE Denied  BY <1>6 DEF Denied
<1>7. CASE Granted  BY <1>7 DEF Granted
<1>8. CASE Other  BY <1>8 DEF Other
<1>9. CASE CreateTmp  BY <1>9 DEF CreateTmp, fopen, Put
<1>10. CASE FillTmp  BY <1>10 DEF FillTmp, Put
<1>11. CASE Rename  BY <1>11 DEF Rename
<1>12. CASE WriteFails  BY <1>12 DEF WriteFails, Discard
<1>13. CASE RefuseWrite  BY <1>13 DEF RefuseWrite
<1>14. CASE StartNew  BY <1>14 DEF StartNew, Refused
<1>15. CASE StartShadow  BY <1>15 DEF StartShadow, Text
<1>16. CASE AfterShadow  BY <1>16 DEF AfterShadow
<1>17. CASE WriteDone  BY <1>17 DEF WriteDone, Cleared, Outcome
<1>18. CASE StartRollback  BY <1>18 DEF StartRollback
<1>19. CASE RolledBack  BY <1>19 DEF RolledBack, Cleared
<1>20. CASE PatchRejected  BY <1>20 DEF PatchRejected
<1>21. CASE PatchApplies  BY <1>21 DEF PatchApplies
<1>22. CASE Crash  BY <1>22 DEF Crash
<1>23. ASSUME NEW t \in OutsideTexts, Outside(t) PROVE Purpose'
    BY <1>23 DEF Outside, Put
<1>25. CASE FlushFails  BY <1>25 DEF FlushFails, Put
<1>26. ASSUME NEW t \in OutsideTexts, Shell(t) PROVE Purpose'
    BY <1>26 DEF Shell, Put
<1>24. CASE UNCHANGED vars  BY <1>24 DEF vars
<1> QED
    BY <1>1, <1>2, <1>3, <1>4, <1>5, <1>6, <1>7, <1>8, <1>9, <1>10, <1>11, <1>12,
       <1>13, <1>14, <1>15, <1>16, <1>17, <1>18, <1>19, <1>20, <1>21, <1>22,
       <1>23, <1>24, <1>25, <1>26 DEF Next

\* A partial text is only ever in a temporary file.
LEMMA PartialStep == Shape /\ NeverPartial /\ [Next]_vars => NeverPartial'
<1> SUFFICES ASSUME Shape, NeverPartial, [Next]_vars PROVE NeverPartial'
    OBVIOUS
<1> USE DEF Shape, NeverPartial, Paths, Target, Shadow, tmp, Absent, Part, Partial,
            Whole, Written, Writing, Reply, Begin, tool
<1>1. ASSUME NEW c \in Calls, run_tool(c) \/ Direct(c) PROVE NeverPartial'
    BY <1>1 DEF run_tool, Direct
<1>2. CASE Unknown  BY <1>2 DEF Unknown
<1>3. CASE Invalid  BY <1>3 DEF Invalid
<1>4. CASE VerifyFails  BY Zenon, <1>4 DEF VerifyFails
<1>5. CASE VerifyPasses  BY <1>5 DEF VerifyPasses
<1>6. CASE Denied  BY <1>6 DEF Denied
<1>7. CASE Granted  BY <1>7 DEF Granted
<1>8. CASE Other  BY <1>8 DEF Other
<1>9. CASE CreateTmp  BY <1>9 DEF CreateTmp, fopen, Put
<1>10. CASE FillTmp  BY <1>10 DEF FillTmp, Put
<1>11. CASE Rename  BY <1>11 DEF Rename
<1>12. CASE WriteFails  BY <1>12 DEF WriteFails, Discard
<1>13. CASE RefuseWrite  BY <1>13 DEF RefuseWrite
<1>14. CASE StartNew  BY <1>14 DEF StartNew, Refused
<1>15. CASE StartShadow  BY <1>15 DEF StartShadow, Text
<1>16. CASE AfterShadow  BY <1>16 DEF AfterShadow
<1>17. CASE WriteDone  BY <1>17 DEF WriteDone, Cleared, Outcome
<1>18. CASE StartRollback  BY <1>18 DEF StartRollback
<1>19. CASE RolledBack  BY <1>19 DEF RolledBack, Cleared
<1>20. CASE PatchRejected  BY <1>20 DEF PatchRejected
<1>21. CASE PatchApplies  BY <1>21 DEF PatchApplies
<1>22. CASE Crash  BY <1>22 DEF Crash
<1>23. ASSUME NEW t \in OutsideTexts, Outside(t) PROVE NeverPartial'
    BY <1>23 DEF Outside, Put
<1>25. CASE FlushFails  BY <1>25 DEF FlushFails, Put
<1>26. ASSUME NEW t \in OutsideTexts, Shell(t) PROVE NeverPartial'
    BY <1>26 DEF Shell, Put
<1>24. CASE UNCHANGED vars  BY <1>24 DEF vars
<1> QED
    BY <1>1, <1>2, <1>3, <1>4, <1>5, <1>6, <1>7, <1>8, <1>9, <1>10, <1>11, <1>12,
       <1>13, <1>14, <1>15, <1>16, <1>17, <1>18, <1>19, <1>20, <1>21, <1>22,
       <1>23, <1>24, <1>25, <1>26 DEF Next

\* The file changes at the two renames only.
LEMMA KeptStep == Shape /\ Purpose /\ NeverPartial /\ Kept /\ [Next]_vars => Kept'
<1> SUFFICES ASSUME Shape, Purpose, NeverPartial, Kept, [Next]_vars PROVE Kept'
    OBVIOUS
<1> USE DEF Shape, IsFile, Purpose, NeverPartial, Kept, Before, Paths, Target,
            Shadow, tmp, Absent, Part, Partial, Whole, Written, Writing, Reply, Begin,
            tool
<1>1. ASSUME NEW c \in Calls, run_tool(c) \/ Direct(c) PROVE Kept'
    BY <1>1 DEF run_tool, Direct
<1>2. CASE Unknown  BY <1>2 DEF Unknown
<1>3. CASE Invalid  BY <1>3 DEF Invalid
<1>4. CASE VerifyFails  BY Zenon, <1>4 DEF VerifyFails
<1>5. CASE VerifyPasses  BY <1>5 DEF VerifyPasses
<1>6. CASE Denied  BY <1>6 DEF Denied
<1>7. CASE Granted  BY <1>7 DEF Granted
<1>8. CASE Other  BY <1>8 DEF Other
<1>9. CASE CreateTmp  BY <1>9 DEF CreateTmp, fopen, Put
<1>10. CASE FillTmp  BY <1>10 DEF FillTmp, Put
<1>11. CASE Rename  BY <1>11 DEF Rename
<1>12. CASE WriteFails  BY <1>12 DEF WriteFails, Discard
<1>13. CASE RefuseWrite  BY <1>13 DEF RefuseWrite
<1>14. CASE StartNew  BY <1>14 DEF StartNew, Refused
<1>15. CASE StartShadow  BY <1>15 DEF StartShadow, Text
<1>16. CASE AfterShadow  BY <1>16 DEF AfterShadow
<1>17. CASE WriteDone  BY <1>17 DEF WriteDone, Cleared, Outcome
<1>18. CASE StartRollback  BY <1>18 DEF StartRollback
<1>19. CASE RolledBack  BY <1>19 DEF RolledBack, Cleared
<1>20. CASE PatchRejected  BY <1>20 DEF PatchRejected
<1>21. CASE PatchApplies  BY <1>21 DEF PatchApplies
<1>22. CASE Crash  BY <1>22 DEF Crash
<1>23. ASSUME NEW t \in OutsideTexts, Outside(t) PROVE Kept'
    BY <1>23 DEF Outside, Put
<1>25. CASE FlushFails  BY <1>25 DEF FlushFails, Put
<1>26. ASSUME NEW t \in OutsideTexts, Shell(t) PROVE Kept'
    BY <1>26 DEF Shell, Put
<1>24. CASE UNCHANGED vars  BY Zenon, <1>24 DEF vars
<1> QED
    BY <1>1, <1>2, <1>3, <1>4, <1>5, <1>6, <1>7, <1>8, <1>9, <1>10, <1>11, <1>12,
       <1>13, <1>14, <1>15, <1>16, <1>17, <1>18, <1>19, <1>20, <1>21, <1>22,
       <1>23, <1>24, <1>25, <1>26 DEF Next

\* A first call meets no other file, and leaves the ones it has made behind it.
LEMMA TidyStep == Shape /\ Purpose /\ Tidy /\ [Next]_vars => Tidy'
<1> SUFFICES ASSUME Shape, Purpose, Tidy, [Next]_vars PROVE Tidy'
    OBVIOUS
<1> USE DEF Shape, Purpose, Tidy, Before, Paths, Target, Shadow, tmp, Absent, Part,
            Partial, Whole, Written, Writing, Reply, Begin, tool
<1>1. ASSUME NEW c \in Calls, run_tool(c) \/ Direct(c) PROVE Tidy'
    BY <1>1 DEF run_tool, Direct
<1>2. CASE Unknown  BY <1>2 DEF Unknown
<1>3. CASE Invalid  BY <1>3 DEF Invalid
<1>4. CASE VerifyFails  BY Zenon, <1>4 DEF VerifyFails
<1>5. CASE VerifyPasses  BY <1>5 DEF VerifyPasses
<1>6. CASE Denied  BY <1>6 DEF Denied
<1>7. CASE Granted  BY <1>7 DEF Granted
<1>8. CASE Other  BY <1>8 DEF Other
<1>9. CASE CreateTmp  BY <1>9 DEF CreateTmp, fopen, Put
<1>10. CASE FillTmp  BY <1>10 DEF FillTmp, Put
<1>11. CASE Rename  BY <1>11 DEF Rename
<1>12. CASE WriteFails  BY <1>12 DEF WriteFails, Discard
<1>13. CASE RefuseWrite  BY <1>13 DEF RefuseWrite
<1>14. CASE StartNew  BY <1>14 DEF StartNew, Refused
<1>15. CASE StartShadow  BY <1>15 DEF StartShadow, Text
<1>16. CASE AfterShadow  BY <1>16 DEF AfterShadow
<1>17. CASE WriteDone  BY <1>17 DEF WriteDone, Cleared, Outcome
<1>18. CASE StartRollback  BY <1>18 DEF StartRollback
<1>19. CASE RolledBack  BY <1>19 DEF RolledBack, Cleared
<1>20. CASE PatchRejected  BY <1>20 DEF PatchRejected
<1>21. CASE PatchApplies  BY <1>21 DEF PatchApplies
<1>22. CASE Crash  BY <1>22 DEF Crash
<1>23. ASSUME NEW t \in OutsideTexts, Outside(t) PROVE Tidy'
    BY <1>23 DEF Outside, Put
<1>25. CASE FlushFails  BY <1>25 DEF FlushFails, Put
<1>26. ASSUME NEW t \in OutsideTexts, Shell(t) PROVE Tidy'
    BY <1>26 DEF Shell, Put
<1>24. CASE UNCHANGED vars  BY <1>24 DEF vars
<1> QED
    BY Zenon, <1>1, <1>2, <1>3, <1>4, <1>5, <1>6, <1>7, <1>8, <1>9, <1>10, <1>11, <1>12,
       <1>13, <1>14, <1>15, <1>16, <1>17, <1>18, <1>19, <1>20, <1>21, <1>22,
       <1>23, <1>24, <1>25, <1>26 DEF Next

\* A failure is reported only while the file is as it was.
LEMMA FailureStep == Shape /\ Purpose /\ Kept /\ FailureChangesNothing /\
                     [Next]_vars => FailureChangesNothing'
<1> SUFFICES ASSUME Shape, Purpose, Kept, FailureChangesNothing, [Next]_vars PROVE
         FailureChangesNothing'
    BY Zenon
<1> USE DEF Shape, Purpose, Kept, Before, FailureChangesNothing, Paths, Target,
            Shadow, tmp, Absent, Part, Partial, Whole, Written, Writing, Reply, Begin,
            tool
<1>1. ASSUME NEW c \in Calls, run_tool(c) \/ Direct(c) PROVE FailureChangesNothing'
    BY ZenonT(30), <1>1 DEF run_tool, Direct
<1>2. CASE Unknown  BY Zenon, <1>2 DEF Unknown
<1>3. CASE Invalid  BY <1>3 DEF Invalid
<1>4. CASE VerifyFails  BY Zenon, <1>4 DEF VerifyFails
<1>5. CASE VerifyPasses  BY Zenon, <1>5 DEF VerifyPasses
<1>6. CASE Denied  BY <1>6 DEF Denied
<1>7. CASE Granted  BY Zenon, <1>7 DEF Granted
<1>8. CASE Other  BY <1>8 DEF Other
<1>9. CASE CreateTmp  BY Zenon, <1>9 DEF CreateTmp, fopen, Put
<1>10. CASE FillTmp  BY Zenon, <1>10 DEF FillTmp, Put
<1>11. CASE Rename  BY Zenon, <1>11 DEF Rename
<1>12. CASE WriteFails  BY Zenon, <1>12 DEF WriteFails, Discard
<1>13. CASE RefuseWrite  BY <1>13 DEF RefuseWrite
<1>14. CASE StartNew  BY ZenonT(30), <1>14 DEF StartNew, Refused
<1>15. CASE StartShadow  BY Zenon, <1>15 DEF StartShadow, Text
<1>16. CASE AfterShadow  BY Zenon, <1>16 DEF AfterShadow
<1>17. CASE WriteDone  BY <1>17 DEF WriteDone, Cleared, Outcome
<1>18. CASE StartRollback  BY Zenon, <1>18 DEF StartRollback
<1>19. CASE RolledBack  BY <1>19 DEF RolledBack, Cleared
<1>20. CASE PatchRejected  BY <1>20 DEF PatchRejected
<1>21. CASE PatchApplies  BY Zenon, <1>21 DEF PatchApplies
<1>22. CASE Crash  BY Zenon, <1>22 DEF Crash
<1>23. ASSUME NEW t \in OutsideTexts, Outside(t) PROVE FailureChangesNothing'
    BY ZenonT(30), <1>23, OutsideCounts DEF Outside, Put
<1>25. CASE FlushFails  BY <1>25 DEF FlushFails, Put
<1>26. ASSUME NEW t \in OutsideTexts, Shell(t) PROVE FailureChangesNothing'
    BY <1>26 DEF Shell, Put
<1>24. CASE UNCHANGED vars  BY ZenonT(30), <1>24 DEF vars
<1> QED
    BY Zenon, <1>1, <1>2, <1>3, <1>4, <1>5, <1>6, <1>7, <1>8, <1>9, <1>10, <1>11, <1>12,
       <1>13, <1>14, <1>15, <1>16, <1>17, <1>18, <1>19, <1>20, <1>21, <1>22,
       <1>23, <1>24, <1>25, <1>26 DEF Next

\* Success is reported only after the rename of the new text.
LEMMA SuccessStep == Shape /\ Purpose /\ Kept /\ SuccessIsOnDisk /\ [Next]_vars =>
                     SuccessIsOnDisk'
<1> SUFFICES ASSUME Shape, Purpose, Kept, SuccessIsOnDisk, [Next]_vars PROVE
         SuccessIsOnDisk'
    OBVIOUS
<1> USE DEF Shape, Purpose, Kept, Before, SuccessIsOnDisk, Paths, Target, Shadow,
            tmp, Absent, Part, Partial, Whole, Written, Writing, Reply, Begin, tool
<1>1. ASSUME NEW c \in Calls, run_tool(c) \/ Direct(c) PROVE SuccessIsOnDisk'
    BY ZenonT(30), <1>1 DEF run_tool, Direct
<1>2. CASE Unknown  BY ZenonT(30), <1>2 DEF Unknown
<1>3. CASE Invalid  BY Zenon, <1>3 DEF Invalid
<1>4. CASE VerifyFails  BY Zenon, <1>4 DEF VerifyFails
<1>5. CASE VerifyPasses  BY <1>5 DEF VerifyPasses
<1>6. CASE Denied  BY <1>6 DEF Denied
<1>7. CASE Granted  BY <1>7 DEF Granted
<1>8. CASE Other  BY <1>8 DEF Other
<1>9. CASE CreateTmp  BY <1>9 DEF CreateTmp, fopen, Put
<1>10. CASE FillTmp  BY <1>10 DEF FillTmp, Put
<1>11. CASE Rename  BY <1>11 DEF Rename
<1>12. CASE WriteFails  BY <1>12 DEF WriteFails, Discard
<1>13. CASE RefuseWrite  BY <1>13 DEF RefuseWrite
<1>14. CASE StartNew  BY <1>14 DEF StartNew, Refused
<1>15. CASE StartShadow  BY <1>15 DEF StartShadow, Text
<1>16. CASE AfterShadow  BY <1>16 DEF AfterShadow
<1>17. CASE WriteDone  BY <1>17 DEF WriteDone, Cleared, Outcome
<1>18. CASE StartRollback  BY <1>18 DEF StartRollback
<1>19. CASE RolledBack  BY <1>19 DEF RolledBack, Cleared
<1>20. CASE PatchRejected  BY <1>20 DEF PatchRejected
<1>21. CASE PatchApplies  BY <1>21 DEF PatchApplies
<1>22. CASE Crash  BY <1>22 DEF Crash
<1>23. ASSUME NEW t \in OutsideTexts, Outside(t) PROVE SuccessIsOnDisk'
    BY <1>23 DEF Outside, Put
<1>25. CASE FlushFails  BY <1>25 DEF FlushFails, Put
<1>26. ASSUME NEW t \in OutsideTexts, Shell(t) PROVE SuccessIsOnDisk'
    BY <1>26 DEF Shell, Put
<1>24. CASE UNCHANGED vars  BY Zenon, <1>24 DEF vars
<1> QED
    BY <1>1, <1>2, <1>3, <1>4, <1>5, <1>6, <1>7, <1>8, <1>9, <1>10, <1>11, <1>12,
       <1>13, <1>14, <1>15, <1>16, <1>17, <1>18, <1>19, <1>20, <1>21, <1>22,
       <1>23, <1>24, <1>25, <1>26 DEF Next

\* A call that ends has removed its files.
LEMMA DebrisStep == Shape /\ Purpose /\ Tidy /\ NoDebris /\ [Next]_vars =>
                    NoDebris'
<1> SUFFICES ASSUME Shape, Purpose, Tidy, NoDebris, [Next]_vars PROVE NoDebris'
    OBVIOUS
<1> USE DEF Shape, Purpose, Tidy, Before, NoDebris, Paths, Target, Shadow, tmp,
            Absent, Part, Partial, Whole, Written, Writing, Reply, Begin, tool
<1>1. ASSUME NEW c \in Calls, run_tool(c) \/ Direct(c) PROVE NoDebris'
    BY <1>1 DEF run_tool, Direct
<1>2. CASE Unknown  BY Zenon, <1>2 DEF Unknown
<1>3. CASE Invalid  BY <1>3 DEF Invalid
<1>4. CASE VerifyFails  BY ZenonT(30), <1>4 DEF VerifyFails
<1>5. CASE VerifyPasses  BY <1>5 DEF VerifyPasses
<1>6. CASE Denied  BY <1>6 DEF Denied
<1>7. CASE Granted  BY <1>7 DEF Granted
<1>8. CASE Other  BY <1>8 DEF Other
<1>9. CASE CreateTmp  BY <1>9 DEF CreateTmp, fopen, Put
<1>10. CASE FillTmp  BY <1>10 DEF FillTmp, Put
<1>11. CASE Rename  BY <1>11 DEF Rename
<1>12. CASE WriteFails  BY <1>12 DEF WriteFails, Discard
<1>13. CASE RefuseWrite  BY <1>13 DEF RefuseWrite
<1>14. CASE StartNew  BY <1>14 DEF StartNew, Refused
<1>15. CASE StartShadow  BY <1>15 DEF StartShadow, Text
<1>16. CASE AfterShadow  BY <1>16 DEF AfterShadow
<1>17. CASE WriteDone  BY <1>17 DEF WriteDone, Cleared, Outcome
<1>18. CASE StartRollback  BY <1>18 DEF StartRollback
<1>19. CASE RolledBack  BY <1>19 DEF RolledBack, Cleared
<1>20. CASE PatchRejected  BY <1>20 DEF PatchRejected
<1>21. CASE PatchApplies  BY <1>21 DEF PatchApplies
<1>22. CASE Crash  BY <1>22 DEF Crash
<1>23. ASSUME NEW t \in OutsideTexts, Outside(t) PROVE NoDebris'
    BY <1>23 DEF Outside, Put
<1>25. CASE FlushFails  BY <1>25 DEF FlushFails, Put
<1>26. ASSUME NEW t \in OutsideTexts, Shell(t) PROVE NoDebris'
    BY <1>26 DEF Shell, Put
<1>24. CASE UNCHANGED vars  BY <1>24 DEF vars
<1> QED
    BY ZenonT(30), <1>1, <1>2, <1>3, <1>4, <1>5, <1>6, <1>7, <1>8, <1>9, <1>10, <1>11, <1>12,
       <1>13, <1>14, <1>15, <1>16, <1>17, <1>18, <1>19, <1>20, <1>21, <1>22,
       <1>23, <1>24, <1>25, <1>26 DEF Next

\* The gate lets a write tool run only when it may write: both declare
\* themselves as not read-only.
LEMMA AllowedStep == Allowed /\ [Next]_vars => Allowed'
<1> SUFFICES ASSUME Allowed, [Next]_vars PROVE Allowed'
    OBVIOUS
<1> USE DEF Allowed, Written, Writing, Reply, Begin, tool
<1>1. ASSUME NEW c \in Calls, run_tool(c) \/ Direct(c) PROVE Allowed'
    BY <1>1 DEF run_tool, Direct
<1>2. CASE Unknown  BY <1>2 DEF Unknown
<1>3. CASE Invalid  BY <1>3 DEF Invalid
<1>4. CASE VerifyFails  BY Zenon, <1>4 DEF VerifyFails
<1>5. CASE VerifyPasses  BY <1>5 DEF VerifyPasses
<1>6. CASE Denied  BY <1>6 DEF Denied
<1>7. CASE Granted  
    BY <1>7, WriteTools
    DEF Granted, GateRun, check, FileWriteSpec, FilePatchSpec, ShellSpec, make_spec
<1>8. CASE Other  BY <1>8 DEF Other
<1>9. CASE CreateTmp  BY <1>9 DEF CreateTmp, fopen, Put
<1>10. CASE FillTmp  BY <1>10 DEF FillTmp, Put
<1>11. CASE Rename  BY <1>11 DEF Rename
<1>12. CASE WriteFails  BY <1>12 DEF WriteFails, Discard
<1>13. CASE RefuseWrite  BY <1>13 DEF RefuseWrite
<1>14. CASE StartNew  BY <1>14 DEF StartNew, Refused
<1>15. CASE StartShadow  BY <1>15 DEF StartShadow, Text
<1>16. CASE AfterShadow  BY <1>16 DEF AfterShadow
<1>17. CASE WriteDone  BY <1>17 DEF WriteDone, Cleared, Outcome
<1>18. CASE StartRollback  BY <1>18 DEF StartRollback
<1>19. CASE RolledBack  BY <1>19 DEF RolledBack, Cleared
<1>20. CASE PatchRejected  BY <1>20 DEF PatchRejected
<1>21. CASE PatchApplies  BY <1>21 DEF PatchApplies
<1>22. CASE Crash  BY <1>22 DEF Crash
<1>23. ASSUME NEW t \in OutsideTexts, Outside(t) PROVE Allowed'
    BY <1>23 DEF Outside, Put
<1>25. CASE FlushFails  BY <1>25 DEF FlushFails, Put
<1>26. ASSUME NEW t \in OutsideTexts, Shell(t) PROVE Allowed'
    BY <1>26 DEF Shell, Put
<1>24. CASE UNCHANGED vars  BY <1>24 DEF vars
<1> QED
    BY <1>1, <1>2, <1>3, <1>4, <1>5, <1>6, <1>7, <1>8, <1>9, <1>10, <1>11, <1>12,
       <1>13, <1>14, <1>15, <1>16, <1>17, <1>18, <1>19, <1>20, <1>21, <1>22,
       <1>23, <1>24, <1>25, <1>26 DEF Next

\* The disk changes only in a write that the gate let run.
LEMMA DiskStep == Shape /\ Purpose /\ Allowed /\ [Next]_vars => ReadOnlyStep
<1> SUFFICES ASSUME Shape, Purpose, Allowed, [Next]_vars PROVE ReadOnlyStep
    BY Zenon
<1> USE DEF Shape, Purpose, Allowed, ReadOnlyStep, Written, Writing, Reply, Begin,
            tool
<1>w. pc \in {"shadow", "target", "rollback"} =>
          policy_for(gate, find(reg, call.tool).category) \in {"allow", "ask"}
    <2>1. FileWriteSpec.category = "write" /\ FilePatchSpec.category = "write"
        BY DEF FileWriteSpec, FilePatchSpec, make_spec
    <2>2. pc \in {"shadow", "target", "rollback"} =>
              find(reg, call.tool) \in {FileWriteSpec, FilePatchSpec}
        BY WriteTools
    <2> QED
        BY <2>1, <2>2
<1>s. pc = "other" /\ call.tool = "shell.run" =>
          policy_for(gate, find(reg, call.tool).category) \in {"allow", "ask"}
    BY WriteTools DEF ShellSpec, make_spec
<1>1. ASSUME NEW c \in Calls, run_tool(c) \/ Direct(c) PROVE ReadOnlyStep
    BY Zenon, <1>1 DEF run_tool, Direct
<1>2. CASE Unknown  BY <1>2 DEF Unknown
<1>3. CASE Invalid  BY Zenon, <1>3 DEF Invalid
<1>4. CASE VerifyFails  BY Zenon, <1>4 DEF VerifyFails
<1>5. CASE VerifyPasses  BY <1>5 DEF VerifyPasses
<1>6. CASE Denied  BY <1>6 DEF Denied
<1>7. CASE Granted  BY <1>7 DEF Granted
<1>8. CASE Other  BY <1>8 DEF Other
<1>9. CASE CreateTmp  BY <1>9, <1>w DEF CreateTmp, fopen, Put
<1>10. CASE FillTmp  BY <1>10, <1>w DEF FillTmp, Put
<1>11. CASE Rename  BY <1>11, <1>w DEF Rename
<1>12. CASE WriteFails  BY <1>12, <1>w DEF WriteFails, Discard
<1>13. CASE RefuseWrite  BY <1>13 DEF RefuseWrite
<1>14. CASE StartNew  BY <1>14 DEF StartNew, Refused
<1>15. CASE StartShadow  BY <1>15 DEF StartShadow, Text
<1>16. CASE AfterShadow  BY <1>16, <1>w DEF AfterShadow
<1>17. CASE WriteDone  BY <1>17, <1>w DEF WriteDone, Cleared, Outcome
<1>18. CASE StartRollback  BY <1>18, <1>w DEF StartRollback
<1>19. CASE RolledBack  BY <1>19, <1>w DEF RolledBack, Cleared
<1>20. CASE PatchRejected  BY <1>20 DEF PatchRejected
<1>21. CASE PatchApplies  BY <1>21 DEF PatchApplies
<1>22. CASE Crash  BY <1>22 DEF Crash
<1>23. ASSUME NEW t \in OutsideTexts, Outside(t) PROVE ReadOnlyStep
    BY <1>23 DEF Outside, Put
<1>25. CASE FlushFails  BY <1>25, <1>w DEF FlushFails, Put
<1>26. ASSUME NEW t \in OutsideTexts, Shell(t) PROVE ReadOnlyStep
    BY <1>26, <1>s DEF Shell, Put
<1>24. CASE UNCHANGED vars  BY <1>24 DEF vars
<1> QED
    BY <1>1, <1>2, <1>3, <1>4, <1>5, <1>6, <1>7, <1>8, <1>9, <1>10, <1>11, <1>12,
       <1>13, <1>14, <1>15, <1>16, <1>17, <1>18, <1>19, <1>20, <1>21, <1>22,
       <1>23, <1>24, <1>25, <1>26 DEF Next

-----------------------------------------------------------------------------
(* The theorems *)

EditInv ==
    /\ Shape /\ Purpose /\ Kept /\ Tidy /\ Allowed
    /\ NeverPartial /\ FailureChangesNothing /\ SuccessIsOnDisk /\ NoDebris

LEMMA EditInit == Init => EditInv
<1> SUFFICES ASSUME Init PROVE EditInv
    OBVIOUS
<1> PICK file \in {Whole(t) : t \in OutsideTexts} \cup {Absent} :
        disk = [p \in Paths |-> IF p = Target THEN file ELSE Absent]
    BY DEF Init
<1>1. IsFile(file) /\ file.kind # "partial" /\ IsFile(Absent) /\ Absent.kind # "partial"
    BY DEF IsFile, Whole, Absent, Part
<1>2. Shape /\ Purpose /\ Kept
    BY <1>1 DEF Init, Shape, Purpose, Kept, Before, Written, Writing, Paths
<1>3. Tidy /\ Allowed
    BY DEF Init, Tidy, Allowed, Writing, Before
<1>4. NeverPartial /\ FailureChangesNothing /\ SuccessIsOnDisk /\ NoDebris
    BY <1>1 DEF Init, NeverPartial, FailureChangesNothing, SuccessIsOnDisk, NoDebris,
                Paths, Target, Shadow
<1> QED
    BY <1>2, <1>3, <1>4 DEF EditInv

LEMMA EditStep == EditInv /\ [Next]_vars => EditInv'
    BY ShapeStep, PurposeStep, PartialStep, KeptStep, TidyStep, FailureStep,
       SuccessStep, DebrisStep, AllowedStep DEF EditInv

\* Whatever the calls, the verifier, the patches and the gates are: the edited
\* file is never a part of a text, a call that fails leaves it as it was, one that
\* reports success has written its text, all unless a flush was lost in fclose,
\* and no temporary file stays (write_file_atomic, FileWriteTool::run, patch::apply_file).
THEOREM EditsAreAtomic == Spec => []EditIsAtomic
<1>1. EditInv => EditIsAtomic
    BY DEF EditInv, EditIsAtomic
<1> QED
    BY EditInit, EditStep, <1>1, PTL DEF Spec

\* The disk changes only in a call of a tool whose category the gate allows or
\* asks about, a command of shell.run included, whatever the tables, the calls
\* and the host's answers are (Gate::check, Gate::run).
THEOREM ReadOnlyGateHolds == Spec => ReadOnlyKeepsDisk
<1>1. EditInv /\ [Next]_vars => [ReadOnlyStep]_vars
    BY Zenon, DiskStep DEF EditInv
<1> QED
    BY EditInit, EditStep, <1>1, PTL DEF Spec, ReadOnlyKeepsDisk

-----------------------------------------------------------------------------
(* The child process *)

CONSTANTS Programs, Capacity, Tries

VARIABLES caller, attempt, presult, prog, timed, ppc, late, pipe, open, ready, got,
          wrote, at, child, status, behind, exit_code, timed_out

PR == INSTANCE Process WITH result <- presult, pc <- ppc

Streams == {"o", "e"}

\* What a stream was given is captured or still in its pipe, and an end that has
\* been closed has nothing behind it.
Streamed ==
    /\ pipe \in [Streams -> Nat] /\ got \in [Streams -> Nat]
    /\ wrote \in [Streams -> Nat]
    /\ open \in [Streams -> BOOLEAN]
    /\ \A s \in Streams : got[s] + pipe[s] = wrote[s]
    /\ \A s \in Streams : ~open[s] => pipe[s] = 0 /\ ~PR!Writers

\* The drains one after the other: a stream that has been drained stays empty,
\* since nobody is left to write.
Drained ==
    /\ ppc \in {"drain_e", "reap", "done"} => pipe["o"] = 0 /\ ~PR!Writers
    /\ ppc \in {"reap", "done"} => pipe["e"] = 0
    /\ presult = "output" =>
           ppc = "over" /\ ~PR!Writers /\ \A s \in Streams : pipe[s] = 0

\* The status: zero only of a command that came to its end, and looked at only
\* before the timeout.
Told ==
    /\ at \in Nat
    /\ status = 0 => prog.ends /\ prog.code = 0 /\ at > Len(prog.writes)
    /\ status = 0 => child # "running"
    /\ ppc \in {"top", "read_o", "read_e", "wait"} => exit_code = -1 /\ ~timed_out
    /\ timed_out => exit_code = -1
    /\ exit_code = 0 => status = 0
    /\ ppc \in {"spawn", "failed", "done", "over"} => child = "reaped"

ProcessInv == Streamed /\ Drained /\ Told /\ PR!GitOutputIsTrue

\* Bytes are only moved, and an end is closed only when nobody can write to it.
LEMMA StreamedStep == Streamed /\ [PR!Next]_(PR!vars) => Streamed'
<1> SUFFICES ASSUME Streamed, [PR!Next]_(PR!vars) PROVE Streamed'
    OBVIOUS
<1> USE DEF Streamed, Streams, PR!Streams, PR!Writers, PR!parent, PR!procs
<1>1. CASE PR!Write
  <2> DEFINE w == prog.writes[at]
  <2>1. pipe' = [pipe EXCEPT ![w] = @ + 1] /\ wrote' = [wrote EXCEPT ![w] = @ + 1]
          /\ UNCHANGED <<got, open, child, behind>> /\ child = "running"
      BY <1>1 DEF PR!Write
  <2>2. CASE w \in Streams
    <3> HIDE DEF w
    <3> QED  BY <2>1, <2>2
  <2>3. CASE w \notin Streams
    <3> HIDE DEF w
    <3>1. pipe' = pipe /\ wrote' = wrote  BY <2>1, <2>3
    <3> QED  BY Zenon, <2>1, <3>1
  <2> QED
      BY <2>2, <2>3
<1>2. CASE PR!Close  BY <1>2 DEF PR!Close
<1>3. CASE PR!Exit  BY <1>3 DEF PR!Exit
<1>4. CASE PR!BehindEnds  BY <1>4 DEF PR!BehindEnds
<1>5. CASE PR!TimePasses  BY <1>5 DEF PR!TimePasses
<1>6. CASE PR!Spawn  BY <1>6 DEF PR!Spawn, PR!Started
<1>7. CASE PR!SpawnFails  BY <1>7 DEF PR!SpawnFails
<1>8. CASE PR!TimeOut  BY <1>8 DEF PR!TimeOut, PR!KillGroup
<1>9. CASE PR!Poll  BY <1>9 DEF PR!Poll
<1>10. ASSUME NEW s \in Streams, PR!Read(s) PROVE Streamed'
  <2>1. UNCHANGED <<wrote, child, behind>>
      BY <1>10 DEF PR!Read
  <2>2. CASE UNCHANGED <<pipe, got, open>>
      BY <2>1, <2>2
  <2>3. CASE PR!Take(s) /\ UNCHANGED open
      BY <2>1, <2>3 DEF PR!Take
  <2>4. CASE pipe[s] = 0 /\ ~PR!Writers /\ open' = [open EXCEPT ![s] = FALSE]
               /\ UNCHANGED <<pipe, got>>
      BY <2>1, <2>4
  <2> QED
      BY <1>10, <2>2, <2>3, <2>4 DEF PR!Read
<1>11. CASE PR!Wait  BY <1>11 DEF PR!Wait
<1>12. ASSUME NEW s \in Streams, PR!Drain(s) PROVE Streamed'
    BY <1>12 DEF PR!Drain, PR!DrainAt, PR!NextDrain, PR!Take
<1>13. CASE PR!Reap  BY <1>13 DEF PR!Reap
<1>14. CASE PR!Shell  BY <1>14 DEF PR!Shell
<1>15. CASE PR!Git  BY <1>15 DEF PR!Git, PR!Zero
<1>16. CASE PR!Over  BY <1>16 DEF PR!Over, PR!vars
<1>17. CASE UNCHANGED PR!vars  BY Zenon, <1>17 DEF PR!vars
<1> QED
    BY ZenonT(30), <1>1, <1>2, <1>3, <1>4, <1>5, <1>6, <1>7, <1>8, <1>9, <1>10, <1>11, <1>12,
       <1>13, <1>14, <1>15, <1>16, <1>17 DEF PR!Next, PR!Parent, PR!World

\* Nothing comes after a drain.
LEMMA DrainedStep == Streamed /\ Drained /\ Told /\ [PR!Next]_(PR!vars) =>
                     Drained'
<1> SUFFICES ASSUME Streamed, Drained, Told, [PR!Next]_(PR!vars) PROVE Drained'
    BY Zenon
<1> USE DEF Streamed, Drained, Told, Streams, PR!Streams, PR!Writers, PR!parent,
            PR!procs
<1>1. CASE PR!Write  BY ZenonT(30), <1>1 DEF PR!Write
<1>2. CASE PR!Close  BY <1>2 DEF PR!Close
<1>3. CASE PR!Exit  BY <1>3 DEF PR!Exit
<1>4. CASE PR!BehindEnds  BY <1>4 DEF PR!BehindEnds
<1>5. CASE PR!TimePasses  BY <1>5 DEF PR!TimePasses
<1>6. CASE PR!Spawn  BY <1>6 DEF PR!Spawn, PR!Started
<1>7. CASE PR!SpawnFails  BY <1>7 DEF PR!SpawnFails
<1>8. CASE PR!TimeOut  BY <1>8 DEF PR!TimeOut, PR!KillGroup
<1>9. CASE PR!Poll  BY <1>9 DEF PR!Poll
<1>10. ASSUME NEW s \in Streams, PR!Read(s) PROVE Drained'
    BY <1>10 DEF PR!Read, PR!ReadAt, PR!NextRead, PR!Take
<1>11. CASE PR!Wait  BY <1>11 DEF PR!Wait
<1>12. ASSUME NEW s \in Streams, PR!Drain(s) PROVE Drained'
    BY <1>12 DEF PR!Drain, PR!DrainAt, PR!NextDrain, PR!Take
<1>13. CASE PR!Reap  BY <1>13 DEF PR!Reap
<1>14. CASE PR!Shell  BY <1>14 DEF PR!Shell
<1>15. CASE PR!Git  BY <1>15 DEF PR!Git, PR!Zero
<1>16. CASE PR!Over  BY <1>16 DEF PR!Over, PR!vars
<1>17. CASE UNCHANGED PR!vars  BY Zenon, <1>17 DEF PR!vars
<1> QED
    BY Zenon, <1>1, <1>2, <1>3, <1>4, <1>5, <1>6, <1>7, <1>8, <1>9, <1>10, <1>11, <1>12,
       <1>13, <1>14, <1>15, <1>16, <1>17 DEF PR!Next, PR!Parent, PR!World

\* The status and the exit code agree.
LEMMA ToldStep == Drained /\ Told /\ [PR!Next]_(PR!vars) => Told'
<1> SUFFICES ASSUME Drained, Told, [PR!Next]_(PR!vars) PROVE Told'
    OBVIOUS
<1> USE DEF Drained, Told, Streams, PR!Streams, PR!Writers, PR!parent, PR!procs
<1>1. CASE PR!Write  BY <1>1 DEF PR!Write
<1>2. CASE PR!Close  BY <1>2 DEF PR!Close
<1>3. CASE PR!Exit  BY <1>3 DEF PR!Exit
<1>4. CASE PR!BehindEnds  BY <1>4 DEF PR!BehindEnds
<1>5. CASE PR!TimePasses  BY <1>5 DEF PR!TimePasses
<1>6. CASE PR!Spawn  BY <1>6 DEF PR!Spawn, PR!Started
<1>7. CASE PR!SpawnFails  BY <1>7 DEF PR!SpawnFails
<1>8. CASE PR!TimeOut  BY <1>8 DEF PR!TimeOut, PR!KillGroup
<1>9. CASE PR!Poll  BY <1>9 DEF PR!Poll
<1>10. ASSUME NEW s \in Streams, PR!Read(s) PROVE Told'
    BY <1>10 DEF PR!Read, PR!ReadAt, PR!NextRead, PR!Take
<1>11. CASE PR!Wait  BY <1>11 DEF PR!Wait
<1>12. ASSUME NEW s \in Streams, PR!Drain(s) PROVE Told'
    BY <1>12 DEF PR!Drain, PR!DrainAt, PR!NextDrain, PR!Take
<1>13. CASE PR!Reap  BY <1>13 DEF PR!Reap
<1>14. CASE PR!Shell  BY <1>14 DEF PR!Shell
<1>15. CASE PR!Git  BY <1>15 DEF PR!Git, PR!Zero
<1>16. CASE PR!Over  BY <1>16 DEF PR!Over, PR!vars
<1>17. CASE UNCHANGED PR!vars  BY Zenon, <1>17 DEF PR!vars
<1> QED
    BY ZenonT(30), <1>1, <1>2, <1>3, <1>4, <1>5, <1>6, <1>7, <1>8, <1>9, <1>10, <1>11, <1>12,
       <1>13, <1>14, <1>15, <1>16, <1>17 DEF PR!Next, PR!Parent, PR!World

\* git_run reports output after a zero exit code only.
LEMMA GitStep == Drained /\ Told /\ PR!GitOutputIsTrue /\ [PR!Next]_(PR!vars) =>
                 (PR!GitOutputIsTrue)'
<1> SUFFICES ASSUME Drained, Told, PR!GitOutputIsTrue, [PR!Next]_(PR!vars) PROVE
         (PR!GitOutputIsTrue)'
    OBVIOUS
<1> USE DEF Drained, Told, PR!GitOutputIsTrue, Streams, PR!Streams, PR!Writers,
            PR!parent, PR!procs
<1>1. CASE PR!Write  BY <1>1 DEF PR!Write
<1>2. CASE PR!Close  BY <1>2 DEF PR!Close
<1>3. CASE PR!Exit  BY <1>3 DEF PR!Exit
<1>4. CASE PR!BehindEnds  BY <1>4 DEF PR!BehindEnds
<1>5. CASE PR!TimePasses  BY <1>5 DEF PR!TimePasses
<1>6. CASE PR!Spawn  BY <1>6 DEF PR!Spawn, PR!Started
<1>7. CASE PR!SpawnFails  BY <1>7 DEF PR!SpawnFails
<1>8. CASE PR!TimeOut  BY <1>8 DEF PR!TimeOut, PR!KillGroup
<1>9. CASE PR!Poll  BY <1>9 DEF PR!Poll
<1>10. ASSUME NEW s \in Streams, PR!Read(s) PROVE (PR!GitOutputIsTrue)'
    BY <1>10 DEF PR!Read, PR!ReadAt, PR!NextRead, PR!Take
<1>11. CASE PR!Wait  BY <1>11 DEF PR!Wait
<1>12. ASSUME NEW s \in Streams, PR!Drain(s) PROVE (PR!GitOutputIsTrue)'
    BY <1>12 DEF PR!Drain, PR!DrainAt, PR!NextDrain, PR!Take
<1>13. CASE PR!Reap  BY <1>13 DEF PR!Reap
<1>14. CASE PR!Shell  BY <1>14 DEF PR!Shell
<1>15. CASE PR!Git  BY <1>15 DEF PR!Git, PR!Zero
<1>16. CASE PR!Over  BY <1>16 DEF PR!Over, PR!vars
<1>17. CASE UNCHANGED PR!vars  BY <1>17 DEF PR!vars
<1> QED
    BY Zenon, <1>1, <1>2, <1>3, <1>4, <1>5, <1>6, <1>7, <1>8, <1>9, <1>10, <1>11, <1>12,
       <1>13, <1>14, <1>15, <1>16, <1>17 DEF PR!Next, PR!Parent, PR!World

LEMMA ProcessInit == PR!Init => ProcessInv
    BY DEF PR!Init, ProcessInv, Streamed, Drained, Told, PR!GitOutputIsTrue,
           PR!Writers, PR!Streams, Streams

LEMMA ProcessStep == ProcessInv /\ [PR!Next]_(PR!vars) => ProcessInv'
    BY StreamedStep, DrainedStep, ToldStep, GitStep DEF ProcessInv

\* Whatever the command does and whatever it leaves behind: a call that returns
\* has captured all that was written, has left no zombie, and a git tool's output
\* is that of a command that ended with status zero (run_process, git_run).
THEOREM ProcessOutputIsTrue ==
    PR!Spec => [](PR!OutputIsWhole /\ PR!NoZombieStays /\ PR!GitOutputIsTrue)
<1>1. ASSUME ProcessInv PROVE PR!OutputIsWhole
  <2> SUFFICES ASSUME ppc = "done" \/ (ppc = "over" /\ presult = "output")
               PROVE  got = wrote /\ behind = "none"
      BY DEF PR!OutputIsWhole
  <2>1. \A s \in Streams : pipe[s] = 0
      BY <1>1 DEF ProcessInv, Drained, Streams
  <2>2. \A s \in Streams : got[s] = wrote[s]
      BY <1>1, <2>1 DEF ProcessInv, Streamed
  <2> QED
      BY <1>1, <2>2 DEF ProcessInv, Streamed, Drained, PR!Writers
<1>2. ProcessInv => PR!NoZombieStays /\ PR!GitOutputIsTrue
    BY DEF ProcessInv, Told, PR!NoZombieStays
<1> QED
    BY ProcessInit, ProcessStep, <1>1, <1>2, PTL DEF PR!Spec

=============================================================================
