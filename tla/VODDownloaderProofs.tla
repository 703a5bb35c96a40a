------------------------ MODULE VODDownloaderProofs ------------------------
(***************************************************************************)
(* Safety of VODDownloader for any set of operations and any number of     *)
(* crashes, by one inductive invariant.                                    *)
(***************************************************************************)
EXTENDS VODDownloader, TLAPS

-----------------------------------------------------------------------------
(* The inductive invariant.                                                *)

\* A removal waits for the operation that was active when it claimed the id, and
\* nobody expects the file it has removed.
RemovalInv ==
    /\ rpc = "wait" => active \in {rop, None}
    /\ rpc = "backup" => ~owed

\* The stage of an operation tells its kind and what its conversion left on the disk.
StageInv ==
    \A o \in Op :
        /\ opc[o] \in {"probed", "stale", "rename", "swap", "dropBackup"}
               => kind[o] = "convert"
        /\ opc[o] \in {"sized", "checked"} => kind[o] = "convert"
        /\ opc[o] = "install" => kind[o] = "download"
        /\ opc[o] = "swap" => output = None /\ backup # None
        /\ opc[o] = "dropBackup" => output # None
        /\ kind[o] = "convert" /\ opc[o] # "idle" => ~original[o]

IInv ==
    /\ TypeOK
    /\ OneOperation
    /\ RemovalIsAlone
    /\ RemovalInv
    /\ StageInv
    /\ TempIsKept
    /\ ConversionReadsItsInput
    /\ NameStaysFree

-----------------------------------------------------------------------------
(* Each part of it is preserved by every step.                             *)

\* Every step keeps the types; the file a conversion installs takes its name from the
\* backup, so the backup has to be there.
LEMMA TypePreserved == IInv /\ [Next]_vars => TypeOK'
<1> SUFFICES ASSUME TypeOK, StageInv, [Next]_vars PROVE TypeOK'
  BY DEF IInv
<1>1. ASSUME NEW o \in Op, NEW k \in {"download", "convert"}, NEW b \in BOOLEAN,
     Request(o, k, b) PROVE TypeOK'
  BY <1>1 DEF Request, Go, disk, svc, rem, cln, TypeOK, OpPc
<1>2. ASSUME NEW o \in Op, CheckInactive(o) PROVE TypeOK'
  BY <1>2 DEF CheckInactive, Go, disk, svc, opv, rem, cln, TypeOK, OpPc
<1>3. ASSUME NEW o \in Op, ReadSize(o) PROVE TypeOK'
  BY <1>3, OpAssumption, CrashAssumption DEF ReadSize, Go, Size, disk, svc, rem,
       cln, TypeOK, OpPc, StageInv, File, Source
<1>4. ASSUME NEW o \in Op, Probe(o) PROVE TypeOK'
  BY <1>4 DEF Probe, Go, disk, svc, opv, rem, cln, TypeOK, OpPc
<1>5. ASSUME NEW o \in Op, RegisterDownload(o) PROVE TypeOK'
  BY <1>5 DEF RegisterDownload, Go, Accepting, disk, opv, rem, cln, TypeOK, OpPc
<1>6. ASSUME NEW o \in Op, RegisterConversion(o) PROVE TypeOK'
  BY <1>6 DEF RegisterConversion, Go, Accepting, Size, disk, opv, rem, cln, TypeOK,
       OpPc
<1>7. ASSUME NEW o \in Op, Prepare(o) PROVE TypeOK'
  BY <1>7 DEF Prepare, Go, Wanted, svc, opv, rem, cln, TypeOK, OpPc
<1>8. ASSUME NEW o \in Op, Launch(o) PROVE TypeOK'
  BY <1>8 DEF Launch, Go, Wanted, disk, svc, opv, rem, cln, TypeOK, OpPc
<1>9. ASSUME NEW o \in Op, FfmpegEnds(o) PROVE TypeOK'
  BY <1>9 DEF FfmpegEnds, Go, disk, svc, opv, rem, cln, TypeOK, OpPc
<1>10. ASSUME NEW o \in Op, ReadResult(o) PROVE TypeOK'
  BY <1>10 DEF ReadResult, Go, disk, svc, opv, rem, cln, TypeOK, OpPc
<1>11. ASSUME NEW o \in Op, InstallDownload(o) PROVE TypeOK'
  BY <1>11, OpAssumption, CrashAssumption DEF InstallDownload, Go, svc, opv, rem,
       cln, TypeOK, OpPc, StageInv, File, Source
<1>12. ASSUME NEW o \in Op, RemoveStaleBackup(o) PROVE TypeOK'
  BY <1>12 DEF RemoveStaleBackup, Go, svc, opv, rem, cln, TypeOK, OpPc
<1>13. ASSUME NEW o \in Op, BackUpOriginal(o) PROVE TypeOK'
  BY <1>13 DEF BackUpOriginal, Go, svc, opv, rem, cln, TypeOK, OpPc
<1>14. ASSUME NEW o \in Op, InstallConversion(o) PROVE TypeOK'
  BY <1>14, OpAssumption, CrashAssumption DEF InstallConversion, Go, svc, opv, rem,
       cln, TypeOK, OpPc, StageInv, File, Source
<1>15. ASSUME NEW o \in Op, RollBack(o) PROVE TypeOK'
  BY <1>15 DEF RollBack, Go, svc, opv, rem, cln, TypeOK, OpPc
<1>16. ASSUME NEW o \in Op, DropBackup(o) PROVE TypeOK'
  BY <1>16 DEF DropBackup, Go, svc, opv, rem, cln, TypeOK, OpPc
<1>17. ASSUME NEW o \in Op, FinalizeFails(o) PROVE TypeOK'
  BY <1>17 DEF FinalizeFails, Go, disk, svc, opv, rem, cln, TypeOK, OpPc
<1>18. ASSUME NEW o \in Op, Stamp(o) PROVE TypeOK'
  <2>1. output # None => [output EXCEPT !.old = FALSE] \in File
    BY DEF TypeOK, File
  <2>2. output' \in File \cup {None}
    BY <1>18, <2>1 DEF Stamp
  <2>3. QED
    BY <1>18, <2>2 DEF Stamp, Go, svc, opv, rem, cln, TypeOK, OpPc
<1>19. ASSUME NEW o \in Op, Discard(o) PROVE TypeOK'
  BY <1>19 DEF Discard, Go, svc, opv, rem, cln, TypeOK, OpPc
<1>20. ASSUME NEW o \in Op, ClearActive(o) PROVE TypeOK'
  BY <1>20 DEF ClearActive, Go, disk, opv, rem, cln, TypeOK, OpPc
<1>21. ASSUME NEW o \in Op, CloseDone(o) PROVE TypeOK'
  BY <1>21 DEF CloseDone, Go, disk, svc, opv, rem, cln, TypeOK, OpPc
<1>22. CASE Delete
  <2>1. output' \in File \cup {None} /\ backup' \in File \cup {None}
    BY <1>22 DEF Delete, TypeOK
  <2>2. owed' \in BOOLEAN
    BY <1>22 DEF Delete
  <2>3. QED
    BY <1>22, <2>1, <2>2 DEF Delete, svc, opv, rem, cln, TypeOK
<1>23. CASE BeginRemove
  BY <1>23 DEF BeginRemove, Halt, disk, opv, cln, TypeOK, OpPc
<1>24. CASE BeginPrune
  BY <1>24 DEF BeginPrune, GoRem, disk, svc, opv, cln, TypeOK, OpPc
<1>25. CASE StoppedSeen
  BY <1>25 DEF StoppedSeen, GoRem, disk, svc, opv, cln, TypeOK, OpPc
<1>26. CASE StopTimesOut
  BY <1>26 DEF StopTimesOut, GoRem, disk, svc, opv, cln, TypeOK, OpPc
<1>27. CASE RemoveOutput
  BY <1>27 DEF RemoveOutput, GoRem, svc, opv, cln, TypeOK, OpPc
<1>28. CASE RemoveBackup
  BY <1>28 DEF RemoveBackup, GoRem, svc, opv, cln, TypeOK, OpPc
<1>29. CASE RemovePartials
  BY <1>29 DEF RemovePartials, svc, opv, cln, TypeOK, OpPc
<1>30. CASE RemoveMetadata
  <2>1. record' \in BOOLEAN
    <3>1. CASE record' = FALSE
      BY <3>1
    <3>2. CASE record' = record
      BY <3>2 DEF TypeOK
    <3>3. QED
      BY <1>30, <3>1, <3>2 DEF RemoveMetadata
  <2>2. QED
    BY <1>30, <2>1 DEF RemoveMetadata, disk, svc, opv, cln, TypeOK
<1>31. CASE Release
  BY <1>31 DEF Release, GoRem, disk, svc, opv, cln, TypeOK, OpPc
<1>32. CASE Save
  BY <1>32 DEF Save, disk, svc, opv, rem, cln, TypeOK, OpPc
<1>33. CASE Stop
  BY <1>33 DEF Stop, Halt, disk, opv, rem, cln, TypeOK, OpPc
<1>34. CASE BeginCleanup
  BY <1>34 DEF BeginCleanup, disk, svc, opv, rem, TypeOK, OpPc
<1>35. CASE Recover
  BY <1>35 DEF Recover, svc, opv, rem, TypeOK, OpPc
<1>36. CASE ListOutput
  BY <1>36 DEF ListOutput, disk, svc, opv, rem, TypeOK, OpPc
<1>37. CASE RemoveExpired
  <2>1. /\ output' \in File \cup {None} /\ backup' \in File \cup {None}
        /\ owed' \in BOOLEAN /\ cpc' = "idle"
    BY <1>37 DEF RemoveExpired, TypeOK
  <2>2. QED
    BY <1>37, <2>1 DEF RemoveExpired, svc, opv, rem, TypeOK, OpPc
<1>38. ASSUME NEW o \in Op, RemoveInterrupted(o) PROVE TypeOK'
  BY <1>38 DEF RemoveInterrupted, svc, opv, rem, TypeOK, OpPc
<1>39. CASE Age
  <2>1. ASSUME NEW f \in File PROVE [f EXCEPT !.old = TRUE] \in File
    BY DEF File
  <2>2. output' \in File \cup {None} /\ backup' \in File \cup {None}
    BY <1>39, <2>1 DEF Age, Aged, TypeOK
  <2>3. QED
    BY <1>39, <2>2 DEF Age, svc, opv, rem, cln, TypeOK
<1>40. CASE Crash
  <2>1. crashes' \in 0..MaxCrashes
    BY <1>40, CrashAssumption DEF Crash, TypeOK
  <2>2. opc' \in [Op -> OpPc]
    BY <1>40 DEF Crash, TypeOK, OpPc
  <2>3. /\ active' \in Op \cup {None} /\ stopping' \in BOOLEAN /\ halted' \subseteq Op
        /\ rpc' = "idle" /\ rop' \in Op \cup {None} /\ rfailed' \in BOOLEAN
        /\ cpc' = "idle" /\ listed' \subseteq Op
    BY <1>40 DEF Crash
  <2>4. QED
    BY <1>40, <2>1, <2>2, <2>3 DEF Crash, disk, opv, TypeOK
<1>41. CASE UNCHANGED vars
  BY <1>41 DEF TypeOK, OpPc, vars, disk, svc, opv, rem, cln
<1>42. QED
  BY <1>1, <1>2, <1>3, <1>4, <1>5, <1>6, <1>7, <1>8, <1>9, <1>10, <1>11, <1>12,
       <1>13, <1>14, <1>15, <1>16, <1>17, <1>18, <1>19, <1>20, <1>21, <1>22, <1>23,
       <1>24, <1>25, <1>26, <1>27, <1>28, <1>29, <1>30, <1>31, <1>32, <1>33, <1>34,
       <1>35, <1>36, <1>37, <1>38, <1>39, <1>40, <1>41 DEF Next, OpStep, RemovalStep,
       CleanupStep

\* An operation is active from its registration to its clear.
LEMMA OnePreserved == IInv /\ [Next]_vars => OneOperation'
<1> SUFFICES ASSUME TypeOK, OneOperation, [Next]_vars PROVE OneOperation'
  BY DEF IInv
<1>1. ASSUME NEW o \in Op, NEW k \in {"download", "convert"}, NEW b \in BOOLEAN,
     Request(o, k, b) PROVE OneOperation'
  BY <1>1 DEF Request, Go, disk, svc, rem, cln, OneOperation, Started
<1>2. ASSUME NEW o \in Op, CheckInactive(o) PROVE OneOperation'
  BY <1>2 DEF CheckInactive, Go, disk, svc, opv, rem, cln, OneOperation, Started
<1>3. ASSUME NEW o \in Op, ReadSize(o) PROVE OneOperation'
  BY <1>3 DEF ReadSize, Go, Size, disk, svc, rem, cln, OneOperation, Started
<1>4. ASSUME NEW o \in Op, Probe(o) PROVE OneOperation'
  BY <1>4 DEF Probe, Go, disk, svc, opv, rem, cln, OneOperation, Started
<1>5. ASSUME NEW o \in Op, RegisterDownload(o) PROVE OneOperation'
  BY <1>5, OpAssumption DEF RegisterDownload, Go, Accepting, disk, opv, rem, cln,
       OneOperation, Started, TypeOK, OpPc
<1>6. ASSUME NEW o \in Op, RegisterConversion(o) PROVE OneOperation'
  BY <1>6, OpAssumption DEF RegisterConversion, Go, Accepting, Size, disk, opv, rem,
       cln, OneOperation, Started, TypeOK, OpPc
<1>7. ASSUME NEW o \in Op, Prepare(o) PROVE OneOperation'
  BY <1>7 DEF Prepare, Go, Wanted, svc, opv, rem, cln, OneOperation, Started, TypeOK
<1>8. ASSUME NEW o \in Op, Launch(o) PROVE OneOperation'
  BY <1>8 DEF Launch, Go, Wanted, disk, svc, opv, rem, cln, OneOperation, Started,
       TypeOK
<1>9. ASSUME NEW o \in Op, FfmpegEnds(o) PROVE OneOperation'
  BY <1>9 DEF FfmpegEnds, Go, disk, svc, opv, rem, cln, OneOperation, Started, TypeOK
<1>10. ASSUME NEW o \in Op, ReadResult(o) PROVE OneOperation'
  BY <1>10 DEF ReadResult, Go, disk, svc, opv, rem, cln, OneOperation, Started
<1>11. ASSUME NEW o \in Op, InstallDownload(o) PROVE OneOperation'
  BY <1>11 DEF InstallDownload, Go, svc, opv, rem, cln, OneOperation, Started
<1>12. ASSUME NEW o \in Op, RemoveStaleBackup(o) PROVE OneOperation'
  BY <1>12 DEF RemoveStaleBackup, Go, svc, opv, rem, cln, OneOperation, Started
<1>13. ASSUME NEW o \in Op, BackUpOriginal(o) PROVE OneOperation'
  BY <1>13 DEF BackUpOriginal, Go, svc, opv, rem, cln, OneOperation, Started
<1>14. ASSUME NEW o \in Op, InstallConversion(o) PROVE OneOperation'
  BY <1>14 DEF InstallConversion, Go, svc, opv, rem, cln, OneOperation, Started
<1>15. ASSUME NEW o \in Op, RollBack(o) PROVE OneOperation'
  BY <1>15 DEF RollBack, Go, svc, opv, rem, cln, OneOperation, Started
<1>16. ASSUME NEW o \in Op, DropBackup(o) PROVE OneOperation'
  BY <1>16 DEF DropBackup, Go, svc, opv, rem, cln, OneOperation, Started
<1>17. ASSUME NEW o \in Op, FinalizeFails(o) PROVE OneOperation'
  BY <1>17 DEF FinalizeFails, Go, disk, svc, opv, rem, cln, OneOperation, Started
<1>18. ASSUME NEW o \in Op, Stamp(o) PROVE OneOperation'
  BY <1>18 DEF Stamp, Go, svc, opv, rem, cln, OneOperation, Started
<1>19. ASSUME NEW o \in Op, Discard(o) PROVE OneOperation'
  BY <1>19 DEF Discard, Go, svc, opv, rem, cln, OneOperation, Started
<1>20. ASSUME NEW o \in Op, ClearActive(o) PROVE OneOperation'
  BY <1>20 DEF ClearActive, Go, disk, opv, rem, cln, OneOperation, Started, TypeOK
<1>21. ASSUME NEW o \in Op, CloseDone(o) PROVE OneOperation'
  BY <1>21 DEF CloseDone, Go, disk, svc, opv, rem, cln, OneOperation, Started
<1>22. CASE Delete
  BY <1>22 DEF Delete, svc, opv, rem, cln, OneOperation, Started
<1>23. CASE BeginRemove
  BY <1>23 DEF BeginRemove, Halt, disk, opv, cln, OneOperation, Started
<1>24. CASE BeginPrune
  BY <1>24 DEF BeginPrune, GoRem, disk, svc, opv, cln, OneOperation, Started
<1>25. CASE StoppedSeen
  BY <1>25 DEF StoppedSeen, GoRem, disk, svc, opv, cln, OneOperation, Started
<1>26. CASE StopTimesOut
  BY <1>26 DEF StopTimesOut, GoRem, disk, svc, opv, cln, OneOperation, Started
<1>27. CASE RemoveOutput
  BY <1>27 DEF RemoveOutput, GoRem, svc, opv, cln, OneOperation, Started
<1>28. CASE RemoveBackup
  BY <1>28 DEF RemoveBackup, GoRem, svc, opv, cln, OneOperation, Started
<1>29. CASE RemovePartials
  BY <1>29 DEF RemovePartials, svc, opv, cln, OneOperation, Started
<1>30. CASE RemoveMetadata
  BY <1>30 DEF RemoveMetadata, disk, svc, opv, cln, OneOperation, Started
<1>31. CASE Release
  BY <1>31 DEF Release, GoRem, disk, svc, opv, cln, OneOperation, Started
<1>32. CASE Save
  BY <1>32 DEF Save, disk, svc, opv, rem, cln, OneOperation, Started
<1>33. CASE Stop
  BY <1>33 DEF Stop, Halt, disk, opv, rem, cln, OneOperation, Started
<1>34. CASE BeginCleanup
  BY <1>34 DEF BeginCleanup, disk, svc, opv, rem, OneOperation, Started
<1>35. CASE Recover
  BY <1>35 DEF Recover, svc, opv, rem, OneOperation, Started
<1>36. CASE ListOutput
  BY <1>36 DEF ListOutput, disk, svc, opv, rem, OneOperation, Started
<1>37. CASE RemoveExpired
  BY <1>37 DEF RemoveExpired, svc, opv, rem, OneOperation, Started
<1>38. ASSUME NEW o \in Op, RemoveInterrupted(o) PROVE OneOperation'
  BY <1>38 DEF RemoveInterrupted, svc, opv, rem, OneOperation, Started
<1>39. CASE Age
  BY <1>39 DEF Age, Aged, svc, opv, rem, cln, OneOperation, Started
<1>40. CASE Crash
  BY <1>40 DEF Crash, disk, opv, OneOperation, Started
<1>41. CASE UNCHANGED vars
  BY <1>41 DEF OneOperation, Started, vars, disk, svc, opv, rem, cln
<1>42. QED
  BY <1>1, <1>2, <1>3, <1>4, <1>5, <1>6, <1>7, <1>8, <1>9, <1>10, <1>11, <1>12,
       <1>13, <1>14, <1>15, <1>16, <1>17, <1>18, <1>19, <1>20, <1>21, <1>22, <1>23,
       <1>24, <1>25, <1>26, <1>27, <1>28, <1>29, <1>30, <1>31, <1>32, <1>33, <1>34,
       <1>35, <1>36, <1>37, <1>38, <1>39, <1>40, <1>41 DEF Next, OpStep, RemovalStep,
       CleanupStep

\* A removal is alone with the files.
LEMMA RemovalPreserved == IInv /\ [Next]_vars => (RemovalIsAlone /\ RemovalInv)'
<1> SUFFICES ASSUME TypeOK, OneOperation, RemovalIsAlone, RemovalInv, [Next]_vars
     PROVE (RemovalIsAlone /\ RemovalInv)'
  BY DEF IInv
<1>1. ASSUME NEW o \in Op, NEW k \in {"download", "convert"}, NEW b \in BOOLEAN,
     Request(o, k, b) PROVE (RemovalIsAlone /\ RemovalInv)'
  BY <1>1 DEF Request, Go, disk, svc, rem, cln, RemovalIsAlone, RemovalInv
<1>2. ASSUME NEW o \in Op, CheckInactive(o) PROVE (RemovalIsAlone /\ RemovalInv)'
  BY <1>2 DEF CheckInactive, Go, disk, svc, opv, rem, cln, RemovalIsAlone, RemovalInv
<1>3. ASSUME NEW o \in Op, ReadSize(o) PROVE (RemovalIsAlone /\ RemovalInv)'
  BY <1>3 DEF ReadSize, Go, Size, disk, svc, rem, cln, RemovalIsAlone, RemovalInv
<1>4. ASSUME NEW o \in Op, Probe(o) PROVE (RemovalIsAlone /\ RemovalInv)'
  BY <1>4 DEF Probe, Go, disk, svc, opv, rem, cln, RemovalIsAlone, RemovalInv
<1>5. ASSUME NEW o \in Op, RegisterDownload(o) PROVE (RemovalIsAlone /\ RemovalInv)'
  BY <1>5 DEF RegisterDownload, Go, Accepting, disk, opv, rem, cln, RemovalIsAlone,
       RemovalInv
<1>6. ASSUME NEW o \in Op, RegisterConversion(o) PROVE (RemovalIsAlone /\ RemovalInv)'
  BY <1>6 DEF RegisterConversion, Go, Accepting, Size, disk, opv, rem, cln,
       RemovalIsAlone, RemovalInv
<1>7. ASSUME NEW o \in Op, Prepare(o) PROVE (RemovalIsAlone /\ RemovalInv)'
  BY <1>7 DEF Prepare, Go, Wanted, svc, opv, rem, cln, RemovalIsAlone, RemovalInv
<1>8. ASSUME NEW o \in Op, Launch(o) PROVE (RemovalIsAlone /\ RemovalInv)'
  BY <1>8 DEF Launch, Go, Wanted, disk, svc, opv, rem, cln, RemovalIsAlone, RemovalInv
<1>9. ASSUME NEW o \in Op, FfmpegEnds(o) PROVE (RemovalIsAlone /\ RemovalInv)'
  BY <1>9 DEF FfmpegEnds, Go, disk, svc, opv, rem, cln, RemovalIsAlone, RemovalInv
<1>10. ASSUME NEW o \in Op, ReadResult(o) PROVE (RemovalIsAlone /\ RemovalInv)'
  BY <1>10 DEF ReadResult, Go, disk, svc, opv, rem, cln, RemovalIsAlone, RemovalInv
<1>11. ASSUME NEW o \in Op, InstallDownload(o) PROVE (RemovalIsAlone /\ RemovalInv)'
  BY <1>11, OpAssumption DEF InstallDownload, Go, svc, opv, rem, cln,
       RemovalIsAlone, RemovalInv, TypeOK, OneOperation, Started
<1>12. ASSUME NEW o \in Op, RemoveStaleBackup(o) PROVE (RemovalIsAlone /\ RemovalInv)'
  BY <1>12 DEF RemoveStaleBackup, Go, svc, opv, rem, cln, RemovalIsAlone, RemovalInv
<1>13. ASSUME NEW o \in Op, BackUpOriginal(o) PROVE (RemovalIsAlone /\ RemovalInv)'
  BY <1>13 DEF BackUpOriginal, Go, svc, opv, rem, cln, RemovalIsAlone, RemovalInv
<1>14. ASSUME NEW o \in Op, InstallConversion(o) PROVE (RemovalIsAlone /\ RemovalInv)'
  BY <1>14 DEF InstallConversion, Go, svc, opv, rem, cln, RemovalIsAlone, RemovalInv
<1>15. ASSUME NEW o \in Op, RollBack(o) PROVE (RemovalIsAlone /\ RemovalInv)'
  BY <1>15 DEF RollBack, Go, svc, opv, rem, cln, RemovalIsAlone, RemovalInv
<1>16. ASSUME NEW o \in Op, DropBackup(o) PROVE (RemovalIsAlone /\ RemovalInv)'
  BY <1>16 DEF DropBackup, Go, svc, opv, rem, cln, RemovalIsAlone, RemovalInv
<1>17. ASSUME NEW o \in Op, FinalizeFails(o) PROVE (RemovalIsAlone /\ RemovalInv)'
  BY <1>17 DEF FinalizeFails, Go, disk, svc, opv, rem, cln, RemovalIsAlone, RemovalInv
<1>18. ASSUME NEW o \in Op, Stamp(o) PROVE (RemovalIsAlone /\ RemovalInv)'
  BY <1>18 DEF Stamp, Go, svc, opv, rem, cln, RemovalIsAlone, RemovalInv
<1>19. ASSUME NEW o \in Op, Discard(o) PROVE (RemovalIsAlone /\ RemovalInv)'
  BY <1>19 DEF Discard, Go, svc, opv, rem, cln, RemovalIsAlone, RemovalInv
<1>20. ASSUME NEW o \in Op, ClearActive(o) PROVE (RemovalIsAlone /\ RemovalInv)'
  BY <1>20 DEF ClearActive, Go, disk, opv, rem, cln, RemovalIsAlone, RemovalInv
<1>21. ASSUME NEW o \in Op, CloseDone(o) PROVE (RemovalIsAlone /\ RemovalInv)'
  BY <1>21 DEF CloseDone, Go, disk, svc, opv, rem, cln, RemovalIsAlone, RemovalInv
<1>22. CASE Delete
  BY <1>22 DEF Delete, svc, opv, rem, cln, RemovalIsAlone, RemovalInv
<1>23. CASE BeginRemove
  BY <1>23 DEF BeginRemove, Halt, disk, opv, cln, RemovalIsAlone, RemovalInv
<1>24. CASE BeginPrune
  BY <1>24 DEF BeginPrune, GoRem, disk, svc, opv, cln, RemovalIsAlone, RemovalInv
<1>25. CASE StoppedSeen
  BY <1>25, OpAssumption DEF StoppedSeen, GoRem, disk, svc, opv, cln,
       RemovalIsAlone, RemovalInv, TypeOK, OneOperation, Started
<1>26. CASE StopTimesOut
  BY <1>26 DEF StopTimesOut, GoRem, disk, svc, opv, cln, RemovalIsAlone, RemovalInv
<1>27. CASE RemoveOutput
  BY <1>27 DEF RemoveOutput, GoRem, svc, opv, cln, RemovalIsAlone, RemovalInv
<1>28. CASE RemoveBackup
  BY <1>28 DEF RemoveBackup, GoRem, svc, opv, cln, RemovalIsAlone, RemovalInv
<1>29. CASE RemovePartials
  BY <1>29 DEF RemovePartials, svc, opv, cln, RemovalIsAlone, RemovalInv
<1>30. CASE RemoveMetadata
  BY <1>30 DEF RemoveMetadata, disk, svc, opv, cln, RemovalIsAlone, RemovalInv
<1>31. CASE Release
  BY <1>31 DEF Release, GoRem, disk, svc, opv, cln, RemovalIsAlone, RemovalInv
<1>32. CASE Save
  BY <1>32 DEF Save, disk, svc, opv, rem, cln, RemovalIsAlone, RemovalInv
<1>33. CASE Stop
  BY <1>33 DEF Stop, Halt, disk, opv, rem, cln, RemovalIsAlone, RemovalInv
<1>34. CASE BeginCleanup
  BY <1>34 DEF BeginCleanup, disk, svc, opv, rem, RemovalIsAlone, RemovalInv
<1>35. CASE Recover
  BY <1>35 DEF Recover, svc, opv, rem, RemovalIsAlone, RemovalInv
<1>36. CASE ListOutput
  BY <1>36 DEF ListOutput, disk, svc, opv, rem, RemovalIsAlone, RemovalInv
<1>37. CASE RemoveExpired
  BY <1>37 DEF RemoveExpired, svc, opv, rem, RemovalIsAlone, RemovalInv, TypeOK
<1>38. ASSUME NEW o \in Op, RemoveInterrupted(o) PROVE (RemovalIsAlone /\ RemovalInv)'
  BY <1>38 DEF RemoveInterrupted, svc, opv, rem, RemovalIsAlone, RemovalInv
<1>39. CASE Age
  BY <1>39 DEF Age, Aged, svc, opv, rem, cln, RemovalIsAlone, RemovalInv
<1>40. CASE Crash
  BY <1>40 DEF Crash, disk, opv, RemovalIsAlone, RemovalInv
<1>41. CASE UNCHANGED vars
  BY <1>41 DEF RemovalIsAlone, RemovalInv, vars, disk, svc, opv, rem, cln
<1>42. QED
  BY <1>1, <1>2, <1>3, <1>4, <1>5, <1>6, <1>7, <1>8, <1>9, <1>10, <1>11, <1>12,
       <1>13, <1>14, <1>15, <1>16, <1>17, <1>18, <1>19, <1>20, <1>21, <1>22, <1>23,
       <1>24, <1>25, <1>26, <1>27, <1>28, <1>29, <1>30, <1>31, <1>32, <1>33, <1>34,
       <1>35, <1>36, <1>37, <1>38, <1>39, <1>40, <1>41 DEF Next, OpStep, RemovalStep,
       CleanupStep

\* The stage of an operation tells its kind and what is on the disk.
LEMMA StagePreserved == IInv /\ [Next]_vars => StageInv'
<1> SUFFICES ASSUME TypeOK, OneOperation, RemovalIsAlone, StageInv, [Next]_vars
     PROVE StageInv'
  BY DEF IInv
<1>1. ASSUME NEW o \in Op, NEW k \in {"download", "convert"}, NEW b \in BOOLEAN,
     Request(o, k, b) PROVE StageInv'
  BY <1>1 DEF Request, Go, disk, svc, rem, cln, StageInv, TypeOK
<1>2. ASSUME NEW o \in Op, CheckInactive(o) PROVE StageInv'
  BY <1>2 DEF CheckInactive, Go, disk, svc, opv, rem, cln, StageInv
<1>3. ASSUME NEW o \in Op, ReadSize(o) PROVE StageInv'
  BY <1>3, OpAssumption, FileAssumption DEF ReadSize, Go, Size, disk, svc, rem, cln,
       StageInv, TypeOK, OneOperation, Started, RemovalIsAlone, File, Source
<1>4. ASSUME NEW o \in Op, Probe(o) PROVE StageInv'
  BY <1>4 DEF Probe, Go, disk, svc, opv, rem, cln, StageInv
<1>5. ASSUME NEW o \in Op, RegisterDownload(o) PROVE StageInv'
  BY <1>5 DEF RegisterDownload, Go, Accepting, disk, opv, rem, cln, StageInv
<1>6. ASSUME NEW o \in Op, RegisterConversion(o) PROVE StageInv'
  BY <1>6 DEF RegisterConversion, Go, Accepting, Size, disk, opv, rem, cln, StageInv
<1>7. ASSUME NEW o \in Op, Prepare(o) PROVE StageInv'
  BY <1>7 DEF Prepare, Go, Wanted, svc, opv, rem, cln, StageInv, TypeOK
<1>8. ASSUME NEW o \in Op, Launch(o) PROVE StageInv'
  BY <1>8 DEF Launch, Go, Wanted, disk, svc, opv, rem, cln, StageInv, TypeOK
<1>9. ASSUME NEW o \in Op, FfmpegEnds(o) PROVE StageInv'
  BY <1>9 DEF FfmpegEnds, Go, disk, svc, opv, rem, cln, StageInv, TypeOK
<1>10. ASSUME NEW o \in Op, ReadResult(o) PROVE StageInv'
  BY <1>10 DEF ReadResult, Go, disk, svc, opv, rem, cln, StageInv, TypeOK
<1>11. ASSUME NEW o \in Op, InstallDownload(o) PROVE StageInv'
  BY <1>11, OpAssumption DEF InstallDownload, Go, svc, opv, rem, cln, StageInv,
       TypeOK, OneOperation, Started
<1>12. ASSUME NEW o \in Op, RemoveStaleBackup(o) PROVE StageInv'
  BY <1>12, OpAssumption DEF RemoveStaleBackup, Go, svc, opv, rem, cln, StageInv,
       TypeOK, OneOperation, Started
<1>13. ASSUME NEW o \in Op, BackUpOriginal(o) PROVE StageInv'
  BY <1>13, OpAssumption DEF BackUpOriginal, Go, svc, opv, rem, cln, StageInv,
       TypeOK, OneOperation, Started
<1>14. ASSUME NEW o \in Op, InstallConversion(o) PROVE StageInv'
  <2>1. backup \in File
    BY <1>14 DEF InstallConversion, Go, StageInv, TypeOK
  <2>2. output' \in File
    BY <1>14, <2>1 DEF InstallConversion, File, TypeOK
  <2>3. output' # None
    BY <2>2, FileAssumption
  <2>4. QED
    BY <1>14, <2>1, <2>3 DEF InstallConversion, Go, opv, TypeOK, OneOperation,
         Started, StageInv
<1>15. ASSUME NEW o \in Op, RollBack(o) PROVE StageInv'
  BY <1>15, OpAssumption DEF RollBack, Go, svc, opv, rem, cln, StageInv, TypeOK,
       OneOperation, Started
<1>16. ASSUME NEW o \in Op, DropBackup(o) PROVE StageInv'
  BY <1>16, OpAssumption DEF DropBackup, Go, svc, opv, rem, cln, StageInv, TypeOK,
       OneOperation, Started
<1>17. ASSUME NEW o \in Op, FinalizeFails(o) PROVE StageInv'
  BY <1>17 DEF FinalizeFails, Go, disk, svc, opv, rem, cln, StageInv
<1>18. ASSUME NEW o \in Op, Stamp(o) PROVE StageInv'
  BY <1>18, OpAssumption DEF Stamp, Go, svc, opv, rem, cln, StageInv, TypeOK,
       OneOperation, Started
<1>19. ASSUME NEW o \in Op, Discard(o) PROVE StageInv'
  BY <1>19 DEF Discard, Go, svc, opv, rem, cln, StageInv
<1>20. ASSUME NEW o \in Op, ClearActive(o) PROVE StageInv'
  BY <1>20 DEF ClearActive, Go, disk, opv, rem, cln, StageInv
<1>21. ASSUME NEW o \in Op, CloseDone(o) PROVE StageInv'
  BY <1>21 DEF CloseDone, Go, disk, svc, opv, rem, cln, StageInv
<1>22. CASE Delete
  BY <1>22, OpAssumption DEF Delete, svc, opv, rem, cln, StageInv, TypeOK,
       OneOperation, Started
<1>23. CASE BeginRemove
  BY <1>23 DEF BeginRemove, Halt, disk, opv, cln, StageInv
<1>24. CASE BeginPrune
  BY <1>24 DEF BeginPrune, GoRem, disk, svc, opv, cln, StageInv
<1>25. CASE StoppedSeen
  BY <1>25 DEF StoppedSeen, GoRem, disk, svc, opv, cln, StageInv
<1>26. CASE StopTimesOut
  BY <1>26 DEF StopTimesOut, GoRem, disk, svc, opv, cln, StageInv
<1>27. CASE RemoveOutput
  BY <1>27, OpAssumption, FileAssumption DEF RemoveOutput, GoRem, svc, opv, cln,
       StageInv, TypeOK, OneOperation, Started, RemovalIsAlone, File, Source
<1>28. CASE RemoveBackup
  BY <1>28, OpAssumption, FileAssumption DEF RemoveBackup, GoRem, svc, opv, cln,
       StageInv, TypeOK, OneOperation, Started, RemovalIsAlone, File, Source
<1>29. CASE RemovePartials
  BY <1>29 DEF RemovePartials, svc, opv, cln, StageInv
<1>30. CASE RemoveMetadata
  BY <1>30 DEF RemoveMetadata, disk, svc, opv, cln, StageInv
<1>31. CASE Release
  BY <1>31 DEF Release, GoRem, disk, svc, opv, cln, StageInv
<1>32. CASE Save
  BY <1>32 DEF Save, disk, svc, opv, rem, cln, StageInv
<1>33. CASE Stop
  BY <1>33 DEF Stop, Halt, disk, opv, rem, cln, StageInv
<1>34. CASE BeginCleanup
  BY <1>34 DEF BeginCleanup, disk, svc, opv, rem, StageInv
<1>35. CASE Recover
  BY <1>35, OpAssumption DEF Recover, svc, opv, rem, StageInv, TypeOK, OneOperation,
       Started
<1>36. CASE ListOutput
  BY <1>36 DEF ListOutput, disk, svc, opv, rem, StageInv
<1>37. CASE RemoveExpired
  BY <1>37, OpAssumption DEF RemoveExpired, svc, opv, rem, StageInv, TypeOK,
       OneOperation, Started
<1>38. ASSUME NEW o \in Op, RemoveInterrupted(o) PROVE StageInv'
  BY <1>38 DEF RemoveInterrupted, svc, opv, rem, StageInv
<1>39. CASE Age
  BY <1>39 DEF Age, Aged, svc, opv, rem, cln, StageInv
<1>40. CASE Crash
  BY <1>40 DEF Crash, disk, opv, StageInv
<1>41. CASE UNCHANGED vars
  BY <1>41 DEF StageInv, vars, disk, svc, opv, rem, cln
<1>42. QED
  BY <1>1, <1>2, <1>3, <1>4, <1>5, <1>6, <1>7, <1>8, <1>9, <1>10, <1>11, <1>12,
       <1>13, <1>14, <1>15, <1>16, <1>17, <1>18, <1>19, <1>20, <1>21, <1>22, <1>23,
       <1>24, <1>25, <1>26, <1>27, <1>28, <1>29, <1>30, <1>31, <1>32, <1>33, <1>34,
       <1>35, <1>36, <1>37, <1>38, <1>39, <1>40, <1>41 DEF Next, OpStep, RemovalStep,
       CleanupStep

\* The .part file of an operation stays.
LEMMA TempPreserved == IInv /\ [Next]_vars => TempIsKept'
<1> SUFFICES ASSUME TypeOK, OneOperation, RemovalIsAlone, TempIsKept, [Next]_vars
     PROVE TempIsKept'
  BY DEF IInv
<1>1. ASSUME NEW o \in Op, NEW k \in {"download", "convert"}, NEW b \in BOOLEAN,
     Request(o, k, b) PROVE TempIsKept'
  BY <1>1 DEF Request, Go, disk, svc, rem, cln, TempIsKept
<1>2. ASSUME NEW o \in Op, CheckInactive(o) PROVE TempIsKept'
  BY <1>2 DEF CheckInactive, Go, disk, svc, opv, rem, cln, TempIsKept
<1>3. ASSUME NEW o \in Op, ReadSize(o) PROVE TempIsKept'
  BY <1>3 DEF ReadSize, Go, Size, disk, svc, rem, cln, TempIsKept
<1>4. ASSUME NEW o \in Op, Probe(o) PROVE TempIsKept'
  BY <1>4 DEF Probe, Go, disk, svc, opv, rem, cln, TempIsKept
<1>5. ASSUME NEW o \in Op, RegisterDownload(o) PROVE TempIsKept'
  BY <1>5 DEF RegisterDownload, Go, Accepting, disk, opv, rem, cln, TempIsKept
<1>6. ASSUME NEW o \in Op, RegisterConversion(o) PROVE TempIsKept'
  BY <1>6 DEF RegisterConversion, Go, Accepting, Size, disk, opv, rem, cln, TempIsKept
<1>7. ASSUME NEW o \in Op, Prepare(o) PROVE TempIsKept'
  BY <1>7 DEF Prepare, Go, Wanted, svc, opv, rem, cln, TempIsKept, TypeOK
<1>8. ASSUME NEW o \in Op, Launch(o) PROVE TempIsKept'
  BY <1>8 DEF Launch, Go, Wanted, disk, svc, opv, rem, cln, TempIsKept, TypeOK
<1>9. ASSUME NEW o \in Op, FfmpegEnds(o) PROVE TempIsKept'
  BY <1>9 DEF FfmpegEnds, Go, disk, svc, opv, rem, cln, TempIsKept, TypeOK
<1>10. ASSUME NEW o \in Op, ReadResult(o) PROVE TempIsKept'
  BY <1>10 DEF ReadResult, Go, disk, svc, opv, rem, cln, TempIsKept
<1>11. ASSUME NEW o \in Op, InstallDownload(o) PROVE TempIsKept'
  BY <1>11 DEF InstallDownload, Go, svc, opv, rem, cln, TempIsKept, TypeOK
<1>12. ASSUME NEW o \in Op, RemoveStaleBackup(o) PROVE TempIsKept'
  BY <1>12 DEF RemoveStaleBackup, Go, svc, opv, rem, cln, TempIsKept
<1>13. ASSUME NEW o \in Op, BackUpOriginal(o) PROVE TempIsKept'
  BY <1>13 DEF BackUpOriginal, Go, svc, opv, rem, cln, TempIsKept
<1>14. ASSUME NEW o \in Op, InstallConversion(o) PROVE TempIsKept'
  BY <1>14 DEF InstallConversion, Go, svc, opv, rem, cln, TempIsKept, TypeOK
<1>15. ASSUME NEW o \in Op, RollBack(o) PROVE TempIsKept'
  BY <1>15 DEF RollBack, Go, svc, opv, rem, cln, TempIsKept
<1>16. ASSUME NEW o \in Op, DropBackup(o) PROVE TempIsKept'
  BY <1>16 DEF DropBackup, Go, svc, opv, rem, cln, TempIsKept
<1>17. ASSUME NEW o \in Op, FinalizeFails(o) PROVE TempIsKept'
  BY <1>17 DEF FinalizeFails, Go, disk, svc, opv, rem, cln, TempIsKept
<1>18. ASSUME NEW o \in Op, Stamp(o) PROVE TempIsKept'
  BY <1>18 DEF Stamp, Go, svc, opv, rem, cln, TempIsKept
<1>19. ASSUME NEW o \in Op, Discard(o) PROVE TempIsKept'
  BY <1>19 DEF Discard, Go, svc, opv, rem, cln, TempIsKept
<1>20. ASSUME NEW o \in Op, ClearActive(o) PROVE TempIsKept'
  BY <1>20 DEF ClearActive, Go, disk, opv, rem, cln, TempIsKept
<1>21. ASSUME NEW o \in Op, CloseDone(o) PROVE TempIsKept'
  BY <1>21 DEF CloseDone, Go, disk, svc, opv, rem, cln, TempIsKept
<1>22. CASE Delete
  BY <1>22 DEF Delete, svc, opv, rem, cln, TempIsKept
<1>23. CASE BeginRemove
  BY <1>23 DEF BeginRemove, Halt, disk, opv, cln, TempIsKept
<1>24. CASE BeginPrune
  BY <1>24 DEF BeginPrune, GoRem, disk, svc, opv, cln, TempIsKept
<1>25. CASE StoppedSeen
  BY <1>25 DEF StoppedSeen, GoRem, disk, svc, opv, cln, TempIsKept
<1>26. CASE StopTimesOut
  BY <1>26 DEF StopTimesOut, GoRem, disk, svc, opv, cln, TempIsKept
<1>27. CASE RemoveOutput
  BY <1>27 DEF RemoveOutput, GoRem, svc, opv, cln, TempIsKept
<1>28. CASE RemoveBackup
  BY <1>28 DEF RemoveBackup, GoRem, svc, opv, cln, TempIsKept
<1>29. CASE RemovePartials
  BY <1>29, OpAssumption DEF RemovePartials, svc, opv, cln, TempIsKept, TypeOK,
       OneOperation, Started, RemovalIsAlone
<1>30. CASE RemoveMetadata
  BY <1>30 DEF RemoveMetadata, disk, svc, opv, cln, TempIsKept
<1>31. CASE Release
  BY <1>31 DEF Release, GoRem, disk, svc, opv, cln, TempIsKept
<1>32. CASE Save
  BY <1>32 DEF Save, disk, svc, opv, rem, cln, TempIsKept
<1>33. CASE Stop
  BY <1>33 DEF Stop, Halt, disk, opv, rem, cln, TempIsKept
<1>34. CASE BeginCleanup
  BY <1>34 DEF BeginCleanup, disk, svc, opv, rem, TempIsKept
<1>35. CASE Recover
  BY <1>35 DEF Recover, svc, opv, rem, TempIsKept
<1>36. CASE ListOutput
  BY <1>36 DEF ListOutput, disk, svc, opv, rem, TempIsKept
<1>37. CASE RemoveExpired
  BY <1>37 DEF RemoveExpired, svc, opv, rem, TempIsKept
<1>38. ASSUME NEW o \in Op, RemoveInterrupted(o) PROVE TempIsKept'
  BY <1>38, OpAssumption DEF RemoveInterrupted, svc, opv, rem, TempIsKept, TypeOK,
       OneOperation, Started
<1>39. CASE Age
  BY <1>39 DEF Age, Aged, svc, opv, rem, cln, TempIsKept
<1>40. CASE Crash
  BY <1>40 DEF Crash, disk, opv, TempIsKept
<1>41. CASE UNCHANGED vars
  BY <1>41 DEF TempIsKept, vars, disk, svc, opv, rem, cln
<1>42. QED
  BY <1>1, <1>2, <1>3, <1>4, <1>5, <1>6, <1>7, <1>8, <1>9, <1>10, <1>11, <1>12,
       <1>13, <1>14, <1>15, <1>16, <1>17, <1>18, <1>19, <1>20, <1>21, <1>22, <1>23,
       <1>24, <1>25, <1>26, <1>27, <1>28, <1>29, <1>30, <1>31, <1>32, <1>33, <1>34,
       <1>35, <1>36, <1>37, <1>38, <1>39, <1>40, <1>41 DEF Next, OpStep, RemovalStep,
       CleanupStep

\* The input of a conversion stays.
LEMMA InputPreserved == IInv /\ [Next]_vars => ConversionReadsItsInput'
<1> SUFFICES ASSUME TypeOK, OneOperation, RemovalIsAlone, StageInv,
     ConversionReadsItsInput, [Next]_vars PROVE ConversionReadsItsInput'
  BY DEF IInv
<1>1. ASSUME NEW o \in Op, NEW k \in {"download", "convert"}, NEW b \in BOOLEAN,
     Request(o, k, b) PROVE ConversionReadsItsInput'
  BY <1>1 DEF Request, Go, disk, svc, rem, cln, ConversionReadsItsInput, Unfinished
<1>2. ASSUME NEW o \in Op, CheckInactive(o) PROVE ConversionReadsItsInput'
  BY <1>2 DEF CheckInactive, Go, disk, svc, opv, rem, cln, ConversionReadsItsInput,
       Unfinished
<1>3. ASSUME NEW o \in Op, ReadSize(o) PROVE ConversionReadsItsInput'
  BY <1>3 DEF ReadSize, Go, Size, disk, svc, rem, cln, ConversionReadsItsInput,
       Unfinished
<1>4. ASSUME NEW o \in Op, Probe(o) PROVE ConversionReadsItsInput'
  BY <1>4 DEF Probe, Go, disk, svc, opv, rem, cln, ConversionReadsItsInput, Unfinished
<1>5. ASSUME NEW o \in Op, RegisterDownload(o) PROVE ConversionReadsItsInput'
  BY <1>5 DEF RegisterDownload, Go, Accepting, disk, opv, rem, cln,
       ConversionReadsItsInput, Unfinished
<1>6. ASSUME NEW o \in Op, RegisterConversion(o) PROVE ConversionReadsItsInput'
  BY <1>6 DEF RegisterConversion, Go, Accepting, Size, disk, opv, rem, cln,
       ConversionReadsItsInput, Unfinished
<1>7. ASSUME NEW o \in Op, Prepare(o) PROVE ConversionReadsItsInput'
  BY <1>7 DEF Prepare, Go, Wanted, svc, opv, rem, cln, ConversionReadsItsInput,
       Unfinished, TypeOK, Size
<1>8. ASSUME NEW o \in Op, Launch(o) PROVE ConversionReadsItsInput'
  BY <1>8 DEF Launch, Go, Wanted, disk, svc, opv, rem, cln, ConversionReadsItsInput,
       Unfinished, TypeOK, Size
<1>9. ASSUME NEW o \in Op, FfmpegEnds(o) PROVE ConversionReadsItsInput'
  BY <1>9 DEF FfmpegEnds, Go, disk, svc, opv, rem, cln, ConversionReadsItsInput,
       Unfinished, TypeOK, Size
<1>10. ASSUME NEW o \in Op, ReadResult(o) PROVE ConversionReadsItsInput'
  BY <1>10 DEF ReadResult, Go, disk, svc, opv, rem, cln, ConversionReadsItsInput,
       Unfinished
<1>11. ASSUME NEW o \in Op, InstallDownload(o) PROVE ConversionReadsItsInput'
  BY <1>11 DEF InstallDownload, Go, svc, opv, rem, cln, ConversionReadsItsInput,
       Unfinished
<1>12. ASSUME NEW o \in Op, RemoveStaleBackup(o) PROVE ConversionReadsItsInput'
  BY <1>12 DEF RemoveStaleBackup, Go, svc, opv, rem, cln, ConversionReadsItsInput,
       Unfinished
<1>13. ASSUME NEW o \in Op, BackUpOriginal(o) PROVE ConversionReadsItsInput'
  BY <1>13, OpAssumption DEF BackUpOriginal, Go, svc, opv, rem, cln,
       ConversionReadsItsInput, Unfinished, TypeOK, OneOperation, Started, Size
<1>14. ASSUME NEW o \in Op, InstallConversion(o) PROVE ConversionReadsItsInput'
  BY <1>14, OpAssumption DEF InstallConversion, Go, svc, opv, rem, cln,
       ConversionReadsItsInput, Unfinished, TypeOK, OneOperation, Started, Size
<1>15. ASSUME NEW o \in Op, RollBack(o) PROVE ConversionReadsItsInput'
  BY <1>15, OpAssumption DEF RollBack, Go, svc, opv, rem, cln,
       ConversionReadsItsInput, Unfinished, TypeOK, OneOperation, Started, Size
<1>16. ASSUME NEW o \in Op, DropBackup(o) PROVE ConversionReadsItsInput'
  BY <1>16 DEF DropBackup, Go, svc, opv, rem, cln, ConversionReadsItsInput, Unfinished
<1>17. ASSUME NEW o \in Op, FinalizeFails(o) PROVE ConversionReadsItsInput'
  BY <1>17 DEF FinalizeFails, Go, disk, svc, opv, rem, cln, ConversionReadsItsInput,
       Unfinished
<1>18. ASSUME NEW o \in Op, Stamp(o) PROVE ConversionReadsItsInput'
  BY <1>18, OpAssumption DEF Stamp, Go, svc, opv, rem, cln, ConversionReadsItsInput,
       Unfinished, TypeOK, OneOperation, Started, Size
<1>19. ASSUME NEW o \in Op, Discard(o) PROVE ConversionReadsItsInput'
  BY <1>19 DEF Discard, Go, svc, opv, rem, cln, ConversionReadsItsInput, Unfinished
<1>20. ASSUME NEW o \in Op, ClearActive(o) PROVE ConversionReadsItsInput'
  BY <1>20 DEF ClearActive, Go, disk, opv, rem, cln, ConversionReadsItsInput,
       Unfinished
<1>21. ASSUME NEW o \in Op, CloseDone(o) PROVE ConversionReadsItsInput'
  BY <1>21 DEF CloseDone, Go, disk, svc, opv, rem, cln, ConversionReadsItsInput,
       Unfinished
<1>22. CASE Delete
  BY <1>22, OpAssumption DEF Delete, svc, opv, rem, cln, ConversionReadsItsInput,
       Unfinished, TypeOK, OneOperation, Started, Size
<1>23. CASE BeginRemove
  BY <1>23 DEF BeginRemove, Halt, disk, opv, cln, ConversionReadsItsInput, Unfinished
<1>24. CASE BeginPrune
  BY <1>24 DEF BeginPrune, GoRem, disk, svc, opv, cln, ConversionReadsItsInput,
       Unfinished
<1>25. CASE StoppedSeen
  BY <1>25 DEF StoppedSeen, GoRem, disk, svc, opv, cln, ConversionReadsItsInput,
       Unfinished
<1>26. CASE StopTimesOut
  BY <1>26 DEF StopTimesOut, GoRem, disk, svc, opv, cln, ConversionReadsItsInput,
       Unfinished
<1>27. CASE RemoveOutput
  BY <1>27, OpAssumption DEF RemoveOutput, GoRem, svc, opv, cln,
       ConversionReadsItsInput, Unfinished, TypeOK, OneOperation, Started,
       RemovalIsAlone, StageInv, Size
<1>28. CASE RemoveBackup
  BY <1>28 DEF RemoveBackup, GoRem, svc, opv, cln, ConversionReadsItsInput, Unfinished
<1>29. CASE RemovePartials
  BY <1>29 DEF RemovePartials, svc, opv, cln, ConversionReadsItsInput, Unfinished
<1>30. CASE RemoveMetadata
  BY <1>30 DEF RemoveMetadata, disk, svc, opv, cln, ConversionReadsItsInput,
       Unfinished
<1>31. CASE Release
  BY <1>31 DEF Release, GoRem, disk, svc, opv, cln, ConversionReadsItsInput,
       Unfinished
<1>32. CASE Save
  BY <1>32 DEF Save, disk, svc, opv, rem, cln, ConversionReadsItsInput, Unfinished
<1>33. CASE Stop
  BY <1>33 DEF Stop, Halt, disk, opv, rem, cln, ConversionReadsItsInput, Unfinished
<1>34. CASE BeginCleanup
  BY <1>34 DEF BeginCleanup, disk, svc, opv, rem, ConversionReadsItsInput, Unfinished
<1>35. CASE Recover
  BY <1>35 DEF Recover, svc, opv, rem, ConversionReadsItsInput, Unfinished
<1>36. CASE ListOutput
  BY <1>36 DEF ListOutput, disk, svc, opv, rem, ConversionReadsItsInput, Unfinished
<1>37. CASE RemoveExpired
  BY <1>37, OpAssumption DEF RemoveExpired, svc, opv, rem, ConversionReadsItsInput,
       Unfinished, TypeOK, OneOperation, Started, Size
<1>38. ASSUME NEW o \in Op, RemoveInterrupted(o) PROVE ConversionReadsItsInput'
  BY <1>38 DEF RemoveInterrupted, svc, opv, rem, ConversionReadsItsInput, Unfinished
<1>39. CASE Age
  BY <1>39, OpAssumption, FileAssumption DEF Age, Aged, svc, opv, rem, cln,
       ConversionReadsItsInput, Unfinished, TypeOK, OneOperation, Started,
       RemovalIsAlone, StageInv, Size, File, Source
<1>40. CASE Crash
  BY <1>40 DEF Crash, disk, opv, ConversionReadsItsInput, Unfinished
<1>41. CASE UNCHANGED vars
  BY <1>41 DEF ConversionReadsItsInput, Unfinished, vars, disk, svc, opv, rem, cln
<1>42. QED
  BY <1>1, <1>2, <1>3, <1>4, <1>5, <1>6, <1>7, <1>8, <1>9, <1>10, <1>11, <1>12,
       <1>13, <1>14, <1>15, <1>16, <1>17, <1>18, <1>19, <1>20, <1>21, <1>22, <1>23,
       <1>24, <1>25, <1>26, <1>27, <1>28, <1>29, <1>30, <1>31, <1>32, <1>33, <1>34,
       <1>35, <1>36, <1>37, <1>38, <1>39, <1>40, <1>41 DEF Next, OpStep, RemovalStep,
       CleanupStep

\* The name of a download stays free.
LEMMA NamePreserved == IInv /\ [Next]_vars => NameStaysFree'
<1> SUFFICES ASSUME TypeOK, OneOperation, RemovalIsAlone, StageInv, NameStaysFree,
     [Next]_vars PROVE NameStaysFree'
  BY DEF IInv
<1>1. ASSUME NEW o \in Op, NEW k \in {"download", "convert"}, NEW b \in BOOLEAN,
     Request(o, k, b) PROVE NameStaysFree'
  BY <1>1 DEF Request, Go, disk, svc, rem, cln, NameStaysFree, Unfinished
<1>2. ASSUME NEW o \in Op, CheckInactive(o) PROVE NameStaysFree'
  BY <1>2 DEF CheckInactive, Go, disk, svc, opv, rem, cln, NameStaysFree, Unfinished
<1>3. ASSUME NEW o \in Op, ReadSize(o) PROVE NameStaysFree'
  BY <1>3 DEF ReadSize, Go, Size, disk, svc, rem, cln, NameStaysFree, Unfinished
<1>4. ASSUME NEW o \in Op, Probe(o) PROVE NameStaysFree'
  BY <1>4 DEF Probe, Go, disk, svc, opv, rem, cln, NameStaysFree, Unfinished
<1>5. ASSUME NEW o \in Op, RegisterDownload(o) PROVE NameStaysFree'
  BY <1>5 DEF RegisterDownload, Go, Accepting, disk, opv, rem, cln, NameStaysFree,
       Unfinished
<1>6. ASSUME NEW o \in Op, RegisterConversion(o) PROVE NameStaysFree'
  BY <1>6, OpAssumption DEF RegisterConversion, Go, Accepting, Size, disk, opv, rem,
       cln, NameStaysFree, Unfinished, TypeOK, OneOperation, Started, RemovalIsAlone,
       StageInv
<1>7. ASSUME NEW o \in Op, Prepare(o) PROVE NameStaysFree'
  BY <1>7 DEF Prepare, Go, Wanted, svc, opv, rem, cln, NameStaysFree, Unfinished,
       TypeOK
<1>8. ASSUME NEW o \in Op, Launch(o) PROVE NameStaysFree'
  BY <1>8 DEF Launch, Go, Wanted, disk, svc, opv, rem, cln, NameStaysFree,
       Unfinished, TypeOK
<1>9. ASSUME NEW o \in Op, FfmpegEnds(o) PROVE NameStaysFree'
  BY <1>9 DEF FfmpegEnds, Go, disk, svc, opv, rem, cln, NameStaysFree, Unfinished,
       TypeOK
<1>10. ASSUME NEW o \in Op, ReadResult(o) PROVE NameStaysFree'
  BY <1>10 DEF ReadResult, Go, disk, svc, opv, rem, cln, NameStaysFree, Unfinished
<1>11. ASSUME NEW o \in Op, InstallDownload(o) PROVE NameStaysFree'
  BY <1>11, OpAssumption DEF InstallDownload, Go, svc, opv, rem, cln, NameStaysFree,
       Unfinished, TypeOK, OneOperation, Started
<1>12. ASSUME NEW o \in Op, RemoveStaleBackup(o) PROVE NameStaysFree'
  BY <1>12 DEF RemoveStaleBackup, Go, svc, opv, rem, cln, NameStaysFree, Unfinished
<1>13. ASSUME NEW o \in Op, BackUpOriginal(o) PROVE NameStaysFree'
  BY <1>13 DEF BackUpOriginal, Go, svc, opv, rem, cln, NameStaysFree, Unfinished
<1>14. ASSUME NEW o \in Op, InstallConversion(o) PROVE NameStaysFree'
  BY <1>14, OpAssumption DEF InstallConversion, Go, svc, opv, rem, cln,
       NameStaysFree, Unfinished, TypeOK, OneOperation, Started
<1>15. ASSUME NEW o \in Op, RollBack(o) PROVE NameStaysFree'
  BY <1>15, OpAssumption DEF RollBack, Go, svc, opv, rem, cln, NameStaysFree,
       Unfinished, TypeOK, OneOperation, Started
<1>16. ASSUME NEW o \in Op, DropBackup(o) PROVE NameStaysFree'
  BY <1>16 DEF DropBackup, Go, svc, opv, rem, cln, NameStaysFree, Unfinished
<1>17. ASSUME NEW o \in Op, FinalizeFails(o) PROVE NameStaysFree'
  BY <1>17 DEF FinalizeFails, Go, disk, svc, opv, rem, cln, NameStaysFree, Unfinished
<1>18. ASSUME NEW o \in Op, Stamp(o) PROVE NameStaysFree'
  BY <1>18 DEF Stamp, Go, svc, opv, rem, cln, NameStaysFree, Unfinished
<1>19. ASSUME NEW o \in Op, Discard(o) PROVE NameStaysFree'
  BY <1>19 DEF Discard, Go, svc, opv, rem, cln, NameStaysFree, Unfinished
<1>20. ASSUME NEW o \in Op, ClearActive(o) PROVE NameStaysFree'
  BY <1>20 DEF ClearActive, Go, disk, opv, rem, cln, NameStaysFree, Unfinished
<1>21. ASSUME NEW o \in Op, CloseDone(o) PROVE NameStaysFree'
  BY <1>21 DEF CloseDone, Go, disk, svc, opv, rem, cln, NameStaysFree, Unfinished
<1>22. CASE Delete
  BY <1>22 DEF Delete, svc, opv, rem, cln, NameStaysFree, Unfinished
<1>23. CASE BeginRemove
  BY <1>23 DEF BeginRemove, Halt, disk, opv, cln, NameStaysFree, Unfinished
<1>24. CASE BeginPrune
  BY <1>24 DEF BeginPrune, GoRem, disk, svc, opv, cln, NameStaysFree, Unfinished
<1>25. CASE StoppedSeen
  BY <1>25 DEF StoppedSeen, GoRem, disk, svc, opv, cln, NameStaysFree, Unfinished
<1>26. CASE StopTimesOut
  BY <1>26 DEF StopTimesOut, GoRem, disk, svc, opv, cln, NameStaysFree, Unfinished
<1>27. CASE RemoveOutput
  BY <1>27 DEF RemoveOutput, GoRem, svc, opv, cln, NameStaysFree, Unfinished
<1>28. CASE RemoveBackup
  BY <1>28 DEF RemoveBackup, GoRem, svc, opv, cln, NameStaysFree, Unfinished
<1>29. CASE RemovePartials
  BY <1>29 DEF RemovePartials, svc, opv, cln, NameStaysFree, Unfinished
<1>30. CASE RemoveMetadata
  BY <1>30 DEF RemoveMetadata, disk, svc, opv, cln, NameStaysFree, Unfinished
<1>31. CASE Release
  BY <1>31 DEF Release, GoRem, disk, svc, opv, cln, NameStaysFree, Unfinished
<1>32. CASE Save
  BY <1>32 DEF Save, disk, svc, opv, rem, cln, NameStaysFree, Unfinished
<1>33. CASE Stop
  BY <1>33 DEF Stop, Halt, disk, opv, rem, cln, NameStaysFree, Unfinished
<1>34. CASE BeginCleanup
  BY <1>34 DEF BeginCleanup, disk, svc, opv, rem, NameStaysFree, Unfinished
<1>35. CASE Recover
  BY <1>35, OpAssumption DEF Recover, svc, opv, rem, NameStaysFree, Unfinished,
       TypeOK, OneOperation, Started
<1>36. CASE ListOutput
  BY <1>36 DEF ListOutput, disk, svc, opv, rem, NameStaysFree, Unfinished
<1>37. CASE RemoveExpired
  BY <1>37 DEF RemoveExpired, svc, opv, rem, NameStaysFree, Unfinished
<1>38. ASSUME NEW o \in Op, RemoveInterrupted(o) PROVE NameStaysFree'
  BY <1>38 DEF RemoveInterrupted, svc, opv, rem, NameStaysFree, Unfinished
<1>39. CASE Age
  BY <1>39 DEF Age, Aged, svc, opv, rem, cln, NameStaysFree, Unfinished
<1>40. CASE Crash
  BY <1>40 DEF Crash, disk, opv, NameStaysFree, Unfinished
<1>41. CASE UNCHANGED vars
  BY <1>41 DEF NameStaysFree, Unfinished, vars, disk, svc, opv, rem, cln
<1>42. QED
  BY <1>1, <1>2, <1>3, <1>4, <1>5, <1>6, <1>7, <1>8, <1>9, <1>10, <1>11, <1>12,
       <1>13, <1>14, <1>15, <1>16, <1>17, <1>18, <1>19, <1>20, <1>21, <1>22, <1>23,
       <1>24, <1>25, <1>26, <1>27, <1>28, <1>29, <1>30, <1>31, <1>32, <1>33, <1>34,
       <1>35, <1>36, <1>37, <1>38, <1>39, <1>40, <1>41 DEF Next, OpStep, RemovalStep,
       CleanupStep

\* The only step that loses the last copy of a finished download nobody deleted is
\* the one that removes what has expired.
Spared == owed' /\ ~HasCopy' => cpc = "expire"

LEMMA LossIsExpiry == IInv /\ [Next]_vars => (owed /\ HasCopy => Spared)
<1> SUFFICES ASSUME TypeOK, StageInv, RemovalInv, [Next]_vars, owed, HasCopy PROVE
     Spared
  BY DEF IInv
<1>1. ASSUME NEW o \in Op, NEW k \in {"download", "convert"}, NEW b \in BOOLEAN,
     Request(o, k, b) PROVE Spared
  BY <1>1 DEF Request, Go, disk, svc, rem, cln, Spared, HasCopy
<1>2. ASSUME NEW o \in Op, CheckInactive(o) PROVE Spared
  BY <1>2 DEF CheckInactive, Go, disk, svc, opv, rem, cln, Spared, HasCopy
<1>3. ASSUME NEW o \in Op, ReadSize(o) PROVE Spared
  BY <1>3 DEF ReadSize, Go, Size, disk, svc, rem, cln, Spared, HasCopy
<1>4. ASSUME NEW o \in Op, Probe(o) PROVE Spared
  BY <1>4 DEF Probe, Go, disk, svc, opv, rem, cln, Spared, HasCopy
<1>5. ASSUME NEW o \in Op, RegisterDownload(o) PROVE Spared
  BY <1>5 DEF RegisterDownload, Go, Accepting, disk, opv, rem, cln, Spared, HasCopy
<1>6. ASSUME NEW o \in Op, RegisterConversion(o) PROVE Spared
  BY <1>6 DEF RegisterConversion, Go, Accepting, Size, disk, opv, rem, cln, Spared,
       HasCopy
<1>7. ASSUME NEW o \in Op, Prepare(o) PROVE Spared
  BY <1>7 DEF Prepare, Go, Wanted, svc, opv, rem, cln, Spared, HasCopy
<1>8. ASSUME NEW o \in Op, Launch(o) PROVE Spared
  BY <1>8 DEF Launch, Go, Wanted, disk, svc, opv, rem, cln, Spared, HasCopy
<1>9. ASSUME NEW o \in Op, FfmpegEnds(o) PROVE Spared
  BY <1>9 DEF FfmpegEnds, Go, disk, svc, opv, rem, cln, Spared, HasCopy
<1>10. ASSUME NEW o \in Op, ReadResult(o) PROVE Spared
  BY <1>10 DEF ReadResult, Go, disk, svc, opv, rem, cln, Spared, HasCopy
<1>11. ASSUME NEW o \in Op, InstallDownload(o) PROVE Spared
  BY <1>11 DEF InstallDownload, Go, svc, opv, rem, cln, Spared, HasCopy
<1>12. ASSUME NEW o \in Op, RemoveStaleBackup(o) PROVE Spared
  BY <1>12 DEF RemoveStaleBackup, Go, svc, opv, rem, cln, Spared, HasCopy
<1>13. ASSUME NEW o \in Op, BackUpOriginal(o) PROVE Spared
  BY <1>13 DEF BackUpOriginal, Go, svc, opv, rem, cln, Spared, HasCopy
<1>14. ASSUME NEW o \in Op, InstallConversion(o) PROVE Spared
  BY <1>14, FileAssumption DEF InstallConversion, Go, svc, opv, rem, cln, Spared,
       HasCopy, TypeOK, StageInv, RemovalInv, File, Source
<1>15. ASSUME NEW o \in Op, RollBack(o) PROVE Spared
  BY <1>15, FileAssumption DEF RollBack, Go, svc, opv, rem, cln, Spared, HasCopy,
       TypeOK, StageInv, RemovalInv, File, Source
<1>16. ASSUME NEW o \in Op, DropBackup(o) PROVE Spared
  BY <1>16, FileAssumption DEF DropBackup, Go, svc, opv, rem, cln, Spared, HasCopy,
       TypeOK, StageInv, RemovalInv, File, Source
<1>17. ASSUME NEW o \in Op, FinalizeFails(o) PROVE Spared
  BY <1>17 DEF FinalizeFails, Go, disk, svc, opv, rem, cln, Spared, HasCopy
<1>18. ASSUME NEW o \in Op, Stamp(o) PROVE Spared
  BY <1>18, FileAssumption DEF Stamp, Go, svc, opv, rem, cln, Spared, HasCopy,
       TypeOK, StageInv, RemovalInv, File, Source
<1>19. ASSUME NEW o \in Op, Discard(o) PROVE Spared
  BY <1>19 DEF Discard, Go, svc, opv, rem, cln, Spared, HasCopy
<1>20. ASSUME NEW o \in Op, ClearActive(o) PROVE Spared
  BY <1>20 DEF ClearActive, Go, disk, opv, rem, cln, Spared, HasCopy
<1>21. ASSUME NEW o \in Op, CloseDone(o) PROVE Spared
  BY <1>21 DEF CloseDone, Go, disk, svc, opv, rem, cln, Spared, HasCopy
<1>22. CASE Delete
  BY <1>22 DEF Delete, svc, opv, rem, cln, Spared, HasCopy
<1>23. CASE BeginRemove
  BY <1>23 DEF BeginRemove, Halt, disk, opv, cln, Spared, HasCopy
<1>24. CASE BeginPrune
  BY <1>24 DEF BeginPrune, GoRem, disk, svc, opv, cln, Spared, HasCopy
<1>25. CASE StoppedSeen
  BY <1>25 DEF StoppedSeen, GoRem, disk, svc, opv, cln, Spared, HasCopy
<1>26. CASE StopTimesOut
  BY <1>26 DEF StopTimesOut, GoRem, disk, svc, opv, cln, Spared, HasCopy
<1>27. CASE RemoveOutput
  BY <1>27 DEF RemoveOutput, GoRem, svc, opv, cln, Spared, HasCopy
<1>28. CASE RemoveBackup
  BY <1>28, FileAssumption DEF RemoveBackup, GoRem, svc, opv, cln, Spared, HasCopy,
       TypeOK, StageInv, RemovalInv, File, Source
<1>29. CASE RemovePartials
  BY <1>29 DEF RemovePartials, svc, opv, cln, Spared, HasCopy
<1>30. CASE RemoveMetadata
  BY <1>30 DEF RemoveMetadata, disk, svc, opv, cln, Spared, HasCopy
<1>31. CASE Release
  BY <1>31 DEF Release, GoRem, disk, svc, opv, cln, Spared, HasCopy
<1>32. CASE Save
  BY <1>32 DEF Save, disk, svc, opv, rem, cln, Spared, HasCopy
<1>33. CASE Stop
  BY <1>33 DEF Stop, Halt, disk, opv, rem, cln, Spared, HasCopy
<1>34. CASE BeginCleanup
  BY <1>34 DEF BeginCleanup, disk, svc, opv, rem, Spared, HasCopy
<1>35. CASE Recover
  BY <1>35 DEF Recover, svc, opv, rem, Spared, HasCopy
<1>36. CASE ListOutput
  BY <1>36 DEF ListOutput, disk, svc, opv, rem, Spared, HasCopy
<1>37. CASE RemoveExpired
  BY <1>37 DEF RemoveExpired, svc, opv, rem, Spared, HasCopy
<1>38. ASSUME NEW o \in Op, RemoveInterrupted(o) PROVE Spared
  BY <1>38 DEF RemoveInterrupted, svc, opv, rem, Spared, HasCopy
<1>39. CASE Age
  BY <1>39, FileAssumption DEF Age, Aged, svc, opv, rem, cln, Spared, HasCopy,
       TypeOK, StageInv, RemovalInv, File, Source
<1>40. CASE Crash
  BY <1>40 DEF Crash, disk, opv, Spared, HasCopy
<1>41. CASE UNCHANGED vars
  BY <1>41 DEF Spared, HasCopy, vars, disk, svc, opv, rem, cln
<1>42. QED
  BY <1>1, <1>2, <1>3, <1>4, <1>5, <1>6, <1>7, <1>8, <1>9, <1>10, <1>11, <1>12,
       <1>13, <1>14, <1>15, <1>16, <1>17, <1>18, <1>19, <1>20, <1>21, <1>22, <1>23,
       <1>24, <1>25, <1>26, <1>27, <1>28, <1>29, <1>30, <1>31, <1>32, <1>33, <1>34,
       <1>35, <1>36, <1>37, <1>38, <1>39, <1>40, <1>41 DEF Next, OpStep, RemovalStep,
       CleanupStep

-----------------------------------------------------------------------------
(* The theorems.                                                           *)

LEMMA Initially == Init => IInv
<1> SUFFICES ASSUME Init PROVE IInv
  OBVIOUS
<1>1. output \in File \cup {None}
  <2>1. [src |-> Earlier, original |-> TRUE, old |-> FALSE] \in File
    BY DEF File, Source
  <2>2. QED
    BY <2>1 DEF Init
<1>2. TypeOK
  <2>1. owed \in BOOLEAN /\ crashes \in 0..MaxCrashes
    BY CrashAssumption DEF Init
  <2>2. QED
    BY <1>1, <2>1 DEF Init, TypeOK, OpPc
<1>3. OneOperation /\ RemovalIsAlone /\ RemovalInv /\ StageInv /\ TempIsKept
  BY DEF Init, OneOperation, Started, RemovalIsAlone, RemovalInv, StageInv, TempIsKept
<1>4. ConversionReadsItsInput /\ NameStaysFree
  BY DEF Init, ConversionReadsItsInput, NameStaysFree, Unfinished
<1>5. QED
  BY <1>2, <1>3, <1>4 DEF IInv

LEMMA Inductive == IInv /\ [Next]_vars => IInv'
  BY TypePreserved, OnePreserved, RemovalPreserved, StagePreserved, TempPreserved,
     InputPreserved, NamePreserved
  DEF IInv

\* The inductive invariant holds in every behaviour.
THEOREM Invariance == Spec => []IInv
  BY Initially, Inductive, PTL DEF Spec

\* The variables keep their types (TypeOK).
THEOREM TypeCorrect == Spec => []TypeOK
  BY Invariance, PTL DEF IInv

\* At most one operation works on a VOD, from its registration to its clear, and the
\* map holds nothing else (lifecycle.go, the first critical sections and clear).
THEOREM OneAtATime == Spec => []OneOperation
  BY Invariance, PTL DEF IInv

\* No operation is active while RemoveWithArtifacts deletes files and metadata or a
\* prune deletes metadata (artifacts.go).
THEOREM RemovalExcludes == Spec => []RemovalIsAlone
  BY Invariance, PTL DEF IInv

\* Operations, removals and prunes exclude each other (the maps active and removing).
THEOREM Exclusive == Spec => []WorkIsExclusive
  BY Invariance, PTL DEF IInv, WorkIsExclusive

\* The cleanup never takes the .part file of a running operation (retention.go).
THEOREM CleanupSparesTemp == Spec => []TempIsKept
  BY Invariance, PTL DEF IInv

\* Nothing replaces or removes the file a conversion works on (Convert).
THEOREM InputStands == Spec => []ConversionReadsItsInput
  BY Invariance, PTL DEF IInv

\* Nothing takes the name of a running download (finalizeVODDownload).
THEOREM NameReserved == Spec => []NameStaysFree
  BY Invariance, PTL DEF IInv

\* Both: the name of the VOD is as the running operation found it.
THEOREM NameStands == Spec => []NameStaysAsRegistered
  BY Invariance, PTL DEF IInv, NameStaysAsRegistered

\* Whatever fails and wherever the server dies, a finished download that nobody
\* deleted is lost by expiry only (finalizeVODConversion, recoverInterruptedConversion).
THEOREM DownloadSurvives == Spec => LostOnlyByExpiry
<1>1. IInv /\ [Next]_vars
          => [owed /\ HasCopy /\ owed' /\ ~HasCopy' => cpc = "expire"]_vars
  BY LossIsExpiry DEF Spared
<1>2. QED
  BY <1>1, Invariance, PTL DEF Spec, LostOnlyByExpiry

-----------------------------------------------------------------------------
(* The downloader implements VODShelf.                                     *)

\* The mapped variables.
Turns == [o \in Op |-> Turn(o)]

ShelfStep == [Shelf!Next]_(Shelf!vars)

\* A call that is at work or leaves is the active one, so the shelf is free when no
\* operation is active.
LEMMA FreeWhenInactive ==
    ASSUME TypeOK, OneOperation, active = None
    PROVE  Shelf!Free
<1>1. ASSUME NEW o \in Op PROVE ~Shelf!Busy(o)
  <2>1. opc[o] \in {"idle", "requested", "checked", "sized", "probed", "closing", "done"}
    BY OpAssumption DEF OneOperation, Started, TypeOK
  <2>2. Turn(o) \in {"waiting", "over"}
    BY <2>1 DEF Turn, Waiting, Working, Leaving
  <2>3. QED
    BY <2>2 DEF Shelf!Busy
<1>2. QED
  BY <1>1 DEF Shelf!Free

\* A call that goes from one stage to another turns as the two stages say.
LEMMA StageTurns ==
    ASSUME TypeOK, NEW o \in Op, NEW from \in OpPc, NEW to \in OpPc, Go(o, from, to)
    PROVE  /\ opc[o] = from /\ opc'[o] = to
           /\ Turns' = [Turns EXCEPT ![o] = Turn(o)']
<1>1. opc[o] = from /\ opc'[o] = to /\ \A p \in Op \ {o} : opc'[p] = opc[p]
  BY DEF Go, TypeOK
<1>2. \A p \in Op \ {o} : Turn(p)' = Turn(p)
  BY <1>1 DEF Turn
<1>3. QED
  BY <1>1, <1>2 DEF Turns

\* Stages with the same turn cannot be told apart.
LEMMA SameTurn ==
    ASSUME TypeOK, NEW o \in Op, NEW from \in OpPc, NEW to \in OpPc, Go(o, from, to),
           \/ from \in Waiting /\ to \in Waiting
           \/ from \in Working /\ to \in Working
           \/ from \in Leaving /\ to \in Leaving
           \/ from = "closing" /\ to = "done"
    PROVE  UNCHANGED Turns
<1>1. Turn(o)' = Turn(o)
  BY StageTurns DEF Turn, Waiting, Working, Leaving
<1>2. Turns[o] = Turn(o)
  BY DEF Turns
<1>3. [Turns EXCEPT ![o] = Turn(o)] = Turns
  BY <1>2 DEF Turns
<1>4. QED
  BY <1>1, <1>3, StageTurns

\* The turns follow the stages.
LEMMA SameTurns == ASSUME UNCHANGED opc PROVE UNCHANGED Turns
  BY DEF Turns, Turn

\* The shelf shows the disk.
LEMMA SameDisk == ASSUME UNCHANGED <<output, backup>> PROVE UNCHANGED <<Copy, Spare>>
  BY DEF Copy, Spare, Version, Size

\* A step that keeps the disk, the turns and the record cannot be seen.
LEMMA Unseen ==
    ASSUME UNCHANGED <<output, backup, record, rpc>>, UNCHANGED Turns
    PROVE  ShelfStep
  BY SameDisk DEF ShelfStep, Shelf!vars, Clearing, Turns

\* A call that moves on without touching the disk works on, leaves or fails.
LEMMA FailShows ==
    ASSUME TypeOK, NEW o \in Op, NEW from \in OpPc, NEW to \in OpPc, Go(o, from, to),
           from \in Working, to \in Leaving, UNCHANGED <<Copy, Spare, record, rpc>>
    PROVE  ShelfStep
<1>1. Turn(o) = "working" /\ Turn(o)' = "leaving"
  BY StageTurns DEF Turn, Waiting, Working, Leaving
<1>2. Turns[o] = "working" /\ Turns' = [Turns EXCEPT ![o] = "leaving"]
  BY <1>1, StageTurns DEF Turns
<1>3. Shelf!Fail(o)
  BY <1>2 DEF Shelf!Fail, Clearing, Shelf!Turn, Turns
<1>4. QED
  BY <1>3 DEF ShelfStep, Shelf!Next

\* What goes while nobody is at work is the copy, the spare or both.
LEMMA LossShows ==
    ASSUME Shelf!Free, UNCHANGED <<Turns, Clearing, record>>,
           output' \in {None, output}, backup' \in {None, backup},
           output' = output \/ backup' = None
    PROVE  ShelfStep
<1>1. CASE UNCHANGED <<output, backup>>
  BY <1>1, SameDisk DEF ShelfStep, Shelf!vars, Turns
<1>2. CASE output # None /\ output' = output /\ backup' = None
  <2>1. Shelf!DropSpare
    BY <1>2 DEF Copy, Spare, Version, Size, Turns, Shelf!DropSpare, Clearing
  <2>2. QED
    BY <2>1 DEF ShelfStep, Shelf!Next
<1>3. CASE output' = None
  <2>1. Spare' = None
    BY <1>3 DEF Spare
  <2>2. CASE backup' = None
    <3>1. Copy' = None
      BY <1>3, <2>2 DEF Copy, Version, Size
    <3>2. Shelf!Lose
      BY <2>1, <3>1 DEF Shelf!Lose, Clearing, Turns
    <3>3. QED
      BY <3>2 DEF ShelfStep, Shelf!Next
  <2>3. CASE output = None /\ backup' = backup
    <3>1. UNCHANGED <<Copy, Spare>>
      BY <1>3, <2>3, SameDisk
    <3>2. QED
      BY <3>1 DEF ShelfStep, Shelf!vars, Turns
  <2>4. QED
    BY <1>3, <2>2, <2>3
<1>4. QED
  BY <1>1, <1>2, <1>3

\* Every step of the downloader is a step of the shelf or cannot be seen.
LEMMA ShelfNext == IInv /\ [Next]_vars => ShelfStep
<1> SUFFICES ASSUME TypeOK, OneOperation, RemovalIsAlone, RemovalInv, StageInv, [Next]_vars
             PROVE  ShelfStep
  BY DEF IInv
<1>1. ASSUME NEW o \in Op, NEW k \in {"download", "convert"}, NEW b \in BOOLEAN,
     Request(o, k, b) PROVE ShelfStep
  <2>1. UNCHANGED Turns
    BY <1>1, SameTurn DEF Request, OpPc, Waiting
  <2>2. QED
    BY <1>1, <2>1, Unseen DEF Request, disk, rem
<1>2. ASSUME NEW o \in Op, CheckInactive(o) PROVE ShelfStep
  <2>1. UNCHANGED Turns
    BY <1>2, SameTurn DEF CheckInactive, OpPc, Waiting, Working, Leaving
  <2>2. QED
    BY <1>2, <2>1, Unseen DEF CheckInactive, disk, rem
<1>3. ASSUME NEW o \in Op, ReadSize(o) PROVE ShelfStep
  <2>1. UNCHANGED Turns
    BY <1>3, SameTurn DEF ReadSize, OpPc, Waiting, Working, Leaving
  <2>2. QED
    BY <1>3, <2>1, Unseen DEF ReadSize, disk, rem
<1>4. ASSUME NEW o \in Op, Probe(o) PROVE ShelfStep
  <2>1. UNCHANGED Turns
    BY <1>4, SameTurn DEF Probe, OpPc, Waiting, Working, Leaving
  <2>2. QED
    BY <1>4, <2>1, Unseen DEF Probe, disk, rem
<1>5. ASSUME NEW o \in Op, RegisterDownload(o) PROVE ShelfStep
  <2>1. Turn(o) = "waiting" /\ Turn(o)' = "working"
    BY <1>5, StageTurns DEF RegisterDownload, OpPc, Turn, Waiting, Working, Leaving
  <2>2. Turns[o] = "waiting" /\ Turns' = [Turns EXCEPT ![o] = "working"]
    BY <1>5, <2>1, StageTurns DEF RegisterDownload, OpPc, Turns
  <2>3. Shelf!Free /\ ~Clearing
    BY <1>5, FreeWhenInactive DEF RegisterDownload, Accepting, Clearing
  <2>4. UNCHANGED <<Copy, Spare, record, rpc>>
    BY <1>5, SameDisk DEF RegisterDownload, disk, rem
  <2>5. Shelf!Take(o)
    BY <2>2, <2>3, <2>4 DEF Shelf!Take, Clearing, Shelf!Turn, Turns
  <2>6. QED
    BY <2>5 DEF ShelfStep, Shelf!Next
<1>6. ASSUME NEW o \in Op, RegisterConversion(o) PROVE ShelfStep
  <2>1. Turn(o) = "waiting" /\ Turn(o)' = "working"
    BY <1>6, StageTurns DEF RegisterConversion, OpPc, Turn, Waiting, Working, Leaving
  <2>2. Turns[o] = "waiting" /\ Turns' = [Turns EXCEPT ![o] = "working"]
    BY <1>6, <2>1, StageTurns DEF RegisterConversion, OpPc, Turns
  <2>3. Shelf!Free /\ ~Clearing
    BY <1>6, FreeWhenInactive DEF RegisterConversion, Accepting, Clearing
  <2>4. UNCHANGED <<Copy, Spare, record, rpc>>
    BY <1>6, SameDisk DEF RegisterConversion, disk, rem
  <2>5. Shelf!Take(o)
    BY <2>2, <2>3, <2>4 DEF Shelf!Take, Clearing, Shelf!Turn, Turns
  <2>6. QED
    BY <2>5 DEF ShelfStep, Shelf!Next
<1>7. ASSUME NEW o \in Op, Prepare(o) PROVE ShelfStep
  <2>1. UNCHANGED <<output, backup, record, rpc>>
    BY <1>7 DEF Prepare, disk, rem
  <2>2. ASSUME Go(o, "registered", "prepared") PROVE ShelfStep
    BY <2>1, <2>2, SameTurn, Unseen DEF OpPc, Working
  <2>3. ASSUME Go(o, "registered", "discard") PROVE ShelfStep
    BY <2>1, <2>3, SameDisk, FailShows DEF OpPc, Working, Leaving
  <2>4. QED
    BY <1>7, <2>2, <2>3 DEF Prepare
<1>8. ASSUME NEW o \in Op, Launch(o) PROVE ShelfStep
  <2>1. UNCHANGED <<output, backup, record, rpc>>
    BY <1>8 DEF Launch, disk, rem
  <2>2. ASSUME Go(o, "prepared", "running") PROVE ShelfStep
    BY <2>1, <2>2, SameTurn, Unseen DEF OpPc, Working
  <2>3. ASSUME Go(o, "prepared", "discard") PROVE ShelfStep
    BY <2>1, <2>3, SameDisk, FailShows DEF OpPc, Working, Leaving
  <2>4. QED
    BY <1>8, <2>2, <2>3 DEF Launch
<1>9. ASSUME NEW o \in Op, FfmpegEnds(o) PROVE ShelfStep
  <2>1. UNCHANGED <<output, backup, record, rpc>>
    BY <1>9 DEF FfmpegEnds, disk, rem
  <2>2. ASSUME Go(o, "running", "exited") PROVE ShelfStep
    BY <2>1, <2>2, SameTurn, Unseen DEF OpPc, Working
  <2>3. ASSUME Go(o, "running", "discard") PROVE ShelfStep
    BY <2>1, <2>3, SameDisk, FailShows DEF OpPc, Working, Leaving
  <2>4. QED
    BY <1>9, <2>2, <2>3 DEF FfmpegEnds
<1>10. ASSUME NEW o \in Op, ReadResult(o) PROVE ShelfStep
  <2>1. UNCHANGED <<output, backup, record, rpc>>
    BY <1>10 DEF ReadResult, disk, rem
  <2>2. CASE o \in halted
    <3>1. Go(o, "exited", "discard")
      BY <1>10, <2>2 DEF ReadResult
    <3>2. QED
      BY <2>1, <3>1, SameDisk, FailShows DEF OpPc, Working, Leaving
  <2>3. CASE o \notin halted
    <3>1. PICK to \in {"install", "stale"} : Go(o, "exited", to)
      BY <1>10, <2>3 DEF ReadResult
    <3>2. QED
      BY <2>1, <3>1, SameTurn, Unseen DEF OpPc, Working
  <2>4. QED
    BY <2>2, <2>3
<1>11. ASSUME NEW o \in Op, InstallDownload(o) PROVE ShelfStep
  <2>1. Turn(o) = "working" /\ Turn(o)' = "leaving"
    BY <1>11, StageTurns DEF InstallDownload, OpPc, Turn, Waiting, Working, Leaving
  <2>2. Turns[o] = "working" /\ Turns' = [Turns EXCEPT ![o] = "leaving"]
    BY <1>11, <2>1, StageTurns DEF InstallDownload, OpPc, Turns
  <2> DEFINE new == [src |-> o, original |-> original[o], old |-> FALSE]
  <2>3. output = None /\ output' = new /\ backup' = backup
        /\ UNCHANGED <<record, rpc>>
    BY <1>11 DEF InstallDownload, rem
  <2>4. new \in File
    BY DEF File, Source, TypeOK
  <2>5. output' # None
    BY <2>3, <2>4, FileAssumption
  <2>6. Copy' = [src |-> o, original |-> original[o]] /\ Spare' = Copy
    BY <2>3, <2>5 DEF Copy, Spare, Version, Size
  <2>7. original[o] \in BOOLEAN
    BY DEF TypeOK
  <2>8. Shelf!Deliver(o)
    BY <2>2, <2>3, <2>6, <2>7 DEF Shelf!Deliver, Clearing, Shelf!Turn, Turns
  <2>9. QED
    BY <2>8 DEF ShelfStep, Shelf!Next
<1>12. ASSUME NEW o \in Op, RemoveStaleBackup(o) PROVE ShelfStep
  <2>1. UNCHANGED Turns
    BY <1>12, SameTurn DEF RemoveStaleBackup, OpPc, Working
  <2>2. Shelf!DropSpare
    BY <1>12, <2>1 DEF RemoveStaleBackup, rem, Copy, Spare, Version, Size, Turns,
         Shelf!DropSpare, Clearing
  <2>3. QED
    BY <2>2 DEF ShelfStep, Shelf!Next
<1>13. ASSUME NEW o \in Op, BackUpOriginal(o) PROVE ShelfStep
  <2>1. UNCHANGED Turns
    BY <1>13, SameTurn DEF BackUpOriginal, OpPc, Working
  <2>2. Shelf!DropSpare
    BY <1>13, <2>1 DEF BackUpOriginal, rem, Copy, Spare, Version, Size, Turns,
         Shelf!DropSpare, Clearing
  <2>3. QED
    BY <2>2 DEF ShelfStep, Shelf!Next
<1>14. ASSUME NEW o \in Op, InstallConversion(o) PROVE ShelfStep
  <2>1. Turn(o) = "working" /\ Turn(o)' = "leaving"
    BY <1>14, StageTurns DEF InstallConversion, OpPc, Turn, Waiting, Working, Leaving
  <2>2. Turns[o] = "working" /\ Turns' = [Turns EXCEPT ![o] = "leaving"]
    BY <1>14, <2>1, StageTurns DEF InstallConversion, OpPc, Turns
  <2>3. opc[o] = "swap" /\ kind[o] = "convert" /\ output = None /\ backup # None
    BY <1>14 DEF InstallConversion, Go, StageInv
  <2>4. backup \in File /\ original[o] = FALSE
    BY <2>3 DEF StageInv, TypeOK
  <2> DEFINE new == [src |-> backup.src, original |-> FALSE, old |-> FALSE]
  <2>5. output' = new /\ backup' = backup
        /\ UNCHANGED <<record, rpc>>
    BY <1>14, <2>4 DEF InstallConversion, rem
  <2>6. new \in File
    BY <2>4 DEF File
  <2>7. output' # None
    BY <2>5, <2>6, FileAssumption
  <2>8. Copy = [src |-> backup.src, original |-> backup.original]
    BY <2>3 DEF Copy, Version, Size
  <2>9. Copy' = [src |-> backup.src, original |-> FALSE] /\ Spare' = Copy
    BY <2>3, <2>5, <2>7 DEF Copy, Spare, Version, Size
  <2>10. Copy' = [src |-> Copy.src, original |-> FALSE]
    BY <2>8, <2>9
  <2>11. Copy # None
    BY <2>4, <2>8, FileAssumption DEF File
  <2>12. Shelf!Convert(o)
    BY <2>2, <2>5, <2>9, <2>10, <2>11 DEF Shelf!Convert, Clearing, Shelf!Turn, Turns
  <2>13. QED
    BY <2>12 DEF ShelfStep, Shelf!Next
<1>15. ASSUME NEW o \in Op, RollBack(o) PROVE ShelfStep
  <2>1. Go(o, "swap", "discard") /\ output = None /\ backup # None
        /\ UNCHANGED <<record, rpc>>
    BY <1>15 DEF RollBack, Go, StageInv, rem
  <2>2. UNCHANGED <<Copy, Spare>>
    BY <1>15, <2>1 DEF RollBack, Copy, Spare, Version, Size
  <2>3. QED
    BY <2>1, <2>2, FailShows DEF OpPc, Working, Leaving
<1>16. ASSUME NEW o \in Op, DropBackup(o) PROVE ShelfStep
  <2>1. UNCHANGED Turns
    BY <1>16, SameTurn DEF DropBackup, OpPc, Leaving
  <2>2. output # None /\ output' = output
        /\ UNCHANGED <<record, rpc>>
    BY <1>16 DEF DropBackup, Go, StageInv, rem
  <2>3. CASE backup' = backup
    BY <2>1, <2>2, <2>3, Unseen
  <2>4. CASE backup' = None
    <3>1. Shelf!DropSpare
      BY <2>1, <2>2, <2>4 DEF Copy, Spare, Version, Size, Turns, Shelf!DropSpare, Clearing
    <3>2. QED
      BY <3>1 DEF ShelfStep, Shelf!Next
  <2>5. QED
    BY <1>16, <2>3, <2>4 DEF DropBackup
<1>17. ASSUME NEW o \in Op, FinalizeFails(o) PROVE ShelfStep
  <2>1. PICK from \in {"install", "stale", "rename"} : Go(o, from, "discard")
    BY <1>17 DEF FinalizeFails
  <2>2. UNCHANGED <<Copy, Spare, record, rpc>>
    BY <1>17, SameDisk DEF FinalizeFails, disk, rem
  <2>3. QED
    BY <2>1, <2>2, FailShows DEF OpPc, Working, Leaving
<1>18. ASSUME NEW o \in Op, Stamp(o) PROVE ShelfStep
  <2>1. UNCHANGED Turns
    BY <1>18, SameTurn DEF Stamp, OpPc, Leaving
  <2>2. Version(output)' = Version(output) /\ (output' = None <=> output = None)
    <3>1. CASE output = None
      BY <1>18, <3>1 DEF Stamp
    <3>2. CASE output # None
      <4>1. output \in File /\ output' = [output EXCEPT !.old = FALSE]
        BY <1>18, <3>2 DEF Stamp, TypeOK
      <4>2. output' \in File /\ output'.src = output.src
            /\ output'.original = output.original
        BY <4>1 DEF File
      <4>3. QED
        BY <3>2, <4>2, FileAssumption DEF Version, Size
    <3>3. QED
      BY <3>1, <3>2
  <2>3. UNCHANGED <<Copy, Spare, record, rpc>>
    BY <1>18, <2>2 DEF Stamp, rem, Copy, Spare, Version, Size
  <2>4. QED
    BY <2>1, <2>3 DEF ShelfStep, Shelf!vars, Clearing, Turns
<1>19. ASSUME NEW o \in Op, Discard(o) PROVE ShelfStep
  <2>1. UNCHANGED Turns
    BY <1>19, SameTurn DEF Discard, OpPc, Waiting, Working, Leaving
  <2>2. QED
    BY <1>19, <2>1, Unseen DEF Discard, rem
<1>20. ASSUME NEW o \in Op, ClearActive(o) PROVE ShelfStep
  <2>1. Turn(o) = "leaving" /\ Turn(o)' = "over"
    BY <1>20, StageTurns DEF ClearActive, OpPc, Turn, Waiting, Working, Leaving
  <2>2. Turns[o] = "leaving" /\ Turns' = [Turns EXCEPT ![o] = "over"]
    BY <1>20, <2>1, StageTurns DEF ClearActive, OpPc, Turns
  <2>3. UNCHANGED <<Copy, Spare, record, rpc>>
    BY <1>20, SameDisk DEF ClearActive, disk, rem
  <2>4. Shelf!Leave(o)
    BY <2>2, <2>3 DEF Shelf!Leave, Clearing, Shelf!Turn, Turns
  <2>5. QED
    BY <2>4 DEF ShelfStep, Shelf!Next
<1>21. ASSUME NEW o \in Op, CloseDone(o) PROVE ShelfStep
  <2>1. UNCHANGED Turns
    BY <1>21, SameTurn DEF CloseDone, OpPc, Waiting, Working, Leaving
  <2>2. QED
    BY <1>21, <2>1, Unseen DEF CloseDone, disk, rem
<1>22. CASE Delete
  <2>1. Shelf!Free /\ UNCHANGED <<Turns, Clearing, record, rpc>>
    BY <1>22, FreeWhenInactive, SameTurns DEF Delete, rem, Clearing
  <2>2. CASE output' = None /\ backup' = None
    BY <2>1, <2>2, LossShows
  <2>3. CASE UNCHANGED output /\ backup' \in {None, backup}
    BY <1>22, <2>1, <2>3, LossShows DEF Delete
  <2>4. QED
    BY <1>22, <2>2, <2>3 DEF Delete
<1>23. CASE BeginRemove
  <2>1. UNCHANGED <<Copy, Spare, Turns, record>>
    BY <1>23, SameDisk, SameTurns DEF BeginRemove, disk
  <2>2. CASE active # None
    <3>1. UNCHANGED Clearing
      BY <1>23, <2>2 DEF BeginRemove, Clearing
    <3>2. QED
      BY <2>1, <3>1 DEF ShelfStep, Shelf!vars, Turns
  <2>3. CASE active = None
    <3>1. Clearing'
      BY <1>23, <2>3 DEF BeginRemove, Clearing
    <3>2. Shelf!BeginClear
      BY <2>1, <2>3, <3>1, FreeWhenInactive DEF Shelf!BeginClear, Turns
    <3>3. QED
      BY <3>2 DEF ShelfStep, Shelf!Next
  <2>4. QED
    BY <2>2, <2>3
<1>24. CASE BeginPrune
  <2>1. UNCHANGED <<Copy, Spare, Turns, record>>
    BY <1>24, SameDisk, SameTurns DEF BeginPrune, disk
  <2>2. Clearing' /\ active = None
    BY <1>24 DEF BeginPrune, GoRem, Clearing
  <2>3. Shelf!BeginClear
    BY <2>1, <2>2, FreeWhenInactive DEF Shelf!BeginClear, Turns
  <2>4. QED
    BY <2>3 DEF ShelfStep, Shelf!Next
<1>25. CASE StoppedSeen
  <2>1. UNCHANGED <<Copy, Spare, Turns, record>>
    BY <1>25, SameDisk, SameTurns DEF StoppedSeen, disk
  <2>2. Clearing'
    BY <1>25 DEF StoppedSeen, GoRem, Clearing
  <2>3. active = None
    <3>1. active \in {rop, None} /\ ~Started(rop)
      BY <1>25 DEF StoppedSeen, GoRem, RemovalInv, Started
    <3>2. QED
      BY <3>1 DEF OneOperation
  <2>4. Shelf!BeginClear
    BY <2>1, <2>2, <2>3, FreeWhenInactive DEF Shelf!BeginClear, Turns
  <2>5. QED
    BY <2>4 DEF ShelfStep, Shelf!Next
<1>26. CASE StopTimesOut
  <2>1. UNCHANGED <<Copy, Spare, Turns, record>>
    BY <1>26, SameDisk, SameTurns DEF StopTimesOut, disk
  <2>2. UNCHANGED Clearing
    BY <1>26 DEF StopTimesOut, GoRem, Clearing
  <2>3. QED
    BY <2>1, <2>2 DEF ShelfStep, Shelf!vars, Turns
<1>27. CASE RemoveOutput
  <2>1. Clearing /\ Clearing' /\ active = None
    BY <1>27 DEF RemoveOutput, GoRem, RemovalIsAlone, Clearing
  <2>2. UNCHANGED <<Turns, backup, record>>
    BY <1>27, SameTurns DEF RemoveOutput
  <2>3. CASE output' = output
    BY <2>1, <2>2, <2>3, SameDisk DEF ShelfStep, Shelf!vars, Turns
  <2>4. CASE output' = None /\ output # None
    <3>1. Copy' = Spare /\ Spare' = None
      BY <2>2, <2>4 DEF Copy, Spare, Version, Size
    <3>2. Shelf!Uncover
      BY <2>1, <2>2, <3>1 DEF Shelf!Uncover, Turns
    <3>3. QED
      BY <3>2 DEF ShelfStep, Shelf!Next
  <2>5. QED
    BY <1>27, <2>3, <2>4 DEF RemoveOutput
<1>28. CASE RemoveBackup
  <2>1. Clearing /\ Clearing' /\ active = None
    BY <1>28 DEF RemoveBackup, GoRem, RemovalIsAlone, Clearing
  <2>2. UNCHANGED <<Turns, Clearing, output, record>>
    BY <1>28, <2>1, SameTurns DEF RemoveBackup, GoRem, Clearing
  <2>3. QED
    BY <1>28, <2>1, <2>2, FreeWhenInactive, LossShows DEF RemoveBackup
<1>29. CASE RemovePartials
  <2>1. UNCHANGED <<Copy, Spare, Turns, record>>
    BY <1>29, SameDisk, SameTurns DEF RemovePartials
  <2>2. PICK kept \in SUBSET partials :
             rpc' = IF kept # {} \/ rfailed THEN "release" ELSE "metadata"
    BY <1>29 DEF RemovePartials
  <2>3. CASE rpc' = "metadata"
    <3>1. Clearing /\ Clearing'
      BY <1>29, <2>3 DEF RemovePartials, Clearing
    <3>2. QED
      BY <2>1, <3>1 DEF ShelfStep, Shelf!vars, Turns
  <2>4. CASE rpc' = "release"
    <3>1. ~Clearing'
      BY <2>4 DEF Clearing
    <3>2. Shelf!EndClear
      BY <2>1, <3>1 DEF Shelf!EndClear, Turns
    <3>3. QED
      BY <3>2 DEF ShelfStep, Shelf!Next
  <2>5. QED
    BY <2>2, <2>3, <2>4
<1>30. CASE RemoveMetadata
  <2>1. UNCHANGED <<Copy, Spare, Turns>>
    BY <1>30, SameDisk, SameTurns DEF RemoveMetadata, disk
  <2>2. Clearing /\ ~Clearing'
    BY <1>30 DEF RemoveMetadata, Clearing
  <2>3. CASE record' = record
    <3>1. Shelf!EndClear
      BY <2>1, <2>2, <2>3 DEF Shelf!EndClear, Turns
    <3>2. QED
      BY <3>1 DEF ShelfStep, Shelf!Next
  <2>4. CASE record' = FALSE
    <3>1. Shelf!Forget
      BY <2>1, <2>2, <2>4 DEF Shelf!Forget, Turns
    <3>2. QED
      BY <3>1 DEF ShelfStep, Shelf!Next
  <2>5. QED
    BY <1>30, <2>3, <2>4 DEF RemoveMetadata
<1>31. CASE Release
  <2>1. UNCHANGED <<Copy, Spare, Turns, record>>
    BY <1>31, SameDisk, SameTurns DEF Release, disk
  <2>2. UNCHANGED Clearing
    BY <1>31 DEF Release, GoRem, Clearing
  <2>3. QED
    BY <2>1, <2>2 DEF ShelfStep, Shelf!vars, Turns
<1>32. CASE Save
  <2>1. Shelf!Save
    BY <1>32, SameDisk, SameTurns DEF Save, rem, Shelf!Save, Clearing, Turns, disk
  <2>2. QED
    BY <2>1 DEF ShelfStep, Shelf!Next
<1>33. CASE Stop
  BY <1>33, SameTurns, Unseen DEF Stop, disk, rem
<1>34. CASE BeginCleanup
  BY <1>34, SameTurns, Unseen DEF BeginCleanup, disk, rem
<1>35. CASE Recover
  <2>1. UNCHANGED <<Turns, record, rpc>>
    BY <1>35, SameTurns DEF Recover, rem
  <2>2. CASE UNCHANGED <<output, backup>>
    BY <2>1, <2>2, Unseen
  <2>3. CASE backup' = None /\ output' = IF output # None THEN output ELSE backup
    <3>1. Shelf!DropSpare
      BY <2>1, <2>3 DEF Copy, Spare, Version, Size, Turns, Shelf!DropSpare, Clearing
    <3>2. QED
      BY <3>1 DEF ShelfStep, Shelf!Next
  <2>4. QED
    BY <1>35, <2>2, <2>3 DEF Recover
<1>36. CASE ListOutput
  BY <1>36, SameTurns, Unseen DEF ListOutput, disk, rem
<1>37. CASE RemoveExpired
  <2>1. UNCHANGED <<Turns, Clearing, record, rpc>>
    BY <1>37, SameTurns DEF RemoveExpired, rem, Clearing
  <2>2. CASE UNCHANGED <<output, backup>>
    BY <2>1, <2>2, Unseen
  <2>3. CASE active = None /\ backup' = None /\ output' \in {None, output}
    BY <2>1, <2>3, FreeWhenInactive, LossShows
  <2>4. QED
    BY <1>37, <2>2, <2>3 DEF RemoveExpired
<1>38. ASSUME NEW o \in Op, RemoveInterrupted(o) PROVE ShelfStep
  BY <1>38, SameTurns, Unseen DEF RemoveInterrupted, rem
<1>39. CASE Age
  <2>1. ASSUME NEW f \in File \cup {None}
        PROVE  /\ Aged(f) = None <=> f = None
               /\ f # None => Aged(f).src = f.src /\ Aged(f).original = f.original
    BY FileAssumption DEF Aged, File
  <2>2. /\ output' = None <=> output = None
        /\ output # None => Size(output') = Size(output)
        /\ backup' = None <=> backup = None
        /\ backup # None => Size(backup') = Size(backup)
    BY <1>39, <2>1 DEF Age, TypeOK, Size
  <2>3. UNCHANGED <<Copy, Spare>>
    BY <2>2 DEF Copy, Spare, Version
  <2>4. UNCHANGED <<Turns, record, rpc>>
    BY <1>39, SameTurns DEF Age, rem
  <2>5. QED
    BY <2>3, <2>4 DEF ShelfStep, Shelf!vars, Clearing, Turns
<1>40. CASE Crash
  <2> DEFINE lost == {o \in Op : opc[o] # "idle"}
  <2>1. \A o \in Op : Shelf!Busy(o) => o \in lost
    BY DEF Shelf!Busy, Turn, Waiting, Working, Leaving
  <2>2. ASSUME NEW o \in Op
        PROVE  Turn(o)' = IF o \in lost THEN "over" ELSE Turn(o)
    BY <1>40 DEF Crash, Turn, Waiting, Working, Leaving
  <2>3. Turns' = [o \in Op |-> IF o \in lost THEN "over" ELSE Turns[o]]
    BY <2>2 DEF Turns
  <2>4. UNCHANGED <<Copy, Spare, record>> /\ Clearing' = FALSE
    BY <1>40, SameDisk DEF Crash, Clearing, disk
  <2>5. Shelf!Crash
    <3>1. lost \in SUBSET Op
      OBVIOUS
    <3> HIDE DEF lost
    <3>2. QED
      BY <2>1, <2>3, <2>4, <3>1 DEF Shelf!Crash, Turns
  <2>6. QED
    BY <2>5 DEF ShelfStep, Shelf!Next
<1>41. CASE UNCHANGED vars
  BY <1>41, SameTurns, Unseen DEF vars, disk, rem
<1>42. QED
  BY <1>1, <1>2, <1>3, <1>4, <1>5, <1>6, <1>7, <1>8, <1>9, <1>10, <1>11, <1>12,
     <1>13, <1>14, <1>15, <1>16, <1>17, <1>18, <1>19, <1>20, <1>21, <1>22, <1>23,
     <1>24, <1>25, <1>26, <1>27, <1>28, <1>29, <1>30, <1>31, <1>32, <1>33, <1>34,
     <1>35, <1>36, <1>37, <1>38, <1>39, <1>40, <1>41 DEF Next, OpStep, RemovalStep,
     CleanupStep

\* Every behaviour of the downloader, over any calls, failing file operations and
\* crashes, is a behaviour of VODShelf (finalizeVODDownload, finalizeVODConversion, the
\* removals and the retention of vod_download*.go).
THEOREM Implements == Spec => ImplementsShelf
<1>1. Init => Shelf!Init
  <2> SUFFICES ASSUME Init PROVE Shelf!Init
    OBVIOUS
  <2>1. Copy \in Shelf!Version \cup {None}
    <3>1. CASE output = None
      BY <3>1 DEF Init, Copy, Version
    <3>2. CASE output = [src |-> Earlier, original |-> TRUE, old |-> FALSE]
      <4>1. output \in File
        BY <3>2 DEF File, Source
      <4>2. Copy = [src |-> Earlier, original |-> TRUE]
        BY <3>2, <4>1, FileAssumption DEF Copy, Version, Size
      <4>3. QED
        BY <4>2 DEF Shelf!Version, Source
    <3>3. QED
      BY <3>1, <3>2 DEF Init
  <2>2. Spare = None
    BY DEF Init, Spare, Version
  <2>3. Turns = [o \in Op |-> "waiting"]
    BY DEF Init, Turns, Turn, Waiting, Working, Leaving
  <2>4. QED
    BY <2>1, <2>2, <2>3 DEF Init, Shelf!Init, Turns, Clearing
<1>2. IInv /\ [Next]_vars => [Shelf!Next]_(Shelf!vars)
  BY ShelfNext DEF ShelfStep
<1>3. QED
  BY <1>1, <1>2, Invariance, PTL DEF Spec, ImplementsShelf, Shelf!Spec
=============================================================================
