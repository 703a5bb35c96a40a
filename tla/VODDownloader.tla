---------------------------- MODULE VODDownloader ----------------------------
(***************************************************************************)
(* Downloads, conversions, removal and retention of one VOD, over a disk   *)
(* that survives a crash of the server (stream/vod_download*.go, with the  *)
(* handlers and the prune of server/api and twitch that call them).  Every *)
(* map of VODDownloader is keyed by the VOD id, so one id is modelled; the *)
(* operations on it are the Start and Convert calls Op.                    *)
(*                                                                         *)
(* A section under the downloader's lock is one action; outside the lock   *)
(* every file-system call is one action.  A rename, a remove and a sync    *)
(* are durable when they return.  A file is known by the download it comes *)
(* from, whether it is still the original encoding, and whether it is      *)
(* older than the retention period.                                        *)
(***************************************************************************)
EXTENDS Naturals, FiniteSets

CONSTANTS
    Op,             \* the Start and Convert calls, and their .part files
    Earlier,        \* the download of an earlier run of the server
    None,
    MaxCrashes      \* how often the server dies (bounds the model)

ASSUME OpAssumption == None \notin Op \cup {Earlier} /\ Earlier \notin Op
ASSUME CrashAssumption == MaxCrashes \in Nat

VARIABLES
    (* the disk *)
    output,     \* <id>.mkv
    backup,     \* .partials/<id>.original
    partials,   \* the operations whose .part file exists
    record,     \* the VOD is in the manager's list
    (* the downloader *)
    active,     \* active[id]
    stopping,   \* VODDownloader.stopping: Stop was called
    halted,     \* the operations whose vodDownload.stopping is set
    (* the operations *)
    kind,       \* "download" or "convert"
    original,   \* the preset asked for is Original
    seen,       \* the file a Convert call has read the progress of
    opc,        \* where the operation is
    (* one removal at a time: removing[id] excludes the others *)
    rpc,        \* where RemoveWithArtifacts or RemoveMetadataIfNoDownload is
    rop,        \* the operation it waits for
    rfailed,    \* a file could not be removed
    (* the cleanup goroutine *)
    cpc,
    listed,     \* the .part files of its directory listing
    (* bookkeeping *)
    owed,       \* a finished download that was neither deleted nor has expired
    crashes

disk == <<output, backup, partials>>
svc  == <<active, stopping, halted>>
opv  == <<kind, original, seen>>
rem  == <<rpc, rop, rfailed>>
cln  == <<cpc, listed>>
vars == <<disk, record, svc, opv, opc, rem, cln, owed, crashes>>

Source == Op \cup {Earlier}
File == [src : Source, original : BOOLEAN, old : BOOLEAN]

ASSUME FileAssumption == None \notin File \cup [src : Source, original : BOOLEAN]

OpPc == {"idle", "requested", "checked", "sized", "probed", "registered", "prepared",
         "running", "exited", "install", "stale", "rename", "swap", "dropBackup",
         "stamp", "discard", "clear", "closing", "done"}

TypeOK ==
    /\ output \in File \cup {None}
    /\ backup \in File \cup {None}
    /\ partials \subseteq Op
    /\ record \in BOOLEAN
    /\ active \in Op \cup {None}
    /\ stopping \in BOOLEAN
    /\ halted \subseteq Op
    /\ kind \in [Op -> {"download", "convert"}]
    /\ original \in [Op -> BOOLEAN]
    /\ seen \in [Op -> [src : Source, original : BOOLEAN] \cup {None}]
    /\ opc \in [Op -> OpPc]
    /\ rpc \in {"idle", "wait", "output", "backup", "partials", "metadata",
                "prune", "release"}
    /\ rop \in Op \cup {None}
    /\ rfailed \in BOOLEAN
    /\ cpc \in {"idle", "recover", "parts", "list", "expire"}
    /\ listed \subseteq Op
    /\ owed \in BOOLEAN
    /\ crashes \in 0..MaxCrashes
    /\ rpc = "wait" => rop \in Op

Init ==
    /\ output \in {None, [src |-> Earlier, original |-> TRUE, old |-> FALSE]}
    /\ backup = None /\ partials = {}
    /\ record = TRUE
    /\ active = None /\ stopping = FALSE /\ halted = {}
    /\ kind = [o \in Op |-> "download"]
    /\ original = [o \in Op |-> TRUE]
    /\ seen = [o \in Op |-> None]
    /\ opc = [o \in Op |-> "idle"]
    /\ rpc = "idle" /\ rop = None /\ rfailed = FALSE
    /\ cpc = "idle" /\ listed = {}
    /\ owed = (output # None)
    /\ crashes = 0

Go(o, from, to) == opc[o] = from /\ opc' = [opc EXCEPT ![o] = to]

\* What tells two files apart for Convert: their size, taken to differ between
\* different files.
Size(f) == [src |-> f.src, original |-> f.original]

-----------------------------------------------------------------------------
(* Starting a download or a conversion.                                    *)

\* The handler finds the VOD in the list (handleDownloadVOD, handleConvertVOD).
Request(o, k, orig) ==
    /\ record
    /\ Go(o, "idle", "requested")
    /\ kind' = [kind EXCEPT ![o] = k]
    /\ original' = [original EXCEPT ![o] = orig]
    /\ k = "convert" => ~orig
    /\ UNCHANGED <<disk, record, svc, seen, rem, cln, owed, crashes>>

\* Convert reads the progress before it takes its own lock: nothing is active, and
\* later, without the lock, it reads the size of the file and probes its preset.
CheckInactive(o) ==
    /\ kind[o] = "convert"
    /\ active = None
    /\ Go(o, "requested", "checked")
    /\ UNCHANGED <<disk, record, svc, opv, rem, cln, owed, crashes>>

ReadSize(o) ==
    /\ output # None
    /\ Go(o, "checked", "sized")
    /\ seen' = [seen EXCEPT ![o] = Size(output)]
    /\ UNCHANGED <<disk, record, svc, kind, original, rem, cln, owed, crashes>>

\* The preset comes from the cache, keyed by size and age, or from the file that is
\* there now.
Probe(o) ==
    /\ Go(o, "sized", "probed")
    /\ seen[o].original \/ (output # None /\ output.original)
    /\ UNCHANGED <<disk, record, svc, opv, rem, cln, owed, crashes>>

Accepting == ~stopping /\ rpc = "idle" /\ active = None

\* The first critical section of StartWithPresetAndDuration.
RegisterDownload(o) ==
    /\ kind[o] = "download"
    /\ Accepting
    /\ output = None
    /\ Go(o, "requested", "registered")
    /\ active' = o
    /\ UNCHANGED <<disk, record, stopping, halted, opv, rem, cln, owed, crashes>>

\* Mutant: the file is not compared with the one the progress was read of.
RegisterConversionUnchecked(o) ==
    /\ Accepting
    /\ output # None
    /\ Go(o, "probed", "registered")
    /\ active' = o
    /\ UNCHANGED <<disk, record, stopping, halted, opv, rem, cln, owed, crashes>>

\* The first critical section of Convert: the file has to be the one it read about.
RegisterConversion(o) ==
    /\ Accepting
    /\ output # None
    /\ Go(o, "probed", "registered")
    /\ Size(output) = seen[o]
    /\ active' = o
    /\ UNCHANGED <<disk, record, stopping, halted, opv, rem, cln, owed, crashes>>

Wanted(o) == ~stopping /\ o \notin halted /\ active = o

\* The playlist is resolved and createPartialFile succeeds, or the operation fails.
Prepare(o) ==
    /\ \/ /\ Go(o, "registered", "prepared")
          /\ Wanted(o)
          /\ partials' = partials \cup {o}
       \/ /\ Go(o, "registered", "discard")
          /\ UNCHANGED partials
    /\ UNCHANGED <<output, backup, record, svc, opv, rem, cln, owed, crashes>>

\* The critical section that starts ffmpeg; the request may have been abandoned.
Launch(o) ==
    /\ \/ Go(o, "prepared", "running") /\ Wanted(o)
       \/ Go(o, "prepared", "discard")
    /\ UNCHANGED <<disk, record, svc, opv, rem, cln, owed, crashes>>

\* ffmpeg ends, with an error when it was interrupted or failed.
FfmpegEnds(o) ==
    /\ \/ Go(o, "running", "exited")
       \/ Go(o, "running", "discard")
    /\ UNCHANGED <<disk, record, svc, opv, rem, cln, owed, crashes>>

-----------------------------------------------------------------------------
(* finishDownload and finishConversion, the body of finishOnce.            *)

\* A stop that came before the result is read turns success into a cancellation.
ReadResult(o) ==
    /\ Go(o, "exited",
          IF o \in halted THEN "discard"
          ELSE IF kind[o] = "download" THEN "install" ELSE "stale")
    /\ UNCHANGED <<disk, record, svc, opv, rem, cln, owed, crashes>>

\* finalizeVODDownload: the .part file is synced and the name is free.
InstallDownload(o) ==
    /\ Go(o, "install", "stamp")
    /\ o \in partials
    /\ output = None
    /\ output' = [src |-> o, original |-> original[o], old |-> FALSE]
    /\ partials' = partials \ {o}
    /\ owed' = TRUE
    /\ UNCHANGED <<backup, record, svc, opv, rem, cln, crashes>>

\* finalizeVODConversion: a stale backup goes, the original becomes the backup, the
\* converted file takes its place, the backup goes.
RemoveStaleBackup(o) ==
    /\ Go(o, "stale", "rename")
    /\ o \in partials
    /\ output # None
    /\ backup' = None
    /\ UNCHANGED <<output, partials, record, svc, opv, rem, cln, owed, crashes>>

\* Mutant: the original is removed instead of renamed.
BackUpByRemoving(o) ==
    /\ Go(o, "rename", "swap")
    /\ output # None
    /\ output' = None
    /\ UNCHANGED <<backup, partials, record, svc, opv, rem, cln, owed, crashes>>

BackUpOriginal(o) ==
    /\ Go(o, "rename", "swap")
    /\ output # None
    /\ backup' = output
    /\ output' = None
    /\ UNCHANGED <<partials, record, svc, opv, rem, cln, owed, crashes>>

InstallConversion(o) ==
    /\ Go(o, "swap", "dropBackup")
    /\ o \in partials
    /\ output' = [src |-> backup.src, original |-> original[o], old |-> FALSE]
    /\ partials' = partials \ {o}
    /\ UNCHANGED <<backup, record, svc, opv, rem, cln, owed, crashes>>

\* The converted file cannot be installed: the backup is renamed back, which can
\* fail as well.
RollBack(o) ==
    /\ Go(o, "swap", "discard")
    /\ \/ output' = backup /\ backup' = None
       \/ UNCHANGED <<output, backup>>
    /\ UNCHANGED <<partials, record, svc, opv, rem, cln, owed, crashes>>

\* Failing to remove the backup is only logged.
DropBackup(o) ==
    /\ Go(o, "dropBackup", "stamp")
    /\ backup' \in {None, backup}
    /\ UNCHANGED <<output, partials, record, svc, opv, rem, cln, owed, crashes>>

\* Any check, sync or rename before the original is moved can fail.
FinalizeFails(o) ==
    /\ \E from \in {"install", "stale", "rename"} : Go(o, from, "discard")
    /\ UNCHANGED <<disk, record, svc, opv, rem, cln, owed, crashes>>

\* os.Chtimes: the age of the file counts from now.
Stamp(o) ==
    /\ Go(o, "stamp", "clear")
    /\ output' = IF output = None THEN None ELSE [output EXCEPT !.old = FALSE]
    /\ UNCHANGED <<backup, partials, record, svc, opv, rem, cln, owed, crashes>>

\* The .part file of a failed operation is removed if that works.
Discard(o) ==
    /\ Go(o, "discard", "clear")
    /\ partials' \in {partials, partials \ {o}}
    /\ UNCHANGED <<output, backup, record, svc, opv, rem, cln, owed, crashes>>

ClearActive(o) ==
    /\ Go(o, "clear", "closing")
    /\ active' = IF active = o THEN None ELSE active
    /\ UNCHANGED <<disk, record, stopping, halted, opv, rem, cln, owed, crashes>>

CloseDone(o) ==
    /\ Go(o, "closing", "done")
    /\ UNCHANGED <<disk, record, svc, opv, rem, cln, owed, crashes>>

-----------------------------------------------------------------------------
(* Delete, removal, prune and shutdown.                                    *)

Halt == halted' = IF active = None THEN halted ELSE halted \cup {active}

\* Delete, one critical section: the backup goes first, and the output only if the
\* backup could be removed.
Delete ==
    /\ active = None
    /\ output # None
    /\ \/ output' = None /\ backup' = None
       \/ UNCHANGED output /\ backup' \in {None, backup}
    /\ owed' = FALSE
    /\ UNCHANGED <<partials, record, svc, opv, opc, rem, cln, crashes>>

\* RemoveWithArtifacts claims the id and tells the active operation to stop.
BeginRemove ==
    /\ rpc = "idle"
    /\ Halt
    /\ rop' = active
    /\ rpc' = IF active = None THEN "output" ELSE "wait"
    /\ rfailed' = FALSE
    /\ UNCHANGED <<disk, record, active, stopping, opv, opc, cln, owed, crashes>>

GoRem(from, to) == rpc = from /\ rpc' = to

StoppedSeen ==
    /\ GoRem("wait", "output")
    /\ opc[rop] = "done"
    /\ UNCHANGED <<disk, record, svc, opv, opc, rop, rfailed, cln, owed, crashes>>

\* Mutant: a failed removal keeps the id claimed.
ReleaseOnSuccess ==
    /\ ~rfailed
    /\ rpc = "release"
    /\ rpc' = "idle"
    /\ rop' = None
    /\ UNCHANGED <<disk, record, svc, opv, opc, rfailed, cln, owed, crashes>>

\* Mutant: a stop that timed out does not end the removal.
StopTimesOutIgnored ==
    /\ GoRem("wait", "output")
    /\ opc[rop] # "done"
    /\ UNCHANGED <<disk, record, svc, opv, opc, rop, rfailed, cln, owed, crashes>>

StopTimesOut ==
    /\ GoRem("wait", "release")
    /\ opc[rop] # "done"
    /\ UNCHANGED <<disk, record, svc, opv, opc, rop, rfailed, cln, owed, crashes>>

\* removeArtifacts runs without the lock, one file after the other, to the end even
\* if one of them cannot be removed.
RemoveOutput ==
    /\ GoRem("output", "backup")
    /\ owed' = FALSE
    /\ \/ output' = None /\ UNCHANGED rfailed
       \/ output # None /\ UNCHANGED output /\ rfailed' = TRUE
    /\ UNCHANGED <<backup, partials, record, svc, opv, opc, rop, cln, crashes>>

RemoveBackup ==
    /\ GoRem("backup", "partials")
    /\ \/ backup' = None /\ UNCHANGED rfailed
       \/ backup # None /\ UNCHANGED backup /\ rfailed' = TRUE
    /\ UNCHANGED <<output, partials, record, svc, opv, opc, rop, cln, owed, crashes>>

RemovePartials ==
    /\ rpc = "partials"
    /\ \E kept \in SUBSET partials :
           /\ partials' = kept
           /\ rpc' = IF kept # {} \/ rfailed THEN "release" ELSE "metadata"
    /\ UNCHANGED <<output, backup, record, svc, opv, opc, rop, rfailed, cln, owed,
                   crashes>>

\* The callback deletes the VOD from the manager's list, or fails.
RemoveMetadata ==
    /\ rpc \in {"metadata", "prune"}
    /\ rpc' = "release"
    /\ record' \in {FALSE, record}
    /\ UNCHANGED <<disk, svc, opv, opc, rop, rfailed, cln, owed, crashes>>

Release ==
    /\ GoRem("release", "idle")
    /\ rop' = None
    /\ rfailed' = FALSE
    /\ UNCHANGED <<disk, record, svc, opv, opc, cln, owed, crashes>>

\* RemoveMetadataIfNoDownload, called for a VOD that Twitch no longer lists.
BeginPrune ==
    /\ record
    /\ active = None
    /\ output = None
    /\ GoRem("idle", "prune")
    /\ UNCHANGED <<disk, record, svc, opv, opc, rop, rfailed, cln, owed, crashes>>

\* A user saves the VOD again.
Save ==
    /\ ~record
    /\ record' = TRUE
    /\ UNCHANGED <<disk, svc, opv, opc, rem, cln, owed, crashes>>

\* Stop, at shutdown.
Stop ==
    /\ stopping' = TRUE
    /\ Halt
    /\ UNCHANGED <<disk, record, active, opv, opc, rem, cln, owed, crashes>>

-----------------------------------------------------------------------------
(* The cleanup goroutine, and time.                                        *)

\* The listing of .partials: backups are recovered first.
BeginCleanup ==
    /\ cpc = "idle"
    /\ listed' = partials
    /\ cpc' = IF backup # None THEN "recover" ELSE "parts"
    /\ UNCHANGED <<disk, record, svc, opv, opc, rem, owed, crashes>>

\* Mutant: the backup is renamed over a complete file.
RecoverOverFile ==
    /\ cpc = "recover"
    /\ cpc' = "parts"
    /\ \/ active = None /\ backup' = None /\ output' = backup
       \/ UNCHANGED <<output, backup>>
    /\ UNCHANGED <<partials, record, svc, opv, opc, rem, listed, owed, crashes>>

\* Mutant: a backup whose file is complete is not dropped.
RecoverOnlyMissing ==
    /\ cpc = "recover"
    /\ cpc' = "parts"
    /\ \/ active = None /\ output = None /\ output' = backup /\ backup' = None
       \/ UNCHANGED <<output, backup>>
    /\ UNCHANGED <<partials, record, svc, opv, opc, rem, listed, owed, crashes>>

\* recoverInterruptedConversion, one critical section; any call of it may fail.
Recover ==
    /\ cpc = "recover"
    /\ cpc' = "parts"
    /\ \/ /\ active = None
          /\ backup' = None
          /\ output' = IF output # None THEN output ELSE backup
       \/ UNCHANGED <<output, backup>>
    /\ UNCHANGED <<partials, record, svc, opv, opc, rem, listed, owed, crashes>>

\* Mutant: the .part file of the active operation is not spared.
RemoveAnyPartial(o) ==
    /\ cpc = "parts"
    /\ o \in listed
    /\ listed' = listed \ {o}
    /\ partials' = partials \ {o}
    /\ UNCHANGED <<output, backup, record, svc, opv, opc, rem, cpc, owed, crashes>>

\* removeInterruptedPartial, one critical section per listed file.
RemoveInterrupted(o) ==
    /\ cpc = "parts"
    /\ o \in listed
    /\ listed' = listed \ {o}
    /\ \/ partials' = partials \ {o} /\ active # o
       \/ UNCHANGED partials
    /\ UNCHANGED <<output, backup, record, svc, opv, opc, rem, cpc, owed, crashes>>

\* The age of the output is read from the directory entry, without the lock.
ListOutput ==
    /\ cpc = "parts"
    /\ listed = {}
    /\ cpc' = IF output # None /\ output.old THEN "expire" ELSE "idle"
    /\ UNCHANGED <<disk, record, svc, opv, opc, rem, listed, owed, crashes>>

\* removeExpired, one critical section: nothing is active, the backup goes first.
RemoveExpired ==
    /\ cpc = "expire"
    /\ cpc' = "idle"
    /\ \/ /\ active = None
          /\ backup' = None
          /\ output' \in {None, output}
          /\ owed' = (owed /\ \E f \in {output', output, backup} \ {None} : ~f.old)
       \/ UNCHANGED <<output, backup, owed>>
    /\ UNCHANGED <<partials, record, svc, opv, opc, rem, listed, crashes>>

\* The retention period of the files on the disk passes.  It is at least a day: it
\* does not pass while an operation installs its file or the cleanup runs.
Aged(f) == IF f = None THEN None ELSE [f EXCEPT !.old = TRUE]

Age ==
    /\ cpc = "idle"
    /\ \A o \in Op : opc[o] \notin {"install", "stale", "rename", "swap", "dropBackup",
                                  "stamp", "clear"}
    /\ output' = Aged(output)
    /\ backup' = Aged(backup)
    /\ UNCHANGED <<partials, record, svc, opv, opc, rem, cln, owed, crashes>>

\* The server dies and is started again: the disk and the list are what they were.
Crash ==
    /\ crashes < MaxCrashes
    /\ crashes' = crashes + 1
    /\ active' = None /\ stopping' = FALSE /\ halted' = {}
    /\ opc' = [o \in Op |-> IF opc[o] = "idle" THEN "idle" ELSE "done"]
    /\ rpc' = "idle" /\ rop' = None /\ rfailed' = FALSE
    /\ cpc' = "idle" /\ listed' = {}
    /\ UNCHANGED <<disk, record, opv, owed>>

-----------------------------------------------------------------------------
OpStep(o) ==
    \/ CheckInactive(o) \/ ReadSize(o) \/ Probe(o)
    \/ RegisterDownload(o) \/ RegisterConversion(o) \/ Prepare(o) \/ Launch(o) \/ FfmpegEnds(o)
    \/ ReadResult(o) \/ InstallDownload(o) \/ RemoveStaleBackup(o)
    \/ BackUpOriginal(o) \/ InstallConversion(o) \/ RollBack(o) \/ DropBackup(o)
    \/ FinalizeFails(o) \/ Stamp(o) \/ Discard(o) \/ ClearActive(o) \/ CloseDone(o)

RemovalStep ==
    \/ StoppedSeen \/ StopTimesOut \/ RemoveOutput \/ RemoveBackup \/ RemovePartials
    \/ RemoveMetadata \/ Release

CleanupStep ==
    \/ BeginCleanup \/ Recover \/ ListOutput \/ RemoveExpired
    \/ \E o \in Op : RemoveInterrupted(o)

Next ==
    \/ \E o \in Op, k \in {"download", "convert"}, orig \in BOOLEAN : Request(o, k, orig)
    \/ \E o \in Op : OpStep(o)
    \/ Delete \/ BeginRemove \/ BeginPrune \/ RemovalStep \/ Save \/ Stop
    \/ CleanupStep \/ Age \/ Crash

Spec == Init /\ [][Next]_vars

-----------------------------------------------------------------------------
(* Safety.                                                                 *)

Started(o) == opc[o] \notin {"idle", "requested", "checked", "sized", "probed",
                             "closing", "done"}

\* From its registration to the clear of finishDownload or finishConversion an
\* operation is the active one: two of them never work on the id at a time, and a
\* crashed, stopped or failed one leaves nothing registered.
OneOperation ==
    /\ \A o \in Op : Started(o) => active = o
    /\ active # None => Started(active)

\* While RemoveWithArtifacts deletes the files and the metadata, and while a prune
\* deletes the metadata, no operation is active and none starts: removing[id] keeps
\* new ones out, and the wait for done the old one.
RemovalIsAlone ==
    rpc \in {"output", "backup", "partials", "metadata", "prune"} => active = None

\* What works on an id works on it alone, be it an operation, a removal or a prune
\* (the maps active and removing of the downloader, under one mutex).
WorkIsExclusive == OneOperation /\ RemovalIsAlone

\* The .part file ffmpeg writes, and that is going to be installed, is never swept
\* away as the leftover of an interrupted download: the cleanup acts on an old
\* directory listing and looks at active again under the lock.
TempIsKept ==
    \A o \in Op :
        opc[o] \in {"prepared", "running", "exited", "install", "stale", "rename", "swap"}
            => o \in partials

Unfinished == {"registered", "prepared", "running", "exited"}

\* A conversion reads the file it was asked for until it has moved it aside: no
\* delete, expiry, removal or other operation takes it away or replaces it, whatever
\* happened between the read of the progress and the registration.
ConversionReadsItsInput ==
    \A o \in Op :
        kind[o] = "convert" /\ opc[o] \in Unfinished \cup {"stale", "rename"}
            => output # None /\ Size(output) = seen[o]

\* A download never finds its name taken when it is done: nothing, not even the
\* recovery of an old backup, creates the file while it runs.
NameStaysFree ==
    \A o \in Op :
        kind[o] = "download" /\ opc[o] \in Unfinished \cup {"install"}
            => output = None

\* While an operation runs, the name of the VOD is as it was when it was registered.
NameStaysAsRegistered == ConversionReadsItsInput /\ NameStaysFree

\* A finished download nobody deleted is only ever lost by expiry: at every step of
\* a conversion, and across a crash after any of them, either the file or its backup
\* is on the disk.
HasCopy == output # None \/ backup # None

LostOnlyByExpiry ==
    [][owed /\ HasCopy /\ owed' /\ ~HasCopy' => cpc = "expire"]_vars

\* What the retention promises of a file that is not expired: it stays until
\* somebody deletes it.
FreshIsKept == owed => HasCopy

\* The metadata of a VOD is the last of it to go: a removal removes it after the
\* file (vod_download_test.go:402), a prune spares a VOD with a finished download
\* (vod_download.go:18).
MetadataGoesLast ==
    /\ rpc = "metadata" => output = None
    /\ rpc = "prune" => ~(owed /\ HasCopy)

-----------------------------------------------------------------------------
(* The downloader implements VODShelf.                                     *)

Version(f) == IF f = None THEN None ELSE Size(f)

\* The file is the copy, or its backup while a conversion swaps the two or after a
\* crash between them; a backup beside the file is the spare.
Copy == IF output # None THEN Version(output) ELSE Version(backup)

Spare == IF output # None THEN Version(backup) ELSE None

\* A call waits until it is registered, works until it has installed its file or
\* failed, and leaves until it is cleared.
Waiting == {"idle", "requested", "checked", "sized", "probed"}

Working == {"registered", "prepared", "running", "exited", "install", "stale",
            "rename", "swap"}

Leaving == {"dropBackup", "stamp", "discard", "clear"}

Turn(o) ==
    CASE opc[o] \in Waiting -> "waiting"
      [] opc[o] \in Working -> "working"
      [] opc[o] \in Leaving -> "leaving"
      [] OTHER -> "over"

\* A removal waits until nothing is active before it clears.
Clearing == rpc \in {"output", "backup", "partials", "metadata", "prune"}

Shelf == INSTANCE VODShelf WITH
    copy <- Copy,
    spare <- Spare,
    turn <- [o \in Op |-> Turn(o)],
    clearing <- Clearing,
    saved <- record

\* Every step of the downloader is a step of VODShelf or changes nothing it shows: a
\* download or conversion appears at once and whole, the file it replaces is on the
\* disk until then, nobody takes a file away or the metadata while another works on
\* it, and the file a conversion replaced never comes back but in the course of a
\* removal, across failing calls and crashes.
ImplementsShelf == Shelf!Spec

-----------------------------------------------------------------------------
(* Liveness.  The goroutine of an operation, the request that removes and the     *)
(* hourly cleanup go on; ffmpeg ends, at the latest when it is interrupted and    *)
(* then killed; an hourly retry of the cleanup does not fail for ever.            *)

RecoverWorks == Recover /\ backup' # backup

SweepWorks(o) == RemoveInterrupted(o) /\ partials' # partials

Fairness ==
    /\ \A o \in Op : WF_vars(OpStep(o))
    /\ WF_vars(RemovalStep)
    /\ WF_vars(CleanupStep)
    /\ SF_vars(RecoverWorks)
    /\ \A o \in Op : SF_vars(SweepWorks(o))

FairSpec == Spec /\ Fairness

\* Every operation leaves the active map, whichever of its steps fails.
OperationEnds == \A o \in Op : active = o ~> active # o

\* A removal releases the id again, whether it succeeds, fails or times out.
RemovalReturns == rpc # "idle" ~> rpc = "idle"

\* Nothing stays busy: no id is left active or removing.
WorkEnds == OperationEnds /\ RemovalReturns

\* The backup an interrupted conversion left is put back or dropped in the end.
BackupIsResolved == backup # None ~> backup = None

\* So is the .part file of an operation that crashed or could not remove it.
PartialIsSwept == \A o \in Op : o \in partials ~> o \notin partials

\* The disk is clean again in the end, whatever a crash or a failing call left.
LeftoversAreResolved == BackupIsResolved /\ PartialIsSwept
=============================================================================
