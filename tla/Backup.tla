-------------------------------- MODULE Backup --------------------------------
(***************************************************************************)
(* backup/backup.go: an archive of the database and the configuration, and *)
(* its restoration.  A file is a sequence of blocks, each of the moment it *)
(* was written, and may be empty; the program goes on writing while an     *)
(* archive is made.  The configuration may be missing.  Of the archives    *)
(* there is the one that was made last.                                    *)
(***************************************************************************)
EXTENDS Naturals, Sequences

CONSTANTS
  Lengths,  \* lengths a file may have
  Limit,    \* maxDecompressedSize, in blocks
  Ages      \* bound: times the files are written

BackedUp == {"db", "config"}
NoFile == <<>>

ASSUME BackupAssumption == Lengths \subseteq Nat /\ Limit \in Nat \ {0} /\ Ages \in Nat

VARIABLES
  age,     \* the number of the last write
  live,    \* file -> its blocks
  missing, \* the files that are not there
  temp,    \* file -> the blocks of <name>.tmp
  archive, \* file -> the blocks of its entry, and whether the manifest is there
  entries, \* the files the archive has an entry for
  copying, \* Export: the files it is done with, or still copies; or Import: those it has restored
  ever,    \* history: what each file has been, and what an archive that is imported has of it
  had      \* history: the files that were there when the archive was begun

backupVars == <<age, live, missing, temp, archive, entries, copying, ever, had>>

NotCopying == [job |-> "none", done |-> {}]
NoArchive == [db |-> NoFile, config |-> NoFile, manifest |-> FALSE]
BlocksOf(n, moment) == [i \in 1..n |-> moment]

BackupInit ==
  /\ age = 0 /\ copying = NotCopying /\ archive = NoArchive /\ entries = {} /\ had = {}
  /\ missing \in SUBSET {"config"}
  /\ live \in [BackedUp -> {BlocksOf(n, 0) : n \in Lengths} \cup {NoFile}]
  /\ \A f \in missing : live[f] = NoFile
  /\ temp = [f \in BackedUp |-> NoFile]
  /\ ever = [f \in BackedUp |-> IF f \in missing THEN {} ELSE {live[f]}]

-----------------------------------------------------------------------------
\* The program writes a file from its first block on.
WriteFile(f, n) ==
  /\ age < Ages /\ age' = age + 1
  /\ live' = [live EXCEPT ![f] = BlocksOf(n, age + 1)] /\ missing' = missing \ {f}
  /\ ever' = [ever EXCEPT ![f] = @ \cup {BlocksOf(n, age + 1)}]
  /\ UNCHANGED <<temp, archive, entries, copying, had>>

\* Export begins a new archive,
ExportBegins ==
  /\ copying = NotCopying
  /\ copying' = [job |-> "export", done |-> {}] /\ archive' = NoArchive /\ entries' = {}
  /\ had' = BackedUp \ missing
  /\ UNCHANGED <<age, live, missing, temp, ever>>

Reaches(job, f) ==
  copying.job = job /\ f \notin copying.done /\ (f = "config" => "db" \in copying.done)

\* opens the database, then the configuration, which it passes over when Stat
\* finds none: the manifest will name it all the same,
AddEntry(f) ==
  /\ Reaches("export", f) /\ f \notin entries
  /\ IF f \in missing
     THEN copying' = [copying EXCEPT !.done = @ \cup {f}] /\ UNCHANGED entries
     ELSE entries' = entries \cup {f} /\ UNCHANGED copying
  /\ UNCHANGED <<age, live, missing, temp, archive, ever, had>>

\* and addFileToZip reads block after block, each as it is by then,
AddFileToZip(f) ==
  LET n == Len(archive[f])
  IN  /\ Reaches("export", f) /\ f \in entries
      /\ IF n < Len(live[f])
         THEN archive' = [archive EXCEPT ![f] = Append(@, live[f][n + 1])] /\ UNCHANGED copying
         ELSE copying' = [copying EXCEPT !.done = @ \cup {f}] /\ UNCHANGED archive
      /\ UNCHANGED <<age, live, missing, temp, entries, ever, had>>

\* and the manifest is last.
AddManifest ==
  /\ copying = [job |-> "export", done |-> BackedUp]
  /\ copying' = NotCopying /\ archive' = [archive EXCEPT !.manifest = TRUE]
  /\ UNCHANGED <<age, live, missing, temp, entries, ever, had>>

\* Import: only of an archive with a manifest, whatever files that names.
ImportBegins ==
  /\ copying = NotCopying /\ archive.manifest
  /\ copying' = [job |-> "import", done |-> {}]
  /\ ever' = [f \in BackedUp |-> IF f \in entries THEN ever[f] \cup {archive[f]} ELSE ever[f]]
  /\ UNCHANGED <<age, live, missing, temp, archive, entries, had>>

\* Mutated ExtractBlock: into the file itself.
ExtractInPlace(f) ==
  LET n == Len(temp[f])
  IN  /\ Reaches("import", f) /\ f \in entries
      /\ n < Len(archive[f]) /\ n < Limit
      /\ temp' = [temp EXCEPT ![f] = SubSeq(archive[f], 1, n + 1)]
      /\ live' = [live EXCEPT ![f] = temp'[f]] /\ missing' = missing \ {f}
      /\ UNCHANGED <<age, archive, entries, copying, ever, had>>

\* extractFile: a block more into <name>.tmp, up to the limit,
ExtractBlock(f) ==
  LET n == Len(temp[f])
  IN  /\ Reaches("import", f) /\ f \in entries
      /\ n < Len(archive[f]) /\ n < Limit
      /\ temp' = [temp EXCEPT ![f] = SubSeq(archive[f], 1, n + 1)]
      /\ UNCHANGED <<age, live, missing, archive, entries, copying, ever, had>>

\* The last entry ends the import.
FileDone(f) == copying' = IF f = "config" THEN NotCopying ELSE [copying EXCEPT !.done = @ \cup {f}]

\* which is renamed when the archive has no more, or the limit is reached: CopyN
\* returns no error then, and what is beyond is lost.
ExtractRenames(f) ==
  /\ Reaches("import", f) /\ f \in entries /\ FileDone(f)
  /\ Len(temp[f]) = Len(archive[f]) \/ Len(temp[f]) = Limit
  /\ live' = [live EXCEPT ![f] = temp[f]] /\ missing' = missing \ {f}
  /\ temp' = [temp EXCEPT ![f] = NoFile]
  /\ UNCHANGED <<age, archive, entries, ever, had>>

\* A file the archive has no entry for stays as it is.
ImportSkips(f) ==
  /\ Reaches("import", f) /\ f \notin entries /\ FileDone(f)
  /\ UNCHANGED <<age, live, missing, temp, archive, entries, ever, had>>

\* A read or a write fails, or the process ends: the file that was being extracted
\* stays as it was, the archive that was being made stays unfinished.  The next
\* extraction begins <name>.tmp anew.
CopyFails ==
  /\ copying # NotCopying /\ copying' = NotCopying
  /\ temp' = [f \in BackedUp |-> NoFile]
  /\ UNCHANGED <<age, live, missing, archive, entries, ever, had>>

BackupNext ==
  \/ ExportBegins \/ AddManifest \/ ImportBegins \/ CopyFails
  \/ \E f \in BackedUp :
       \/ AddEntry(f) \/ AddFileToZip(f) \/ ExtractBlock(f) \/ ExtractRenames(f) \/ ImportSkips(f)
       \/ \E n \in Lengths : WriteFile(f, n)

BackupSpec == BackupInit /\ [][BackupNext]_backupVars

-----------------------------------------------------------------------------
BackupTypeOK ==
  /\ age \in 0..Ages /\ copying.done \subseteq BackedUp /\ missing \subseteq {"config"}
  /\ \A f \in BackedUp : Len(temp[f]) <= Limit

\* A file longer than the limit, of which the beginning was restored.
CutFrom(blocks, versions) ==
  \E whole \in versions : Len(whole) > Limit /\ blocks = SubSeq(whole, 1, Limit)

\* Whatever fails while an archive is restored, a file is one the program wrote or
\* an archive has, never the beginning of one and the end of another; but what is
\* longer than the limit is cut there, and the restoration ends as if it were whole.
FilesAreWhole ==
  \A f \in BackedUp \ missing : live[f] \in ever[f] \/ CutFrom(live[f], ever[f])

\* An archive with a manifest, which names both files, has the database and, if it
\* was there when the archive was begun, the configuration; each block is from the
\* file, though the blocks may be of different moments.
ArchiveIsComplete ==
  archive.manifest =>
    /\ had \cup {"db"} \subseteq entries
    /\ \A f \in entries : \A i \in 1..Len(archive[f]) :
         \E c \in ever[f] : i <= Len(c) /\ c[i] = archive[f][i]

\* What holds of the backup.
BackupInv == BackupTypeOK /\ FilesAreWhole /\ ArchiveIsComplete
=============================================================================
