--------------------------- MODULE BackupArchive ---------------------------
(***************************************************************************)
(* The nightly sh/reflect_tar_del.sh beside the reflect process: it puts   *)
(* the files of the backup directory into a tar file, compresses it and    *)
(* removes them.  TarGzip passes the pattern on unexpanded, so that the    *)
(* shell reads the directory at tar and again at rm, while the process     *)
(* goes on moving files into it.  The merged files go the same way.        *)
(***************************************************************************)
EXTENDS Reflector

VARIABLES step,       \* where TarGzip is
          tarred,     \* the files in the tar file of this run
          archived,   \* the files in compressed archives
          removed     \* history: the files rm was given

archive == <<step, tarred, archived, removed>>

ArchiveInit == /\ Init
               /\ step = "idle" /\ tarred = {} /\ archived = {} /\ removed = {}

(* main() calls TarGzip only if the directory holds a file.                *)
Tar == /\ step = "idle" /\ backup # {}
       /\ tarred' = backup
       /\ step' = "gzip"
       /\ UNCHANGED <<vars, archived, removed>>

(* A command that fails ends the script; what it left stays where it is.   *)
Gzip == /\ step = "gzip"
        /\ \/ archived' = archived \cup tarred /\ step' = "rm" /\ UNCHANGED faults
           \/ Fault /\ step' = "idle" /\ UNCHANGED archived
        /\ UNCHANGED <<pc, dirs, round, stop, scripts, left, alarms, mine, published, tarred, removed>>

Rm == /\ step = "rm"
      /\ removed' = removed \cup backup
      /\ backup' = {}
      /\ step' = "idle"
      /\ UNCHANGED <<pc, input, round, stop, scripts, left, alarms, mine, env, tarred, archived>>

ArchiveNext == \/ Next /\ UNCHANGED archive
               \/ Tar \/ Gzip \/ Rm

ArchiveSpec == ArchiveInit /\ [][ArchiveNext]_<<vars, archive>>

(* The script deletes from the directory the files it has compressed       *)
(* (reflect_tar_del.sh:15-17), so no file is lost.                         *)
RemovedIsArchived == removed \subseteq archived
=============================================================================
