------------------------------- MODULE Bundle -------------------------------
(***************************************************************************)
(* Publishing what a phone sent as a directory of the execution             *)
(* (drop_point/storage.rs, drop_point/secure_fs.rs): DropPoint takes this   *)
(* for one step, here it is the writes it is made of.                       *)
(*                                                                          *)
(* Programs that have the execution open install one submission.  Each      *)
(* holds a bundle: recovered files and the receipt that describes them.     *)
(* The receipt is one more name in the directory.  A bundle is built in a   *)
(* hidden staging directory under a lock file and renamed to its name, if   *)
(* nothing has that name.  A program may stop anywhere (its lock goes with  *)
(* it), any operation of the file system may fail, and the machine may      *)
(* lose power: then an entry of a directory that was not synced is there or *)
(* is not, as chance has it.                                                *)
(***************************************************************************)
EXTENDS Naturals, FiniteSets

CONSTANTS
  Installers,  \* programs that install the submission
  Bundles,     \* what they may have recovered: sets of names of files
  Receipt,     \* the receipt's name
  NoBundle,    \* no directory
  MaxMishaps   \* bound: stops, failed operations, losses of power

EntriesOf(b) == b \cup {Receipt}

AnyEntries == SUBSET UNION {EntriesOf(b) : b \in Bundles}

(* A directory for a bundle: what is in it, of that what is written in      *)
(* full, and the entries that a loss of power leaves.                       *)
Directory ==
  [bundle : Bundles, names : AnyEntries, whole : AnyEntries, kept : AnyEntries]

(* build_receipt: from 1 to 1000 files, none of which has the receipt's     *)
(* name (validate_filename).                                                *)
ASSUME BundleAssumption ==
  /\ \A b \in Bundles : IsFiniteSet(b) /\ b # {} /\ Receipt \notin b
  /\ NoBundle \notin Installers /\ NoBundle \notin Bundles /\ NoBundle \notin Directory
  /\ MaxMishaps \in Nat

VARIABLES
  installer,   \* per program: how far it is, with which bundle
  lockedBy,    \* the program that has the install lock
  staging,     \* the staging directory
  published,   \* the directory under the submission's name
  renameKept,  \* the attachments directory was synced after the rename
  told,        \* history: bundles reported as installed
  mishaps

bundleVars == << installer, lockedBy, staging, published, renameKept, told, mishaps >>

NotInstalling == [pc |-> "idle", bundle |-> NoBundle]

Emptied(b) == [bundle |-> b, names |-> {}, whole |-> {}, kept |-> {}]

(* verify_receipt_and_files: the receipt is this bundle's, nothing is       *)
(* missing or too much, and every file has its size and hash.               *)
Verified(directory, b) ==
  /\ directory # NoBundle
  /\ directory.bundle = b
  /\ directory.names = EntriesOf(b)
  /\ directory.whole = EntriesOf(b)

BundleInit ==
  /\ installer = [i \in Installers |-> NotInstalling]
  /\ lockedBy = NoBundle
  /\ staging = NoBundle
  /\ published = NoBundle
  /\ renameKept = TRUE
  /\ told = {}
  /\ mishaps = 0

Reaches(i, pc, next) ==
  /\ installer[i].pc = pc
  /\ installer' = [installer EXCEPT ![i].pc = next]

-----------------------------------------------------------------------------
(* install_bundle *)

(* build_receipt, acquire_install_lock: whoever does not get the lock gives *)
(* up.                                                                      *)
AcquireLock(i, b) ==
  /\ installer[i].pc = "idle"
  /\ lockedBy = NoBundle
  /\ lockedBy' = i
  /\ installer' = [installer EXCEPT ![i] = [pc |-> "locked", bundle |-> b]]
  /\ UNCHANGED << staging, published, renameKept, told, mishaps >>

(* cleanup_stale_staging_directories, and its sync_dir.                     *)
CleanUp(i) ==
  /\ Reaches(i, "locked", "cleaned")
  /\ staging' = NoBundle
  /\ UNCHANGED << lockedBy, published, renameKept, told, mishaps >>

(* The name is taken: by this bundle, or by another one.                    *)
FindPublished(i) ==
  /\ published # NoBundle
  /\ Reaches(i, "cleaned", IF Verified(published, installer[i].bundle) THEN "published"
                                                                       ELSE "failed")
  /\ UNCHANGED << lockedBy, staging, published, renameKept, told, mishaps >>

(* create_private_directory, and the sync_dir after it.                     *)
MakeStaging(i) ==
  /\ published = NoBundle
  /\ Reaches(i, "cleaned", "staging")
  /\ staging' = Emptied(installer[i].bundle)
  /\ UNCHANGED << lockedBy, published, renameKept, told, mishaps >>

(* stage_bundle: the files one by one, then the receipt.                    *)
NextName(i) ==
  LET missing == installer[i].bundle \ staging.whole
  IN  IF missing = {} THEN Receipt ELSE CHOOSE n \in missing : TRUE

(* write_private_file: create_new, then write_all and sync_all.             *)
CreateEntry(i) ==
  /\ Reaches(i, "staging", "writing")
  /\ staging' = [staging EXCEPT !.names = @ \cup {NextName(i)}]
  /\ UNCHANGED << lockedBy, published, renameKept, told, mishaps >>

WriteEntry(i) ==
  /\ Reaches(i, "writing", IF NextName(i) = Receipt THEN "staged" ELSE "staging")
  /\ staging' = [staging EXCEPT !.whole = @ \cup {NextName(i)}]
  /\ UNCHANGED << lockedBy, published, renameKept, told, mishaps >>

(* Faulty variant of SyncStaging: renames without it. *)
SyncStagingNot(i) ==
  /\ Reaches(i, "staged", "ready")
  /\ UNCHANGED << lockedBy, staging, published, renameKept, told, mishaps >>

(* sync_dir(staging_path).                                                  *)
SyncStaging(i) ==
  /\ Reaches(i, "staged", "ready")
  /\ staging' = [staging EXCEPT !.kept = staging.names]
  /\ UNCHANGED << lockedBy, published, renameKept, told, mishaps >>

(* publish_directory_without_replacement: if the name is taken after all,   *)
(* what has it must be the same bundle, and the staging directory goes.     *)
PublishDirectory(i) ==
  /\ IF published = NoBundle
       THEN /\ Reaches(i, "ready", "published")
            /\ published' = staging
            /\ renameKept' = FALSE
       ELSE /\ Reaches(i, "ready", IF Verified(published, installer[i].bundle)
                                     THEN "published" ELSE "failed")
            /\ UNCHANGED << published, renameKept >>
  /\ staging' = NoBundle
  /\ UNCHANGED << lockedBy, told, mishaps >>

(* sync_dir(attachments_dir), then receipt_to_install.                      *)
Report(i) ==
  /\ Reaches(i, "published", "idle")
  /\ renameKept' = TRUE
  /\ told' = told \cup {installer[i].bundle}
  /\ lockedBy' = NoBundle
  /\ UNCHANGED << staging, published, mishaps >>

(* The error path: the staging directory is removed, which may fail too.    *)
GiveUpInstall(i) ==
  /\ installer[i].pc = "failed"
  /\ installer' = [installer EXCEPT ![i] = NotInstalling]
  /\ staging' \in {staging, NoBundle}
  /\ lockedBy' = NoBundle
  /\ UNCHANGED << published, renameKept, told, mishaps >>

-----------------------------------------------------------------------------
Mishap ==
  /\ mishaps < MaxMishaps
  /\ mishaps' = mishaps + 1

FailOperation(i) ==
  /\ Mishap
  /\ installer[i].pc \notin {"idle", "failed"}
  /\ installer' = [installer EXCEPT ![i].pc = "failed"]
  /\ UNCHANGED << lockedBy, staging, published, renameKept, told >>

StopProgram(i) ==
  /\ Mishap
  /\ installer[i].pc # "idle"
  /\ installer' = [installer EXCEPT ![i] = NotInstalling]
  /\ lockedBy' = IF lockedBy = i THEN NoBundle ELSE lockedBy
  /\ UNCHANGED << staging, published, renameKept, told >>

(* The states of a directory after a loss of power.                         *)
Remains(directory) ==
  IF directory = NoBundle THEN {NoBundle}
  ELSE {[directory EXCEPT !.names = left, !.whole = @ \cap left, !.kept = left] :
          left \in {n \in SUBSET directory.names : directory.kept \subseteq n}}

(* Every program stops.  A rename that was not synced may be undone.        *)
LosePower ==
  /\ Mishap
  /\ installer' = [i \in Installers |-> NotInstalling]
  /\ lockedBy' = NoBundle
  /\ \/ /\ published' \in Remains(published)
        /\ staging' \in Remains(staging)
     \/ /\ ~renameKept
        /\ published' = NoBundle
        /\ staging' \in Remains(published)
  /\ renameKept' = TRUE
  /\ UNCHANGED told

-----------------------------------------------------------------------------
InstallStep(i) ==
  \/ \E b \in Bundles : AcquireLock(i, b)
  \/ CleanUp(i)
  \/ FindPublished(i)
  \/ MakeStaging(i)
  \/ CreateEntry(i)
  \/ WriteEntry(i)
  \/ SyncStaging(i)
  \/ PublishDirectory(i)
  \/ Report(i)
  \/ GiveUpInstall(i)
  \/ FailOperation(i)
  \/ StopProgram(i)

BundleNext ==
  \/ \E i \in Installers : InstallStep(i)
  \/ LosePower

BundleSpec == BundleInit /\ [][BundleNext]_bundleVars

-----------------------------------------------------------------------------
BundlePcs == {"idle", "locked", "cleaned", "staging", "writing", "staged", "ready",
              "published", "failed"}

(* The type invariant.                                                      *)
BundleTypeOK ==
  /\ installer \in [Installers -> [pc : BundlePcs, bundle : Bundles \cup {NoBundle}]]
  /\ lockedBy \in Installers \cup {NoBundle}
  /\ staging \in Directory \cup {NoBundle}
  /\ published \in Directory \cup {NoBundle}
  /\ renameKept \in BOOLEAN
  /\ told \subseteq Bundles
  /\ mishaps \in 0..MaxMishaps

(* A directory under a submission's name is a whole bundle, as              *)
(* discover_installed_bundles and every retry need it, and the one that was *)
(* reported as installed is there for good: through failures, programs that *)
(* stop, programs that install at once, and losses of power.                *)
PublishedIsWhole ==
  /\ published # NoBundle => Verified(published, published.bundle)
  /\ \A b \in told : published # NoBundle /\ published.bundle = b
=============================================================================
