------------------------------- MODULE SyncDir -------------------------------
(***************************************************************************)
(* Folder sync from one host to another: begin_sync_dir and run_sync_agent  *)
(* in crates/mcp-server/src/connection.rs, the decision of sync.rs, and the *)
(* walk and the deletion of files.rs.  One file is copied as FileCopy says: *)
(* a copy that succeeds is the file that was hashed; one that fails leaves  *)
(* the old file, a mixture written over it in place, or the new one.        *)
(*                                                                         *)
(* Both hosts read one clock.  Every write of a file, at either end, has a  *)
(* modification time of its own.                                            *)
(***************************************************************************)
EXTENDS Naturals, FiniteSets

CONSTANTS
  Path,      \* relative paths
  Excluded,  \* those the exclude patterns match
  Content,   \* contents of a file
  SizeOf,    \* their sizes
  Mixture,   \* what a file holds that was overwritten in part
  Options,   \* the options a sync may be asked for: delete, checksum, dry_run
  MaxTime    \* bound of the clock

ASSUME SyncAssumption ==
  /\ Excluded \subseteq Path /\ "none" \notin Path /\ "none" \notin Content \cup {Mixture}
  /\ Options \subseteq [delete: BOOLEAN, checksum: BOOLEAN, dry_run: BOOLEAN]
  /\ MaxTime \in Nat \ {0}

VARIABLES
  clock,    \* the time of the last write
  src,      \* the source tree
  dest,     \* the destination tree
  phase,       \* the sync: "idle", "walked", "copy", "delete", "done" or "failed"
  opts,     \* its options
  walk,     \* the source manifest
  todo,     \* plan.to_transfer: what is left to copy
  extra,    \* plan.to_delete
  copying,  \* the file being copied and the file that was hashed
  changed,  \* paths either end of which someone else wrote since the walk (ghost)
  risky,    \* paths whose last copy failed or met an edit of the source (ghost)
  late,     \* paths a failed copy may still have slices on the way to (ghost)
  clean     \* paths a sync left equal and nobody wrote since (ghost)

sync  == <<phase, opts, walk, todo, extra, copying>>
trees == <<clock, src, dest>>
syncVars  == <<sync, trees, changed, risky, late, clean>>

Missing == [data |-> "none", size |-> 0, mtime |-> 0]
File(c, t) == [data |-> c, size |-> SizeOf[c], mtime |-> t]
Files == {Missing} \cup [data: Content \cup {Mixture}, size: {SizeOf[c] : c \in Content},
                         mtime: 0..MaxTime]
NoCopy == [path |-> "none", file |-> Missing]
Running == phase \in {"walked", "copy", "delete"}

SyncTypeOK ==
  /\ clock \in 0..MaxTime
  /\ src \in [Path -> Files] /\ dest \in [Path -> Files]
  /\ phase \in {"idle", "walked", "copy", "delete", "done", "failed"}
  /\ opts \in Options
  /\ walk \in [Path -> Files]
  /\ todo \subseteq Path /\ extra \subseteq Path
  /\ copying = NoCopy \/ copying \in [path: Path, file: Files]
  /\ changed \subseteq Path /\ risky \subseteq Path
  /\ late \subseteq Path /\ clean \subseteq Path

(* What is at the destination first is older than the source. *)
SyncInit ==
  /\ clock = 1
  /\ src \in [Path -> {Missing} \cup {File(c, 1) : c \in Content}]
  /\ dest \in [Path -> {Missing} \cup {File(c, 0) : c \in Content}]
  /\ phase = "idle" /\ opts \in Options
  /\ walk = [p \in Path |-> Missing] /\ todo = {} /\ extra = {} /\ copying = NoCopy
  /\ changed = {} /\ risky = {} /\ late = {} /\ clean = {}

-----------------------------------------------------------------------------
(* The world *)

(* Someone edits, creates or removes a source file. *)
Edit(p) ==
  /\ clock < MaxTime /\ clock' = clock + 1
  /\ src' \in {[src EXCEPT ![p] = f] : f \in {Missing} \cup {File(c, clock + 1) : c \in Content}}
  /\ src'[p].data # src[p].data
  /\ changed' = changed \cup {p}
  /\ risky' = IF copying.path = p THEN risky \cup {p} ELSE risky
  /\ clean' = clean \ {p}
  /\ UNCHANGED <<dest, sync, late>>

(* The destination after slices of some file went over file d, in place.  It is not *)
(* shortened before the last slice.                                                 *)
Mixed(d, t) ==
  {[data |-> Mixture, size |-> n, mtime |-> t] : n \in {SizeOf[c] : c \in Content}}
    \cap {f \in Files : f.size >= d.size}

(* A slice of a copy that was given up arrives after all. *)
LateSlice(p) ==
  /\ p \in late /\ clock < MaxTime /\ clock' = clock + 1
  /\ late' = late \ {p}
  /\ \E f \in Mixed(dest[p], clock + 1) : dest' = [dest EXCEPT ![p] = f]
  /\ changed' = changed \cup {p}
  /\ risky' = risky \cup {p} /\ clean' = clean \ {p}
  /\ UNCHANGED <<src, sync>>

-----------------------------------------------------------------------------
(* The decision: walk_dir and diff_manifests *)

(* walk_dir: the regular files of a tree that are not excluded.  Hashes are made *)
(* only in checksum mode.                                                        *)
Manifest(tree) == {p \in Path \ Excluded : tree[p] # Missing}

DestManifest(tree) == Manifest(tree)

(* Mutant: sizes are all that is compared. *)
NeedsBySize(s, d) == IF opts.checksum THEN s.data # d.data ELSE s.size # d.size

(* Whether a file both ends have is sent again. *)
Needs(s, d) ==
  IF opts.checksum THEN s.data # d.data ELSE s.size # d.size \/ s.mtime > d.mtime

ToTransfer ==
  {p \in Manifest(walk) : p \notin DestManifest(dest) \/ Needs(walk[p], dest[p])}

ToDelete == IF opts.delete THEN DestManifest(dest) \ Manifest(walk) ELSE {}

-----------------------------------------------------------------------------
(* The sync *)

(* begin_sync_dir walks the source; the destination's mode allowed writes.  A sync that *)
(* is refused changes nothing.                                                          *)
BeginSyncDir ==
  /\ ~ Running
  /\ opts' \in Options
  /\ phase' = "walked" /\ walk' = src /\ changed' = {}
  /\ todo' = {} /\ extra' = {} /\ copying' = NoCopy
  /\ UNCHANGED <<trees, risky, late, clean>>

(* The manifest of the destination comes back and is compared. *)
Diff ==
  /\ phase = "walked"
  /\ todo' = ToTransfer /\ extra' = ToDelete
  /\ phase' = IF opts.dry_run THEN "done" ELSE "copy"
  /\ UNCHANGED <<opts, walk, copying, trees, changed, risky, late, clean>>

(* stream_file hashes the file as it is now. *)
CopyStart(p) ==
  /\ phase = "copy" /\ copying = NoCopy /\ p \in todo /\ src[p] # Missing
  /\ copying' = [path |-> p, file |-> src[p]]
  /\ UNCHANGED <<phase, opts, walk, todo, extra, trees, changed, risky, late, clean>>

(* The copy succeeds: the file that was hashed, whole and of the size that was walked. *)
CopyDone ==
  LET p == copying.path IN
  /\ copying # NoCopy /\ copying.file.size = walk[p].size
  /\ clock < MaxTime /\ clock' = clock + 1
  /\ dest' = [dest EXCEPT ![p] = [copying.file EXCEPT !.mtime = clock + 1]]
  /\ risky' = IF src[p] = copying.file THEN risky \ {p} ELSE risky
  /\ clean' = IF src[p] = copying.file THEN clean \cup {p} ELSE clean
  /\ todo' = todo \ {p} /\ copying' = NoCopy
  /\ UNCHANGED <<phase, opts, walk, extra, src, changed, late>>

(* The copy fails, and the sync with it, before, while or after the file was written. *)
CopyFails ==
  LET p == copying.path IN
  /\ copying # NoCopy /\ copying' = NoCopy /\ phase' = "failed"
  /\ \/ UNCHANGED <<clock, dest>>
     \/ /\ clock < MaxTime /\ clock' = clock + 1
        /\ \E f \in Mixed(dest[p], clock + 1) \cup {[copying.file EXCEPT !.mtime = clock + 1]} :
             dest' = [dest EXCEPT ![p] = f]
  /\ risky' = risky \cup {p} /\ late' = late \cup {p} /\ clean' = clean \ {p}
  /\ UNCHANGED <<opts, walk, todo, extra, src, changed>>

(* A file that is gone or out of reach, an unanswered manifest: the sync fails. *)
Fail ==
  /\ \/ phase = "walked"
     \/ phase = "copy" /\ copying = NoCopy /\ \E p \in todo : src[p] = Missing
  /\ phase' = "failed"
  /\ UNCHANGED <<opts, walk, todo, extra, copying, trees, changed, risky, late, clean>>

(* Every changed file is copied; the extras are left. *)
Copied ==
  /\ phase = "copy" /\ copying = NoCopy /\ todo = {}
  /\ phase' = IF extra = {} THEN "done" ELSE "delete"
  /\ UNCHANGED <<opts, walk, todo, extra, copying, trees, changed, risky, late, clean>>

(* delete_paths: all of them, or some before one fails. *)
Delete ==
  /\ phase = "delete"
  /\ \E gone \in SUBSET extra :
       /\ dest' = [p \in Path |-> IF p \in gone THEN Missing ELSE dest[p]]
       /\ phase' \in (IF gone = extra THEN {"done", "failed"} ELSE {"failed"})
  /\ UNCHANGED <<opts, walk, todo, extra, copying, clock, src, changed, risky, late, clean>>

SyncNext ==
  \/ BeginSyncDir \/ Diff \/ CopyDone \/ CopyFails \/ Fail \/ Copied \/ Delete
  \/ \E p \in Path : Edit(p) \/ LateSlice(p) \/ CopyStart(p)

SyncSpec == SyncInit /\ [][SyncNext]_syncVars

-----------------------------------------------------------------------------
Same(p) == src[p].data = dest[p].data
Finished == phase = "done" /\ ~ opts.dry_run

(* A sync that reports success has made the destination equal to the source: every *)
(* file nobody wrote meanwhile is the same, and with delete nothing else is left.  *)
(* The quick check is not told of a copy that failed, or that raced an edit of its *)
(* file: such a path may stay wrong until checksums are compared.                  *)
Mirrors ==
  Finished => \A p \in Path \ (Excluded \cup changed) :
    /\ src[p] # Missing => Same(p) \/ (~ opts.checksum /\ p \in risky)
    /\ opts.delete /\ src[p] = Missing => dest[p] = Missing

(* As documented (sync.rs): only an edit dated back before the last sync, or clocks *)
(* that disagree, escape the quick check; the model has neither.                    *)
QuickCheckMirrors ==
  Finished => \A p \in Path \ (Excluded \cup changed) : src[p] # Missing => Same(p)

(* Nothing is ever done to an excluded path, not even by delete. *)
ExcludedKept == [][\A p \in Excluded : dest'[p] = dest[p]]_syncVars

(* A file that was copied and not written since is not sent again. *)
SendsOnlyNews == phase = "walked" /\ phase' # "failed" => todo' \cap clean = {}
NotResent == [][SendsOnlyNews]_syncVars
=============================================================================
