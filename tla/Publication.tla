---------------------------- MODULE Publication ----------------------------
(***************************************************************************)
(* Writing a file in place of another while other runs do the same: the    *)
(* transforms of warc-ops (file.rs, transform) replace their output, and a *)
(* collection of the archiver (collection.rs, new_for_path and             *)
(* finish_to_path) refuses to replace one.  Both write "<output>.partial", *)
(* created exclusively and kept on failure, and move it into place.        *)
(*                                                                         *)
(* The file system maps names to files or, for a symbolic link, to another *)
(* name; two names of one file are hard links.  A run creates at most one  *)
(* file, which is named like the run.  Runs are processes that may end at  *)
(* any step, and the power may fail: what is on disk then is the directory *)
(* as it was last written back, and of each file what was synced.  What    *)
(* Publication does is code of another repository (archivindex-            *)
(* publication), modelled as file.rs:118-125 and lib.rs:215 rely on it.    *)
(***************************************************************************)
EXTENDS Naturals, Sequences

CONSTANTS
    Runs,
    Old,        \* the files that exist before any run
    Names,
    Outputs,    \* the names runs write to
    PartialOf,  \* the partial name of each output
    Jobs,       \* what a run may be asked: [inputs, output, replace]
    None

Partials == {PartialOf[o] : o \in Outputs}

Files == Old \cup Runs

ASSUME DisjointAssumption ==
    /\ Old \cap Runs = {}
    /\ Names \cap Files = {}
    /\ None \notin Names \cup Files

\* An output is not the partial file of another.
ASSUME PartialAssumption ==
    /\ Outputs \subseteq Names
    /\ PartialOf \in [Outputs -> Names]
    /\ Partials \cap Outputs = {}
    /\ \A o, p \in Outputs : PartialOf[o] = PartialOf[p] => o = p

ASSUME JobAssumption == Jobs \subseteq [inputs : Seq(Names), output : Outputs, replace : BOOLEAN]

VARIABLES
    job,     \* what each run was asked
    pc,      \* where each run is
    opened,  \* the files each run has opened, one for each input
    dir,     \* what each name holds
    disk,    \* what each name holds if the power fails
    whole,   \* the files that were written to their end
    synced,  \* the files that are whole on disk
    rank     \* of each file, which publication it was; 0 of none (history)

publicationVars == <<job, pc, opened, dir, disk, whole, synced, rank>>

Steps == {"check", "open", "create", "write", "sync", "rename", "syncdir", "done", "failed"}

\* The steps in which a run relies on its partial file.
Writing(r) == pc[r] \in {"write", "sync", "rename"}

Entries == Files \cup Names \cup {None}

\* A link is to a file that exists, and not to a partial file.
Directories ==
    {d \in [Names -> Old \cup Names \cup {None}] :
        \A n \in Names : d[n] \in Names => d[n] \notin Partials /\ d[d[n]] \in Old}

PublicationInit ==
    /\ job \in [Runs -> Jobs]
    /\ pc = [r \in Runs |-> "check"]
    /\ opened = [r \in Runs |-> <<>>]
    /\ dir \in Directories
    /\ disk = dir
    /\ whole = Old
    /\ synced = Old
    /\ rank = [f \in Files |-> 0]

Canonical(n) == IF dir[n] \in Names THEN dir[n] ELSE n

Resolved(n) == dir[Canonical(n)]

\* Faulty: names are compared as they are spelled.
IsSameName(input, output) == input = output

IsSameFile(input, output) ==
    \/ input = output
    \/ Resolved(input) # None /\ Canonical(input) = output

Output(r) == job[r].output

Inputs(r) == job[r].inputs

Check(r) ==
    /\ pc[r] = "check"
    /\ pc' = [pc EXCEPT ![r] = IF \E i \in DOMAIN Inputs(r) : IsSameFile(Inputs(r)[i], Output(r))
                               THEN "failed" ELSE "open"]
    /\ UNCHANGED <<job, opened, dir, disk, whole, synced, rank>>

Open(r) ==
    /\ pc[r] = "open"
    /\ IF Len(opened[r]) = Len(Inputs(r))
       THEN pc' = [pc EXCEPT ![r] = "create"] /\ UNCHANGED opened
       ELSE LET file == Resolved(Inputs(r)[Len(opened[r]) + 1])
            IN  IF file = None
                THEN pc' = [pc EXCEPT ![r] = "failed"] /\ UNCHANGED opened
                ELSE opened' = [opened EXCEPT ![r] = Append(@, file)] /\ UNCHANGED pc
    /\ UNCHANGED <<job, dir, disk, whole, synced, rank>>

\* Faulty: the output is written in place.
InPlace(r) == Output(r)

Partial(r) == PartialOf[Output(r)]

\* Faulty: a partial file that exists is written over.
AlwaysVacant(n) == n \in Names

\* Nothing is there, not even a link.
Vacant(n) == dir[n] = None

Create(r) ==
    /\ pc[r] = "create"
    /\ IF Vacant(Partial(r))
       THEN /\ dir' = [dir EXCEPT ![Partial(r)] = r]
            /\ pc' = [pc EXCEPT ![r] = "write"]
       ELSE /\ pc' = [pc EXCEPT ![r] = "failed"]
            /\ UNCHANGED dir
    /\ UNCHANGED <<job, opened, disk, whole, synced, rank>>

\* The last record is written and the writer is finished.
Write(r) ==
    /\ pc[r] = "write"
    /\ whole' = whole \cup {r}
    /\ pc' = [pc EXCEPT ![r] = "sync"]
    /\ UNCHANGED <<job, opened, dir, disk, synced, rank>>

Sync(r) ==
    /\ pc[r] = "sync"
    /\ synced' = synced \cup {r}
    /\ pc' = [pc EXCEPT ![r] = "rename"]
    /\ UNCHANGED <<job, opened, dir, disk, whole, rank>>

\* Policy::Replace and Policy::CreateNew.
MayReplace(r) == job[r].replace \/ dir[Output(r)] = None

\* The name is replaced, and not the file or the link it held.
Rename(r) ==
    /\ pc[r] = "rename"
    /\ IF MayReplace(r)
       THEN /\ dir' = [dir EXCEPT ![Output(r)] = dir[Partial(r)], ![Partial(r)] = None]
            /\ pc' = [pc EXCEPT ![r] = "syncdir"]
            /\ \E k \in {rank[f] : f \in Files} :
                  /\ \A f \in Files : rank[f] <= k
                  /\ rank' = [rank EXCEPT ![r] = k + 1]
       ELSE /\ pc' = [pc EXCEPT ![r] = "failed"]
            /\ UNCHANGED <<dir, rank>>
    /\ UNCHANGED <<job, opened, disk, whole, synced>>

\* Faulty: the directory is not synced.
WrittenBackLater == disk

\* The directory as it is once synced.
WrittenBack == dir

SyncDirectory(r) ==
    /\ pc[r] = "syncdir"
    /\ disk' = WrittenBack
    /\ pc' = [pc EXCEPT ![r] = "done"]
    /\ UNCHANGED <<job, opened, dir, whole, synced, rank>>

\* A step fails, or the process ends: the partial file stays.
Fail(r) ==
    /\ pc[r] \notin {"done", "failed"}
    /\ pc' = [pc EXCEPT ![r] = "failed"]
    /\ UNCHANGED <<job, opened, dir, disk, whole, synced, rank>>

\* The user removes the partial file of a run that ended.
Discard(n) ==
    /\ dir[n] # None
    /\ \A r \in Runs : Partial(r) = n => ~Writing(r)
    /\ dir' = [dir EXCEPT ![n] = None]
    /\ UNCHANGED <<job, pc, opened, disk, whole, synced, rank>>

\* The system writes the directory back when it likes.
WriteBack ==
    /\ disk' = dir
    /\ UNCHANGED <<job, pc, opened, dir, whole, synced, rank>>

PowerLoss ==
    /\ pc' = [r \in Runs |-> IF pc[r] = "done" THEN "done" ELSE "failed"]
    /\ dir' = disk
    /\ whole' = whole \cap synced
    /\ UNCHANGED <<job, opened, disk, synced, rank>>

RunStep(r) ==
    Check(r) \/ Open(r) \/ Create(r) \/ Write(r) \/ Sync(r) \/ Rename(r) \/ SyncDirectory(r)
    \/ Fail(r)

PublicationNext ==
    \/ \E r \in Runs : RunStep(r)
    \/ \E n \in Partials : Discard(n)
    \/ WriteBack
    \/ PowerLoss

PublicationSpec == PublicationInit /\ [][PublicationNext]_publicationVars

-----------------------------------------------------------------------------
PublicationTypeOK ==
    /\ job \in [Runs -> Jobs]
    /\ pc \in [Runs -> Steps]
    /\ opened \in [Runs -> Seq(Files)]
    /\ dir \in [Names -> Entries]
    /\ disk \in [Names -> Entries]
    /\ whole \subseteq Files
    /\ synced \subseteq Files
    /\ rank \in [Files -> Nat]

\* file.rs:118-120: a name that is not a partial one holds, at every moment and
\* after a power failure, a file that was there before or that a run wrote to
\* its end.
OutputsWhole ==
    \A n \in Names \ Partials : \A d \in {dir, disk} :
        d[n] \in Files => d[n] \in whole \cap synced

\* What a run reads under such a name is one whole file, also while other runs
\* replace it: the file opened is the file read.
InputsWhole ==
    \A r \in Runs : pc[r] # "failed" =>
        \A i \in DOMAIN opened[r] : Inputs(r)[i] \notin Partials => opened[r][i] \in whole \cap synced

\* A run that has returned success has put its output, or a later one has put
\* its own, where it survives a power failure.
SuccessIsDurable ==
    \A r \in Runs : pc[r] = "done" =>
        \A d \in {dir, disk} :
            d[Output(r)] \in Files /\ rank[d[Output(r)]] >= rank[r] /\ rank[r] > 0

\* client/mod.rs:125, "refusing to overwrite it": what is on disk under a name
\* that no run may replace is never replaced, whoever publishes.
Protected == {n \in Names \ Partials : \A r \in Runs : Output(r) = n => ~job[r].replace}

ArchivesNotReplaced ==
    [][\A n \in Protected : disk[n] # None => disk'[n] = disk[n]]_publicationVars

\* file.rs:121-122: the publication of a run never changes what the names of its
\* own inputs hold, even when its output is another name of an input.
OwnInputsKept ==
    [][\A r \in Runs : pc[r] = "rename" /\ pc'[r] = "syncdir" =>
          \A i \in DOMAIN Inputs(r) :
              Inputs(r)[i] \notin Partials => Resolved(Inputs(r)[i])' = Resolved(Inputs(r)[i])]_publicationVars

\* No publication takes away a file it must not: an archive, or the run's own
\* input.  (file.rs, transform; collection.rs, finish_to_path)
NothingTakenAway == ArchivesNotReplaced /\ OwnInputsKept

-----------------------------------------------------------------------------
(* The inductive invariant.                                                *)

\* The partial file of a run that is writing is the one it created, and until it
\* is published it has no other name.
PartialOwned ==
    \A r \in Runs :
        /\ Writing(r) => dir[Partial(r)] = r
        /\ Writing(r) \/ pc[r] \in {"check", "open", "create"} =>
              \A n \in Names \ Partials : dir[n] # r /\ disk[n] # r

\* Links are as they were in the beginning, to files that are still there.
LinksHeld ==
    \A d \in {dir, disk} : \A n \in Names :
        d[n] \in Names => /\ d[n] \notin Partials
                          /\ dir[d[n]] \in Files
                          /\ disk[d[n]] \in Files

Progress ==
    /\ \A r \in Runs :
          /\ pc[r] \in {"sync", "rename", "syncdir"} => r \in whole
          /\ pc[r] \in {"rename", "syncdir"} => r \in synced
          /\ pc[r] = "syncdir" => /\ dir[Output(r)] \in Files
                                  /\ rank[dir[Output(r)]] >= rank[r]
                                  /\ rank[r] > 0
          /\ Len(opened[r]) <= Len(Inputs(r))
    /\ synced \subseteq whole

\* The directory on disk is one the names had before.
DiskBehind ==
    \A n \in Names \ Partials :
        disk[n] # None =>
            /\ dir[n] # None
            /\ n \in Protected => dir[n] = disk[n]
            /\ disk[n] \in Files => dir[n] \in Files /\ rank[dir[n]] >= rank[disk[n]]

\* A run is not past the check when one of its inputs is its output.
CheckedInputs ==
    \A r \in Runs : pc[r] \notin {"check", "done", "failed"} =>
        \A i \in DOMAIN Inputs(r) : /\ Inputs(r)[i] # Output(r)
                                    /\ dir[Inputs(r)[i]] # Output(r)

PublicationInv ==
    /\ PublicationTypeOK
    /\ OutputsWhole
    /\ InputsWhole
    /\ SuccessIsDurable
    /\ PartialOwned
    /\ LinksHeld
    /\ Progress
    /\ DiskBehind
    /\ CheckedInputs

=============================================================================
