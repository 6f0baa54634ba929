------------------------------- MODULE GitRunner -------------------------------
(***************************************************************************)
(* The worker of a remote fetch (promptectomy-remote-git-runner): it       *)
(* fetches one revision with git, takes the inventory of its tree, writes  *)
(* the selected files into a bundle and reports.                           *)
(*                                                                         *)
(* Abstractions:                                                           *)
(*  - git and the server are external: a command succeeds, fails, times    *)
(*    out or says too much, and the tree is any of Trees;                  *)
(*  - a tree entry is a path with its lower-case form, whether that path   *)
(*    is safe and selected, a mode, a size and the length of its metadata; *)
(*  - all errors end in the same failure report;                           *)
(*  - digests are what they are taken of.                                  *)
(***************************************************************************)
EXTENDS Integers, FiniteSets, Functions

CONSTANTS
    Trees,         \* the trees a revision may have
    MaxFiles,      \* max_files
    MaxFileBytes,  \* max_file_bytes
    MaxTotal,      \* max_total_bytes
    MaxBundle,     \* max_bundle_bytes
    Frame,         \* the length of the bundle's prefix and suffix
    NoTree         \* no tree yet

ASSUME RunnerAssumption ==
    /\ MaxFiles \in Nat \ {0} /\ MaxTotal \in Nat \ {0} /\ MaxBundle \in Nat \ {0}
    /\ MaxFileBytes \in 1..MaxTotal
    /\ Frame \in Nat

ASSUME TreesAssumption ==
    /\ NoTree \notin Trees
    /\ \A t \in Trees : IsFiniteSet(t) /\ \A e \in t : e.size \in Nat /\ e.meta \in Nat

VARIABLES
    worker,   \* what the runner is doing
    tree,     \* the tree of the revision it resolved
    written,  \* the files in the bundle
    bytes,    \* the length of the bundle, 0 before it is created
    report    \* result.json: its status, and the bundle it vouches for

runnerVars == <<worker, tree, written, bytes, report>>

RunnerTypeOK ==
    /\ worker \in {"off", "waiting", "workspace", "init", "fetch", "inventory",
                   "batch", "succeeding", "failing", "pending", "stopped"}
    /\ tree \in Trees \cup {NoTree}
    /\ tree = NoTree => written = {}
    /\ tree # NoTree => written \subseteq tree
    /\ bytes \in 0..MaxBundle
    /\ report.status \in {"absent", "empty", "failure", "success"}

Report(status, files, length) == [status |-> status, files |-> files, length |-> length]

RunnerInit ==
    /\ worker = "off"
    /\ tree = NoTree
    /\ written = {}
    /\ bytes = 0
    /\ report = Report("absent", {}, 0)
-----------------------------------------------------------------------------
(* The inventory *)

Selected(t) == {e \in t : e.selected}

Files(t) == {e \in Selected(t) : e.mode \in {"100644", "100755"}}

\* Mutant: two paths collide only if they are the same.
collision_free_exact(t) == \A e, f \in t : e # f => e.path # f.path

\* No two paths of the whole tree differ in case only.
collision_free(t) == \A e, f \in t : e # f => e.folded # f.folded

\* Paths are looked at before the selection; modes, sizes and counts after it.
parse_inventory(t) ==
    /\ \A e \in t : e.safe
    /\ collision_free(t)
    /\ Cardinality(Selected(t)) <= MaxFiles
    /\ \A e \in Selected(t) :
         e.mode \in {"100644", "100755", "160000"} /\ e.size <= MaxFileBytes
    /\ SumFunctionOnSet([e \in Selected(t) |-> e.size], Selected(t)) <= MaxTotal

\* A file is written as its metadata and two characters for each of its bytes.
Length(e) == e.meta + 2 * e.size

projected_bundle_bytes(t) ==
    Frame + SumFunctionOnSet([e \in Files(t) |-> Length(e)], Files(t)) + Cardinality(Files(t)) - 1
-----------------------------------------------------------------------------
(* Steps *)

\* The inventory is dropped, and nobody looks at a bundle that was begun.
Fails ==
    /\ worker' = "failing"
    /\ tree' = NoTree
    /\ written' = {}
    /\ bytes' = 0
    /\ UNCHANGED report

Proceeds(from, to) ==
    /\ worker = from
    /\ worker' = to
    /\ UNCHANGED <<tree, written, bytes, report>>

runner_wait_for_request == Proceeds("waiting", "workspace")

prepare_workspace == Proceeds("workspace", "init")

\* git init and git fetch, each followed by a look at what the work takes on disk.
git_init == Proceeds("init", "fetch")
git_fetch == Proceeds("fetch", "inventory")

\* The revision has the tree the server gave it.  A tree with no file to take is an error,
\* and the whole length of the bundle is known before its first byte is written.
fetch_inventory ==
    /\ worker = "inventory"
    /\ \E t \in Trees :
         IF parse_inventory(t) /\ Files(t) # {} /\ projected_bundle_bytes(t) <= MaxBundle
         THEN worker' = "batch" /\ tree' = t /\ bytes' = Frame /\ UNCHANGED <<written, report>>
         ELSE Fails

\* One blob of git cat-file --batch, whose header has to be that of the entry.
read_batch_blob ==
    /\ worker = "batch"
    /\ written # Files(tree)
    /\ LET e == CHOOSE e \in Files(tree) \ written : TRUE
       IN /\ written' = written \cup {e}
          /\ bytes' = bytes + Length(e) + (IF written = {} THEN 0 ELSE 1)
    /\ UNCHANGED <<worker, tree, report>>

\* The batch is over, and the bundle has the length that was announced.
close_bundle ==
    /\ worker = "batch"
    /\ written = Files(tree)
    /\ IF bytes = projected_bundle_bytes(tree)
       THEN worker' = "succeeding" /\ UNCHANGED <<tree, written, bytes, report>>
       ELSE Fails

\* Any step may fail: no request in time, no relay socket, no workspace, a git command
\* that fails, times out or says too much, a quota, a blob that is not the entry's.
runner_fails ==
    /\ worker \in {"waiting", "workspace", "init", "fetch", "inventory", "batch"}
    /\ Fails

\* result.json is created, then filled.  A runner that can do neither stays as it is until it
\* is stopped, like one that is never scheduled.
write_new ==
    /\ worker \in {"succeeding", "failing"}
    /\ report.status = "absent"
    /\ report' = Report("empty", {}, 0)
    /\ UNCHANGED <<worker, tree, written, bytes>>

write_success ==
    /\ worker = "succeeding" /\ report.status = "empty"
    /\ report' = Report("success", written, bytes)
    /\ worker' = "pending"
    /\ UNCHANGED <<tree, written, bytes>>

write_failure ==
    /\ worker = "failing" /\ report.status = "empty"
    /\ report' = Report("failure", {}, 0)
    /\ worker' = "pending"
    /\ UNCHANGED <<tree, written, bytes>>

Runner ==
    \/ runner_wait_for_request \/ prepare_workspace \/ git_init \/ git_fetch
    \/ fetch_inventory \/ read_batch_blob \/ close_bundle
    \/ runner_fails \/ write_new \/ write_success \/ write_failure
=============================================================================
