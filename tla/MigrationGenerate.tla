--------------------------- MODULE MigrationGenerate ---------------------------
(***************************************************************************)
(* `diesel migration generate` (diesel_cli/src/migrations/mod.rs) by       *)
(* several processes in one directory of migrations: each takes the lock   *)
(* of the directory, reads it, and creates a folder whose version nobody   *)
(* has yet.                                                                *)
(***************************************************************************)
EXTENDS Naturals, FiniteSets

CONSTANTS
    Procs,     \* the processes; each names its migration after itself
    Explicit,  \* those that were given a version, always 1
    Seconds,   \* the times at which the others take theirs
    MaxSub     \* MAX_MIGRATIONS_PER_SEC

VARIABLES
    folders,  \* the folders: [version, sub, name]; an explicit version has no sub
    pc,       \* each process: "start", "list", "create", "done", "refused"
    version,  \* the second that each process has taken
    listed    \* the versions that each process saw

vars == <<folders, pc, version, listed>>

NoSub == MaxSub + 1
Version(f) == [version |-> f.version, sub |-> f.sub]

Init ==
    /\ folders = {}
    /\ pc = [p \in Procs |-> "start"]
    /\ version \in {t \in [Procs -> Seconds] : \A p \in Explicit : t[p] = 1}
    /\ listed = [p \in Procs |-> {}]

(* lock.write() waits for the lock.  The guard that it returns is not bound
   to a name (`let _ = ...`) and is dropped with the statement: between two
   steps of any process nobody holds the lock, and no step waits for it.   *)
Lock(p) ==
    /\ pc[p] = "start"
    /\ pc' = [pc EXCEPT ![p] = "list"]
    /\ UNCHANGED <<folders, version, listed>>

ReadDir(p) ==
    /\ pc[p] = "list"
    /\ listed' = [listed EXCEPT ![p] = {Version(f) : f \in folders}]
    /\ pc' = [pc EXCEPT ![p] = "create"]
    /\ UNCHANGED <<folders, version>>

(* The folders that are named like the version, with any subversion.       *)
Duplicate(p) == \E f \in listed[p] : f.version = version[p]
FreeSubs(p)  == {s \in 0..MaxSub : [version |-> version[p], sub |-> s] \notin listed[p]}
NextSub(p)   == CHOOSE s \in FreeSubs(p) : \A t \in FreeSubs(p) : s <= t

CreateDir(p) ==
    /\ pc[p] = "create"
    /\ IF (p \in Explicit /\ Duplicate(p)) \/ FreeSubs(p) = {}
       THEN pc' = [pc EXCEPT ![p] = "refused"] /\ UNCHANGED folders
       ELSE /\ pc' = [pc EXCEPT ![p] = "done"]
            /\ folders' = folders \cup
                 {[version |-> version[p], name |-> p,
                   sub |-> IF p \in Explicit THEN NoSub ELSE NextSub(p)]}
    /\ UNCHANGED <<version, listed>>

Next == \E p \in Procs : Lock(p) \/ ReadDir(p) \/ CreateDir(p)

Spec == Init /\ [][Next]_vars

-------------------------------------------------------------------------------
(* "Diesel CLI now ensures that migration versions are always unique"
   (CHANGELOG.md): no two folders have one version.                        *)
VersionsUnique == \A f, g \in folders : Version(f) = Version(g) => f = g

===============================================================================
