-------------------------------- MODULE Backup --------------------------------
(***************************************************************************)
(* The weekly backup beside the programs that use the databases.  Each     *)
(* database is a file and, in WAL mode, a log of the pages committed since *)
(* the file was last brought up to date.  A commit goes to the log; the    *)
(* last connection to close copies the log into the file, page by page.    *)
(* backup() copies the FILES, one after the other and each page by page;   *)
(* verify_backup() then compares every file with its copy.  Nothing locks  *)
(* anything: connections open, commit, close and die in between.           *)
(*                                                                         *)
(* A page is the number of the commit that wrote it, 0 for an empty one.   *)
(***************************************************************************)
EXTENDS Integers, Sequences, FiniteSets, FiniteSetsExt, Functions

CONSTANTS
    Databases,              \* a sequence: the order of _db_items
    Pages,                  \* a set of numbers: the pages of a file, read in order
    Users,                  \* processes that open databases
    MaxCommits, MaxOpens, MaxCrashes    \* bounds on behaviours

ASSUME BackupConstants ==
    /\ Databases \in Seq({Databases[i] : i \in DOMAIN Databases}) /\ Databases # <<>>
    /\ Pages \subseteq Nat /\ IsFiniteSet(Pages) /\ Pages # {}
    /\ {MaxCommits, MaxOpens, MaxCrashes} \subseteq Nat

VARIABLES
    file, log,          \* each database: its pages, and the newer pages of its log
    user,               \* where each process is: [at, db]
    job,                \* the weekly job: [at, db, page], ok so far
    copy, restored,     \* the files in the backup directory; the databases put back
    committed,          \* every content a database has ever had (history)
    moment, atRest,     \* the files as the copying ended, and those without a log then (history)
    commits, opens, crashes

dbState == <<file, log, committed>>
jobState == <<job, copy, restored, moment, atRest>>
backupVars == <<dbState, jobState, user, commits, opens, crashes>>

Dbs == Range(Databases)
Empty == [p \in Pages |-> 0]
NoLog == [p \in {} |-> 0]

\* Newer pages over older ones.
Over(newer, older) ==
    [p \in DOMAIN newer \cup DOMAIN older |-> IF p \in DOMAIN newer THEN newer[p] ELSE older[p]]

\* What a connection reads: the log over the file.
Content(d) == Over(log[d], file[d])

Nobody == [at |-> "idle", db |-> "none"]
NoJob == [at |-> "idle", db |-> 1, page |-> Min(Pages), ok |-> TRUE]

BackupInit ==
    /\ file = [d \in Dbs |-> Empty] /\ log = [d \in Dbs |-> NoLog]
    /\ user = [u \in Users |-> Nobody] /\ job = NoJob
    /\ copy = [d \in Dbs |-> Empty] /\ restored = {}
    /\ committed = [d \in Dbs |-> {Empty}] /\ moment = file /\ atRest = {}
    /\ commits = 0 /\ opens = 0 /\ crashes = 0

-----------------------------------------------------------------------------
\* connection(): open, commit or roll back, close.
OthersOf(u, d) == {v \in Users \ {u} : user[v].db = d}

Open(u, d) ==
    /\ user[u].at = "idle" /\ opens < MaxOpens
    /\ \A v \in OthersOf(u, d) : user[v].at # "update"     \* the last one out holds the lock
    /\ user' = [user EXCEPT ![u] = [at |-> "open", db |-> d]]
    /\ opens' = opens + 1
    /\ UNCHANGED <<dbState, jobState, commits, crashes>>

Commit(u, written) ==
    LET d == user[u].db
        pages == Over([p \in written |-> commits + 1], log[d])
    IN  /\ user[u].at = "open" /\ commits < MaxCommits
        /\ log' = [log EXCEPT ![d] = pages]
        /\ committed' = [committed EXCEPT ![d] = @ \cup {Over(pages, file[d])}]
        /\ commits' = commits + 1
        /\ UNCHANGED <<file, user, jobState, opens, crashes>>

\* Only the last to close brings the file up to date.
Close(u) ==
    LET d == user[u].db IN
    /\ user[u].at = "open"
    /\ user' = [user EXCEPT ![u] =
           IF OthersOf(u, d) = {} /\ DOMAIN log[d] # {} THEN [@ EXCEPT !.at = "update"] ELSE Nobody]
    /\ UNCHANGED <<dbState, jobState, commits, opens, crashes>>

\* Pages go to the file in any order; the log is dropped when all of them are there.
UpdatePage(u, p) ==
    LET d == user[u].db IN
    /\ user[u].at = "update" /\ p \in DOMAIN log[d] /\ file[d][p] # log[d][p]
    /\ file' = [file EXCEPT ![d][p] = log[d][p]]
    /\ UNCHANGED <<log, committed, user, jobState, commits, opens, crashes>>

DropLog(u) ==
    LET d == user[u].db IN
    /\ user[u].at = "update" /\ \A p \in DOMAIN log[d] : file[d][p] = log[d][p]
    /\ log' = [log EXCEPT ![d] = NoLog]
    /\ user' = [user EXCEPT ![u] = Nobody]
    /\ UNCHANGED <<file, committed, jobState, commits, opens, crashes>>

\* The process dies: what it had committed is in the log, the file perhaps half updated.
UserCrash(u) ==
    /\ user[u].at # "idle" /\ crashes < MaxCrashes
    /\ user' = [user EXCEPT ![u] = Nobody]
    /\ crashes' = crashes + 1
    /\ UNCHANGED <<file, log, committed, jobState, commits, opens>>

-----------------------------------------------------------------------------
\* The next page of the job's walk over the databases, and what it does after the last.
Walk(then) ==
    LET later == {p \in Pages : p > job.page} IN
    IF later # {} THEN [job EXCEPT !.page = Min(later)]
    ELSE IF job.db < Len(Databases) THEN [job EXCEPT !.page = Min(Pages), !.db = @ + 1]
    ELSE [job EXCEPT !.page = Min(Pages), !.db = 1, !.at = then]
Ends == job.db = Len(Databases) /\ job.page = Max(Pages)

StartBackup ==
    /\ job.at = "idle" /\ restored = {}
    /\ job' = [NoJob EXCEPT !.at = "copy"]
    /\ UNCHANGED <<dbState, copy, restored, moment, atRest, user, commits, opens, crashes>>

CopyPage ==
    LET d == Databases[job.db] IN
    /\ job.at = "copy"
    /\ copy' = [copy EXCEPT ![d][job.page] = file[d][job.page]]
    /\ job' = Walk("verify")
    /\ IF Ends THEN moment' = file /\ atRest' = {e \in Dbs : DOMAIN log[e] = {}}
               ELSE UNCHANGED <<moment, atRest>>
    /\ UNCHANGED <<dbState, restored, user, commits, opens, crashes>>

SameSize(d, p) == DOMAIN copy[d] = DOMAIN file[d]
Same(d, p) == copy[d][p] = file[d][p]

\* verify_backup: a file that differs from its copy ends it with False.
VerifyPage ==
    LET same == Same(Databases[job.db], job.page) IN
    /\ job.at = "verify"
    /\ job' = IF same THEN Walk("verified") ELSE [job EXCEPT !.at = "failed"]
    /\ UNCHANGED <<dbState, copy, restored, moment, atRest, user, commits, opens, crashes>>

JobDies ==
    /\ job.at \in {"copy", "verify"} /\ crashes < MaxCrashes
    /\ job' = [job EXCEPT !.at = "dead"] /\ crashes' = crashes + 1
    /\ UNCHANGED <<dbState, copy, restored, moment, atRest, user, commits, opens>>

\* The next weekly run.
NextWeek ==
    /\ job.at \in {"verified", "failed", "dead"} /\ job' = NoJob
    /\ UNCHANGED <<dbState, copy, restored, moment, atRest, user, commits, opens, crashes>>

\* restore(), with the programs stopped: a copy goes over a live file.  A log that was
\* left beside the file is not touched: the next connection reads it over what was restored.
Restore ==
    LET d == Databases[Cardinality(restored) + 1] IN
    /\ \A u \in Users : user[u].at = "idle"
    /\ job.at = "verified" /\ Cardinality(restored) < Len(Databases)
    /\ file' = [file EXCEPT ![d] = copy[d]]
    /\ restored' = restored \cup {d}
    /\ UNCHANGED <<log, committed, job, copy, moment, atRest, user, commits, opens, crashes>>

UserStep == \E u \in Users :
    \/ \E d \in Dbs : Open(u, d)
    \/ \E written \in (SUBSET Pages) \ {{}} : Commit(u, written)
    \/ Close(u) \/ (\E p \in Pages : UpdatePage(u, p)) \/ DropLog(u) \/ UserCrash(u)

BackupNext ==
    \/ restored = {} /\ UserStep
    \/ StartBackup \/ CopyPage \/ VerifyPage \/ JobDies \/ NextWeek \/ Restore

BackupSpec == BackupInit /\ [][BackupNext]_backupVars

-----------------------------------------------------------------------------
Verified == job.at = "verified"

\* backup.py's "a silent partial copy is caught": whatever opens, commits, closes and dies
\* while the files are copied one after the other, the copies of a verified backup are the
\* files as they stood side by side at one moment: each that had no log beside it then is
\* all its database had committed; and to put them all back gives that moment again, but
\* for the databases that have a log left to be read over the file.
VerifiedIsOneMoment ==
    Verified => /\ copy = moment
                /\ \A d \in atRest : copy[d] \in committed[d]
                /\ restored = Dbs => \A d \in Dbs : Content(d) = moment[d] \/ DOMAIN log[d] # {}
=============================================================================
