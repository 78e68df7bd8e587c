----------------------------- MODULE BrowseJobs -----------------------------
(***************************************************************************)
(* The data browser's jobs on the server: copy, move, rename, delete,      *)
(* mkdir, upload and size jobs that run side by side, the in-memory and    *)
(* stored guards that keep two writers off one destination, the cache of   *)
(* measured sizes with its write generation, and the reconciliation of     *)
(* jobs a dead server left running.                                        *)
(*                                                                         *)
(* The tree is one storage folder: directories, the entries in them and    *)
(* what each entry holds. A job that uploads stores its own number.        *)
(***************************************************************************)
EXTENDS Naturals, FiniteSets

CONSTANTS Dir, Name,
          Full,       \* the directory that has all entries at first
          None,       \* no entry, no cached size
          MaxJobs,    \* bound: jobs asked for
          MaxFaults   \* bound: rclone failures and server deaths

VARIABLES
    tree,     \* what each entry of each directory holds
    row,      \* browse_jobs: the status of each job
    job,      \* the asynchronous function of each job
    activeDestinations, activeSources,
    sizes,    \* the cache of measured sizes
    generation,
    up,       \* the server is serving
    faults

guards == <<activeDestinations, activeSources>>
vars == <<tree, row, job, guards, sizes, generation, up, faults>>

Job == 1 .. MaxJobs
Path == Dir \X Name
Empty == 0                \* a directory just made
Old == MaxJobs + 1        \* what was there at first
Content == {None, Empty, Old} \union Job
Writes == {"copy", "move", "rename", "delete", "mkdir", "upload"}
Keyed == {"copy", "move", "rename", "delete"}

\* What a request asks for, where the job is in it, the entries it still has
\* to do, what it measured at which generation, and which
\* entries other jobs wrote meanwhile.
NoJob == [op |-> None, src |-> None, dst |-> None, names |-> {}, to |-> None,
          pc |-> "none", todo |-> {}, size |-> None, gen |-> 0, amid |-> FALSE, raced |-> {}]

Live(j) == job[j].pc \notin {"none", "ended"}
Writer(j) == Live(j) /\ job[j].op \in Writes
\* The directories a write changes: its destination, and a move's source.
Touches(j) == {job[j].dst} \union (IF job[j].op = "move" THEN {job[j].src} ELSE {})

Fault == faults < MaxFaults /\ faults' = faults + 1

Init ==
    /\ tree = [p \in Path |-> IF p[1] = Full THEN Old ELSE None]
    /\ row = [j \in Job |-> "none"] /\ job = [j \in Job |-> NoJob]
    /\ activeDestinations = {} /\ activeSources = {}
    /\ sizes = [p \in Path |-> None] /\ generation = 0
    /\ up = TRUE /\ faults = 0

-----------------------------------------------------------------------------
(* Requests.                                                               *)

\* The next job: requests are numbered as they come.
NextJob(j) == row[j] = "none" /\ \A k \in Job : k < j => row[k] # "none"

SourceKey(r) == <<r.src, r.names>>
SourceKeys(r) == IF r.op \in Keyed THEN {SourceKey(r)} ELSE {}

\* A mutant: only the source is guarded.
BusySource(r) == r.op \in Keyed /\ SourceKey(r) \in activeSources

\* The guards of a request: every write looks for its destination, the ones
\* with a source for that too, and copy, move and delete ask the rows as well.
Busy(r) ==
    \/ r.dst \in activeDestinations
    \/ r.op \in Keyed /\ SourceKey(r) \in activeSources
    \/ /\ r.op \in {"copy", "move", "delete"}
       /\ \E k \in Job : /\ row[k] = "running" /\ job[k].op \in Keyed
                         /\ job[k].dst = r.dst \/ SourceKey(job[k]) = SourceKey(r)

\* A request that meets a guard, or whose folder cannot be resolved, leaves
\* a failed row and nothing else.
Refused(j, r) ==
    /\ row' = [row EXCEPT ![j] = "failed"]
    /\ job' = [job EXCEPT ![j] = [r EXCEPT !.pc = "ended"]]
    /\ UNCHANGED <<tree, guards, sizes, generation, up>>

StartWrite(j, r) ==
    /\ up /\ NextJob(j)
    /\ \/ Busy(r) /\ Refused(j, r) /\ UNCHANGED faults
       \/ ~Busy(r) /\ Fault /\ Refused(j, r)
       \/ /\ ~Busy(r)
          /\ row' = [row EXCEPT ![j] = "running"]
          /\ job' = [job EXCEPT ![j] = r]
          /\ activeDestinations' = activeDestinations \union {r.dst}
          /\ activeSources' = activeSources \union SourceKeys(r)
          /\ generation' = generation + (IF r.op = "move" THEN 2 ELSE 1)
          /\ UNCHANGED <<tree, sizes, up, faults>>

Request(op, src, dst, names, to) ==
    [NoJob EXCEPT !.op = op, !.src = src, !.dst = dst, !.names = names, !.to = to,
                  !.pc = "run", !.todo = names]

\* A copy or move onto the same prefix is refused before any row is made.
CopyMove(j) ==
    \E op \in {"copy", "move"}, src, dst \in Dir, names \in SUBSET Name \ {{}} :
        src # dst /\ StartWrite(j, Request(op, src, dst, names, None))

Rename(j) ==
    \E d \in Dir, from, to \in Name :
        from # to /\ StartWrite(j, Request("rename", d, d, {from}, to))

Delete(j) ==
    \E d \in Dir, names \in SUBSET Name \ {{}} :
        StartWrite(j, Request("delete", d, d, names, None))

\* mkdir and upload guard their destination only.
Create(j) ==
    \E op \in {"mkdir", "upload"}, d \in Dir, n \in Name :
        StartWrite(j, Request(op, d, d, {n}, None))

\* A size job has no guard and remembers the generation it started at.
Size(j) ==
    /\ up /\ NextJob(j)
    /\ \E d \in Dir, n \in Name :
         job' = [job EXCEPT ![j] =
                   [Request("size", d, d, {n}, None) EXCEPT
                      !.gen = generation,
                      !.amid = \E k \in Job : Writer(k) /\ d \in Touches(k)]]
    /\ row' = [row EXCEPT ![j] = "running"]
    /\ UNCHANGED <<tree, guards, sizes, generation, up, faults>>
-----------------------------------------------------------------------------
(* The work of a job: one rclone process per entry.                        *)

\* Job j goes on as next, and every other live job notes the paths written.
Advance(j, next, paths) ==
    job' = [k \in Job |->
              IF k = j THEN next
              ELSE IF Live(k) THEN [job[k] EXCEPT !.raced = @ \union paths]
              ELSE job[k]]

\* The entry is what the job needs it to be.
Present(j, n) ==
    job[j].op \in Keyed => tree[<<job[j].src, n>>] # None

\* What one rclone process of the job leaves behind: copyto, moveto, mkdir,
\* or deletefile and purge.
Written(j, n) ==
    LET r == job[j]
        held == tree[<<r.src, n>>]
    IN  CASE r.op \in {"copy", "move"} -> [tree EXCEPT ![<<r.dst, n>>] = held]
          [] r.op = "rename" -> [tree EXCEPT ![<<r.dst, r.to>>] = held,
                                             ![<<r.dst, n>>] = None]
          [] r.op = "delete" -> [tree EXCEPT ![<<r.dst, n>>] = None]
          [] r.op = "mkdir" -> [tree EXCEPT ![<<r.dst, n>>] =
                                              IF @ = None THEN Empty ELSE @]
          [] r.op = "upload" -> [tree EXCEPT ![<<r.dst, n>>] = j]

Changed == {p \in Path : tree'[p] # tree[p]}

\* A mutant: the source is drained once one entry was copied.
DrainsEarly(j, todo) == job[j].op = "move"

\* A move turns to its source when every entry was copied.
Drains(j, todo) == job[j].op = "move" /\ todo = {}

RunEntry(j, n) ==
    /\ job[j].pc = "run" /\ job[j].op \in Writes /\ n \in job[j].todo
    /\ Present(j, n)
    /\ tree' = Written(j, n)
    /\ LET todo == job[j].todo \ {n}
           next == [job[j] EXCEPT !.todo = IF Drains(j, todo) THEN job[j].names ELSE todo,
                                  !.pc = IF Drains(j, todo) THEN "drain" ELSE "run"]
       IN  Advance(j, next, Changed)
    /\ UNCHANGED <<row, guards, sizes, generation, up, faults>>

\* deleteSource, entry by entry.
DrainEntry(j, n) ==
    /\ job[j].pc = "drain" /\ n \in job[j].todo
    /\ tree' = [tree EXCEPT ![<<job[j].src, n>>] = None]
    /\ Advance(j, [job[j] EXCEPT !.todo = @ \ {n}], Changed)
    /\ UNCHANGED <<row, guards, sizes, generation, up, faults>>

\* dropFolderPrefixSizes for the directories the job wrote.
DroppedSizes(j) == [p \in Path |-> IF p[1] \in Touches(j) THEN None ELSE sizes[p]]

Released(j) == activeDestinations \ {job[j].dst}

\* The end of a job, well or badly: the row, the cached sizes, the guards.
End(j, status) ==
    /\ row' = [row EXCEPT ![j] = status]
    /\ job' = [job EXCEPT ![j].pc = "ended"]
    /\ sizes' = DroppedSizes(j)
    /\ activeDestinations' = Released(j)
    /\ activeSources' = activeSources \ SourceKeys(job[j])
    /\ UNCHANGED <<tree, generation, up>>

Finish(j) ==
    /\ job[j].pc \in {"run", "drain"} /\ job[j].op \in Writes /\ job[j].todo = {}
    /\ End(j, "done") /\ UNCHANGED faults

\* An entry that is not there, or an rclone that fails, ends the job.
Fail(j) ==
    /\ job[j].pc \in {"run", "drain"} /\ job[j].op \in Writes
    /\ \E n \in job[j].todo :
         IF job[j].pc = "run" /\ ~Present(j, n) THEN UNCHANGED faults ELSE Fault
    /\ End(j, "failed")

-----------------------------------------------------------------------------
(* Size jobs.                                                              *)

Measured(j) == CHOOSE p \in Path : p[1] = job[j].dst /\ p[2] \in job[j].names

Measure(j) ==
    /\ job[j].op = "size" /\ job[j].pc = "run"
    /\ job' = [job EXCEPT ![j].size = tree[Measured(j)], ![j].pc = "seed"]
    /\ UNCHANGED <<tree, row, guards, sizes, generation, up, faults>>

\* A mutant: the generation is not looked at.
SeedsAlways(j) == TRUE

\* seedPrefixSize caches unless a write was accepted since the start.
Seeds(j) == generation <= job[j].gen

SeedSize(j) ==
    /\ job[j].pc = "seed"
    /\ sizes' = IF Seeds(j)
                THEN [sizes EXCEPT ![Measured(j)] = [of |-> job[j].size, amid |-> job[j].amid]]
                ELSE sizes
    /\ row' = [row EXCEPT ![j] = "done"]
    /\ job' = [job EXCEPT ![j].pc = "ended"]
    /\ UNCHANGED <<tree, guards, generation, up, faults>>

MeasureFails(j) ==
    /\ job[j].op = "size" /\ job[j].pc = "run" /\ Fault
    /\ row' = [row EXCEPT ![j] = "failed"]
    /\ job' = [job EXCEPT ![j].pc = "ended"]
    /\ UNCHANGED <<tree, guards, sizes, generation, up>>

\* A cached size is five minutes old.
ExpireSize(p) ==
    /\ sizes[p] # None
    /\ sizes' = [sizes EXCEPT ![p] = None]
    /\ UNCHANGED <<tree, row, job, guards, generation, up, faults>>

-----------------------------------------------------------------------------
(* The server dies and boots.                                              *)

\* The guards and the cache go with the process; an rclone that is working
\* on an entry is left to itself.
CrashServer ==
    /\ up /\ Fault /\ up' = FALSE
    /\ job' = [j \in Job |->
                 CASE job[j].pc = "run" /\ job[j].op \in Writes /\ job[j].todo # {} ->
                        [job[j] EXCEPT !.pc = "orphan"]
                   [] job[j].pc = "drain" /\ job[j].todo # {} ->
                        [job[j] EXCEPT !.pc = "orphanDrain"]
                   [] OTHER -> IF Live(j) THEN [job[j] EXCEPT !.pc = "ended"] ELSE job[j]]
    /\ activeDestinations' = {} /\ activeSources' = {}
    /\ sizes' = [p \in Path |-> None] /\ generation' = 0
    /\ UNCHANGED <<tree, row>>

OrphanEnds(j) ==
    /\ \/ /\ job[j].pc = "orphan"
          /\ \E n \in job[j].todo : Present(j, n) /\ tree' = Written(j, n)
       \/ /\ job[j].pc = "orphanDrain"
          /\ \E n \in job[j].todo : tree' = [tree EXCEPT ![<<job[j].src, n>>] = None]
       \/ /\ job[j].pc \in {"orphan", "orphanDrain"} /\ UNCHANGED tree
    /\ Advance(j, [job[j] EXCEPT !.pc = "ended"], Changed)
    /\ UNCHANGED <<row, guards, sizes, generation, up, faults>>

\* A mutant: the rows of a dead server are left as they are.
LeftRunning(j) == row[j]

\* reconcileStuckBrowseJobs.
Reconciled(j) == IF row[j] = "running" THEN "failed" ELSE row[j]

Boot ==
    /\ ~up /\ up' = TRUE
    /\ row' = [j \in Job |-> Reconciled(j)]
    /\ UNCHANGED <<tree, job, guards, sizes, generation, faults>>

-----------------------------------------------------------------------------
JobStep(j) ==
    \/ \E n \in Name : RunEntry(j, n) \/ DrainEntry(j, n)
    \/ Finish(j) \/ Fail(j)
    \/ Measure(j) \/ SeedSize(j) \/ MeasureFails(j)

Next ==
    \/ \E j \in Job : CopyMove(j) \/ Rename(j) \/ Delete(j) \/ Create(j) \/ Size(j)
    \/ \E j \in Job : JobStep(j) \/ OrphanEnds(j)
    \/ \E p \in Path : ExpireSize(p)
    \/ CrashServer \/ Boot

Spec == Init /\ [][Next]_vars

\* An rclone process ends, one way or the other, and a dead server is
\* started again. Nobody has to ask for a job.
Fairness == (\A j \in Job : WF_vars(JobStep(j))) /\ WF_vars(Boot)

FairSpec == Spec /\ Fairness

-----------------------------------------------------------------------------
TypeOK ==
    /\ tree \in [Path -> Content]
    /\ row \in [Job -> {"none", "running", "done", "failed"}]
    /\ \A j \in Job :
         /\ job[j].pc \in {"none", "run", "drain", "seed", "orphan", "orphanDrain", "ended"}
         /\ job[j].todo \subseteq job[j].names
         /\ job[j].pc \in {"run", "drain", "seed"} => row[j] = "running" /\ up
    /\ activeDestinations = {job[j].dst : j \in {k \in Job : Writer(k) /\ row[k] = "running"
                                                            /\ job[k].pc \in {"run", "drain"}}}
    /\ generation \in 0 .. 2 * MaxJobs /\ up \in BOOLEAN /\ faults \in 0 .. MaxFaults

\* The guards keep two accepted writes from running on one destination, in
\* whatever order requests, failures and restarts come.
DestinationExclusive ==
    \A j, k \in Job :
        (j # k /\ Writer(j) /\ Writer(k) /\ {job[j].pc, job[k].pc} \subseteq {"run", "drain"})
            => job[j].dst # job[k].dst

\* Once nothing is writing in its directory, a cached size is what the entry
\* holds, unless its measurement began while a write was under way.
SizesFresh ==
    \A p \in Path :
        (sizes[p] # None /\ ~sizes[p].amid /\ \A j \in Job : Writer(j) => p[1] \notin Touches(j))
            => sizes[p].of = tree[p]

\* A move removes an entry of its source only when the destination holds
\* what the source does, unless another job wrote one of the two meanwhile.
MoveLosesNothing ==
    [][\A j \in Job : job[j].pc \in {"drain", "orphanDrain"} =>
          \A n \in job[j].names :
             LET from == <<job[j].src, n>> to == <<job[j].dst, n>>
             IN  (tree[from] # None /\ tree'[from] = None /\ from \notin job'[j].raced)
                     => to \in job[j].raced \/ tree[to] = tree[from]]_vars

\* A job that was accepted gets an outcome, also when the server dies.
JobSettles == \A j \in Job : row[j] = "running" ~> row[j] \in {"done", "failed"}

=============================================================================
