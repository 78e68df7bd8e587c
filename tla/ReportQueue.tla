----------------------------- MODULE ReportQueue -----------------------------
(***************************************************************************)
(* The daemon's disk-backed queue of operation reports (report-queue.ts),  *)
(* reportOperation, which falls back on it, and the two callers of flush   *)
(* in index.ts: boot, which waits for it, and the heartbeat timer, which   *)
(* does not wait for the flush of the heartbeat before.  The server only   *)
(* appends to operation_log (routes/report.ts).                            *)
(*                                                                         *)
(* A flush reads the file once, sends line after line with an await in     *)
(* each, and rewrites the file from what it read.                          *)
(***************************************************************************)
EXTENDS Naturals, Sequences, SequencesExt

CONSTANTS
    Report,       \* operation reports
    Flush,        \* calls of flush that can overlap
    MaxEntries,   \* MAX_ENTRIES
    MaxFaults     \* bound: failed sends and crashes

\* What the proofs, and the instances of this module, assume of them.
Limits == MaxEntries \in Nat \ {0} /\ MaxFaults \in Nat

VARIABLES
    sent,     \* run: "new", "sending", "delivered", "queued" or "lost"
    file,     \* disk: the lines of reports-queue.jsonl
    lines,    \* flush: lines read and not yet delivered, empty when idle
    daemon,   \* "down", "booting" or "up"
    logged,   \* server: reports with a row in operation_log
    trimmed,  \* history: reports dropped by trim
    faults    \* faults so far

vars == <<sent, file, lines, daemon, logged, trimmed, faults>>

Init ==
    /\ sent = [r \in Report |-> "new"]
    /\ file = <<>>
    /\ lines = [f \in Flush |-> <<>>]
    /\ daemon = "down"
    /\ logged = {}
    /\ trimmed = {}
    /\ faults = 0

Idle(f) == lines[f] = <<>>

-----------------------------------------------------------------------------
\* A run ends: reportOperation posts its report.
StartReport(r) ==
    /\ daemon = "up"
    /\ sent[r] = "new"
    /\ sent' = [sent EXCEPT ![r] = "sending"]
    /\ UNCHANGED <<file, lines, daemon, logged, trimmed, faults>>

ReportDelivered(r) ==
    /\ sent[r] = "sending"
    /\ sent' = [sent EXCEPT ![r] = "delivered"]
    /\ logged' = logged \cup {r}
    /\ UNCHANGED <<file, lines, daemon, trimmed, faults>>

\* Mutant of Trim: one line too many is kept.
TrimLate(s) == IF Len(s) > MaxEntries + 1 THEN SubSeq(s, Len(s) - MaxEntries, Len(s)) ELSE s

\* The newest MaxEntries lines.
Trim(s) == IF Len(s) > MaxEntries THEN SubSeq(s, Len(s) - MaxEntries + 1, Len(s)) ELSE s

\* The post failed, before or after the server recorded it: enqueue.
ReportFails(r) ==
    /\ faults < MaxFaults
    /\ sent[r] = "sending"
    /\ faults' = faults + 1
    /\ sent' = [sent EXCEPT ![r] = "queued"]
    /\ logged' \in {logged, logged \cup {r}}
    /\ file' = Trim(Append(file, r))
    /\ trimmed' = trimmed \cup (ToSet(Append(file, r)) \ ToSet(file'))
    /\ UNCHANGED <<lines, daemon>>

-----------------------------------------------------------------------------
\* The heartbeat timer.  An empty file is left alone.
StartFlush(f) ==
    /\ daemon = "up"
    /\ Idle(f)
    /\ file # <<>>
    /\ lines' = [lines EXCEPT ![f] = file]
    /\ UNCHANGED <<sent, file, daemon, logged, trimmed, faults>>

\* The flush at boot returns; the scheduler and the timers start.
Booted == IF daemon = "booting" THEN "up" ELSE daemon

\* The head is delivered; after the last line the file is rewritten empty.
FlushDelivers(f) ==
    /\ ~Idle(f)
    /\ logged' = logged \cup {Head(lines[f])}
    /\ lines' = [lines EXCEPT ![f] = Tail(@)]
    /\ IF Tail(lines[f]) = <<>>
       THEN file' = <<>> /\ daemon' = Booted
       ELSE UNCHANGED <<file, daemon>>
    /\ UNCHANGED <<sent, trimmed, faults>>

\* Mutant of Remaining: the line that failed is dropped.
RemainingAfterHead(f) == Tail(lines[f])

\* What a failed flush writes back: the line that failed and those after it.
Remaining(f) == lines[f]

\* The send of the head failed, before or after the server recorded it.
FlushFails(f) ==
    /\ faults < MaxFaults
    /\ ~Idle(f)
    /\ faults' = faults + 1
    /\ logged' \in {logged, logged \cup {Head(lines[f])}}
    /\ file' = Remaining(f)
    /\ lines' = [lines EXCEPT ![f] = <<>>]
    /\ daemon' = Booted
    /\ UNCHANGED <<sent, trimmed>>

-----------------------------------------------------------------------------
\* A report that was being posted is in no file yet.
Crash ==
    /\ faults < MaxFaults
    /\ daemon # "down"
    /\ faults' = faults + 1
    /\ daemon' = "down"
    /\ lines' = [f \in Flush |-> <<>>]
    /\ sent' = [r \in Report |-> IF sent[r] = "sending" THEN "lost" ELSE sent[r]]
    /\ UNCHANGED <<file, logged, trimmed>>

\* Boot flushes what the file holds before it goes on.
Boot(f) ==
    /\ daemon = "down"
    /\ lines' = [lines EXCEPT ![f] = file]
    /\ daemon' = IF file = <<>> THEN "up" ELSE "booting"
    /\ UNCHANGED <<sent, file, logged, trimmed, faults>>

\* Registration failed: boot goes on without the flush.
BootUnregistered ==
    /\ faults < MaxFaults
    /\ daemon = "down"
    /\ faults' = faults + 1
    /\ daemon' = "up"
    /\ UNCHANGED <<sent, file, lines, logged, trimmed>>

Next ==
    \/ \E r \in Report : StartReport(r) \/ ReportDelivered(r) \/ ReportFails(r)
    \/ \E f \in Flush : StartFlush(f) \/ FlushDelivers(f) \/ FlushFails(f) \/ Boot(f)
    \/ Crash
    \/ BootUnregistered

Spec == Init /\ [][Next]_vars

\* The service manager boots the daemon, the heartbeat timer fires, and a
\* send ends one way or the other; failures are finitely many.
Fairness ==
    /\ WF_vars((\E f \in Flush : Boot(f)) \/ BootUnregistered)
    /\ \A f \in Flush :
        /\ WF_vars(StartFlush(f))
        /\ WF_vars(FlushDelivers(f) \/ FlushFails(f))

FairSpec == Spec /\ Fairness

-----------------------------------------------------------------------------
(* Correctness                                                             *)

\* The file never outgrows its limit, although flushes write whole files
\* back between the appends (trim and writeLines in report-queue.ts).
QueueBounded == Len(file) <= MaxEntries

\* A report that is in the file while no flush is at work reaches the server
\* or is trimmed, whatever overlapping flushes, failures and crashes follow
\* (flush in report-queue.ts).
QueuedIsDelivered ==
    \A r \in Report :
        (r \in ToSet(file) /\ \A f \in Flush : Idle(f))
            ~> (r \in logged \/ r \in trimmed)
=============================================================================
