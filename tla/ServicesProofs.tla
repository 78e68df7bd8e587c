--------------------------- MODULE ServicesProofs ---------------------------
(***************************************************************************)
(* What holds of the four services of MCServices for all constants.        *)
(*                                                                         *)
(* Seed jobs.  A completed seed is published: the property is about the    *)
(* row, what makes it hold is spread over the target's run, the request on *)
(* its way and the answer it waits for, so the invariant says of each how  *)
(* far the publication has come.  And the reaper finds no job a side is at *)
(* work on: the invariant says that this side holds a live lease, and that *)
(* no request still on its way can take it away.                           *)
(*                                                                         *)
(* Report queue.  The bound of the file is not inductive: a flush writes   *)
(* back what it read long before, so the invariant also bounds the lines   *)
(* every flush still holds.                                                *)
(*                                                                         *)
(* Deploys.  The job at work is the agent's own because its claim is no    *)
(* older than the agent has been busy with it.                             *)
(*                                                                         *)
(* Live progress.  A state that was put off, or that nobody has seen, is   *)
(* in no send, so none is sent twice; a run that comes into a full display *)
(* makes another leave.                                                    *)
(***************************************************************************)
EXTENDS MCServices, FiniteSetTheorems, SequenceTheorems, WellFoundedInduction, TLAPS

Waiting == {"asked", "reporting", "ending"}

InPhase == {"entering", "asked", "working", "checking", "acting"}

\* A run that works on phases has one.
RunsPhase == \A r \in Role : pc[r] \in InPhase => at[r] \in Phase

\* Whoever sent a request and has not given up on it waits for its answer.
Attended ==
    \A m \in requests :
        m.waited => /\ pc[m.role] \in Waiting
                    /\ m.kind = "progress" => pc[m.role] = "asked"

\* A run waits for one answer.
OneAnswer ==
    \A m, n \in requests : m.waited /\ n.waited /\ m.role = n.role => m = n

\* The target gets to its last phase, and to its report, by publishing.
BaselinePublished == at["target"] = "baseline_validation" => published

ReportPublished == \A m \in requests : m.kind = "completed" => published

\* Unless an operator may say so, only the target's report completes the job.
CompletedByRun ==
    phase = "completed" /\ "completed" \notin OperatorOutcomes => published

SeedInv ==
    /\ TypeOK
    /\ RunsPhase
    /\ Attended
    /\ OneAnswer
    /\ BaselinePublished
    /\ ReportPublished
    /\ CompletedByRun

-----------------------------------------------------------------------------
\* A stage that is followed by the next one directly is not the publication.
LEMMA AfterPhase ==
    ASSUME NEW p \in Phase \ Decisive
    PROVE  After(p) \in Phase /\ After(p) # "baseline_validation"
<1>1. PICK i \in 1..10 : p = Phases[i]
  BY DEF Phase, Phases
<1>2. i # 10 /\ i # 9 /\ i # 4
  BY <1>1 DEF Phases, Decisive
<1>3. Follows(p, Phases[i + 1]) /\ Phases[i + 1] \in Phase
  BY <1>1, <1>2 DEF Follows, Phase, Phases
<1>4. After(p) \in Phase /\ Follows(p, After(p))
  BY <1>3 DEF After
<1>5. ~Follows(p, "baseline_validation")
  <2>1. \A j \in 1..9 : Phases[j + 1] = "baseline_validation" => j = 9
    BY DEF Phases
  <2>2. p # Phases[9]
    BY DEF Phases, Decisive
  <2>3. Len(Phases) = 10
    BY DEF Phases
  <2> QED
    BY <2>1, <2>2, <2>3 DEF Follows
<1> QED
  BY <1>4, <1>5

LEMMA PhaseValues ==
    /\ Phase = {"preflight", "measuring_source", "archiving_source",
                "uploading_archive", "downloading_archive", "verifying_archive",
                "extracting_target", "verifying_target", "publishing",
                "baseline_validation"}
    /\ None \notin Phase
  BY ConstantsAssumption DEF Phase, Phases

\* What the lemmas on requests need and give.
Mail == requests \subseteq Request /\ Attended /\ OneAnswer /\ ReportPublished

\* A step of a run that waits for nothing and sends nothing.
LEMMA SilentStep ==
    ASSUME TypeOK, Mail, NEW r \in Role, pc[r] \notin Waiting,
           \A q \in Role \ {r} : pc'[q] = pc[q],
           requests' = requests, published => published'
    PROVE  Mail'
  BY DEF TypeOK, Mail, Attended, OneAnswer, ReportPublished, Request, Role

\* A run that waits for nothing sends a request and waits for its answer.
LEMMA SendStep ==
    ASSUME TypeOK, Mail, NEW r \in Role, pc[r] \notin Waiting,
           NEW k \in {"progress", "archive", "completed", "failed"},
           NEW p \in Phase \cup {None}, NEW s \in Waiting,
           Send(r, k, p, s), k = "progress" => s = "asked",
           k = "completed" => published, published' = published
    PROVE  Mail'
<1> DEFINE x == Message(r, k, p)
<1>1. /\ x \in Request /\ x.role = r /\ x.kind = k /\ x.waited
      /\ requests' = requests \cup {x}
      /\ pc' = [pc EXCEPT ![r] = s]
  BY DEF Message, Request, Send, Goto
<1>2. \A m \in requests : m.waited => m.role # r
  BY DEF Mail, Attended
<1> HIDE DEF x
<1>3. (requests \subseteq Request)' /\ ReportPublished'
  BY <1>1 DEF Mail, ReportPublished
<1>4. OneAnswer'
  BY <1>1, <1>2 DEF Mail, OneAnswer
<1>5. Attended'
  BY <1>1, <1>2 DEF Mail, Attended, TypeOK, Request
<1> QED
  BY <1>3, <1>4, <1>5 DEF Mail

\* The server answers a request.
LEMMA AnswerStep ==
    ASSUME TypeOK, Mail, NEW m \in requests, NEW s \in Step,
           requests' = requests \ {m}, Answer(m, s), published' = published
    PROVE  Mail' /\ pc' \in [Role -> Step]
<1>1. m \in Request /\ m.role \in Role
  BY DEF Mail, Request
<1>2. pc' \in [Role -> Step]
  BY <1>1 DEF TypeOK, Answer
<1>3. (requests \subseteq Request)' /\ ReportPublished' /\ OneAnswer'
  BY DEF Mail, ReportPublished, OneAnswer
<1>4. \A n \in requests' : n.waited => pc'[n.role] = pc[n.role]
  BY <1>1 DEF Mail, OneAnswer, Request, TypeOK, Answer
<1>5. Attended'
  BY <1>4 DEF Mail, Attended
<1> QED
  BY <1>2, <1>3, <1>5 DEF Mail

\* A run stops waiting.
LEMMA UnattendedStep ==
    ASSUME TypeOK, Mail, NEW r \in Role, Unattended(r),
           \A q \in Role \ {r} : pc'[q] = pc[q], published' = published
    PROVE  Mail'
<1> DEFINE mine == {m \in requests : m.role = r /\ m.waited}
           left == {[m EXCEPT !.waited = FALSE] : m \in mine}
<1>1. requests' \subseteq (requests \ mine) \cup left
  BY DEF Unattended
<1>2. \A x \in left : /\ x \in Request
                      /\ x.waited = FALSE
                      /\ \E m \in requests : x.kind = m.kind
  BY DEF Mail, Request
<1>3. \A x \in requests \ mine : x.waited => x.role \in Role \ {r}
  BY DEF Mail, Request
<1> HIDE DEF left
<1>4. (requests \subseteq Request)'
  BY <1>1, <1>2 DEF Mail
<1>5. ReportPublished'
  BY <1>1, <1>2 DEF Mail, ReportPublished
<1>6. OneAnswer'
  BY <1>1, <1>2 DEF Mail, OneAnswer
<1>7. Attended'
  BY <1>1, <1>2, <1>3 DEF Mail, Attended
<1> QED
  BY <1>4, <1>5, <1>6, <1>7 DEF Mail
-----------------------------------------------------------------------------
(* The steps                                                               *)

\* The part of the invariant that is not about requests.
Course == TypeOK /\ RunsPhase /\ BaselinePublished /\ CompletedByRun

LEMMA FaultCount ==
    ASSUME TypeOK, Fault \/ faults' = faults
    PROVE  faults' \in 0..MaxFaults
  BY ConstantsAssumption DEF TypeOK, Fault

LEMMA SeedInvParts == SeedInv <=> Course /\ Mail
  BY DEF SeedInv, Course, Mail, TypeOK

LEMMA SeedInvPartsPrimed == SeedInv' <=> Course' /\ Mail'
  BY DEF SeedInv, Course, Mail, TypeOK

\* The server.
LEMMA ServeStep ==
    ASSUME SeedInv, ServeRequest
    PROVE  SeedInv'
<1> USE SeedInvParts
<1>0. PICK m \in requests : ServeProgress(m) \/ ServeArchive(m) \/ ServeComplete(m)
  BY DEF ServeRequest
<1>m. /\ m \in Request /\ m.role \in Role /\ m.phase \in Phase \cup {None}
      /\ m.kind \in {"progress", "archive", "completed", "failed"}
  BY DEF Mail, Request
<1>1. CASE ServeProgress(m)
  <2>1. m.kind = "progress" /\ UNCHANGED <<facts, relay, published, at, latched, settled, faults>>
    BY <1>1 DEF ServeProgress
  <2>2. m.waited => pc[m.role] = "asked"
    BY <2>1 DEF Mail, Attended
  <2>3. PICK s \in {"working", "cleaning"} : Answer(m, s)
    BY <1>1 DEF ServeProgress
  <2>4. Mail' /\ pc' \in [Role -> Step]
    BY <1>1, <2>1, <2>3, AnswerStep DEF Course, ServeProgress, Step
  <2>5. \/ UNCHANGED <<phase, owner, age>>
        \/ phase' \in Phase /\ owner' = m.role /\ age' = 0
    BY <1>1, <1>m, PhaseValues DEF ServeProgress, MayEnter, CanTransition, Follows, Phase, Phases
  <2>6. TypeOK'
    BY <2>1, <2>4, <2>5, <1>m, ConstantsAssumption DEF Course, TypeOK, Mail
  <2>7. RunsPhase'
    BY <2>1, <2>2, <2>3, <1>m DEF Course, TypeOK, RunsPhase, Answer, InPhase
  <2>8. BaselinePublished' /\ CompletedByRun'
    BY <2>1, <2>5, PhaseValues DEF Course, BaselinePublished, CompletedByRun
  <2> QED
    BY <2>4, <2>6, <2>7, <2>8, SeedInvPartsPrimed DEF Course
<1>2. CASE ServeArchive(m)
  <2>1. UNCHANGED <<phase, relay, published, at, latched, settled>>
    BY <1>2 DEF ServeArchive
  <2>3. PICK s \in {"settling", "failing"} : Answer(m, s)
    BY <1>2 DEF ServeArchive
  <2>4. Mail' /\ pc' \in [Role -> Step]
    BY <1>2, <2>1, <2>3, AnswerStep DEF Course, ServeArchive, Step
  <2>5. facts' = TRUE \/ facts' = facts
    BY <1>2 DEF ServeArchive
  <2>6. owner' \in Role \cup {None} /\ age' \in 0..LeaseTTL
    BY <1>2, ConstantsAssumption DEF ServeArchive, HandOver, Course, TypeOK
  <2>f. faults' \in 0..MaxFaults
    BY <1>2, FaultCount DEF ServeArchive, Course
  <2>7. TypeOK'
    BY <2>1, <2>4, <2>5, <2>6, <2>f DEF Course, TypeOK, Mail
  <2>8. RunsPhase'
    BY <2>1, <2>3, <1>m DEF Course, TypeOK, RunsPhase, Answer, InPhase
  <2>9. BaselinePublished' /\ CompletedByRun'
    BY <2>1 DEF Course, BaselinePublished, CompletedByRun
  <2> QED
    BY <2>4, <2>7, <2>8, <2>9, SeedInvPartsPrimed DEF Course
<1>3. CASE ServeComplete(m)
  <2>1. UNCHANGED <<relay, published, at, latched, settled, faults>>
    BY <1>3 DEF ServeComplete
  <2>3. PICK s \in {"cleaning", "failing"} : Answer(m, s)
    BY <1>3 DEF ServeComplete
  <2>4. Mail' /\ pc' \in [Role -> Step]
    BY <1>3, <2>1, <2>3, AnswerStep DEF Course, ServeComplete, Step
  <2>5. \/ UNCHANGED row
        \/ phase' = m.kind /\ m.kind \in Outcome /\ owner' = None /\ age' = 0 /\ facts' = facts
    BY <1>3 DEF ServeComplete, End, Outcome
  <2>6. TypeOK'
    BY <2>1, <2>4, <2>5, ConstantsAssumption DEF Course, TypeOK, Mail, row
  <2>7. RunsPhase'
    BY <2>1, <2>3, <1>m DEF Course, TypeOK, RunsPhase, Answer, InPhase
  <2>8. BaselinePublished' /\ CompletedByRun'
    BY <2>1, <2>5 DEF Course, Mail, ReportPublished, BaselinePublished, CompletedByRun, row
  <2> QED
    BY <2>4, <2>6, <2>7, <2>8, SeedInvPartsPrimed DEF Course
<1> QED
  BY <1>0, <1>1, <1>2, <1>3

\* Steps that leave the runs and their requests alone.
LEMMA RowStep ==
    ASSUME SeedInv,
           \/ \E o \in OperatorOutcomes : OperatorEnds(o)
           \/ Reap \/ Tick
           \/ \E r \in Role : RenewLease(r) \/ SeesEnd(r) \/ LosesLease(r)
           \/ UNCHANGED vars
    PROVE  SeedInv'
<1> USE SeedInvParts
<1>1. /\ UNCHANGED <<relay, published, pc, at, settled, requests>>
      /\ facts' = facts
      /\ \/ phase' = phase
         \/ phase' \in Outcome /\ (phase' # "completed" \/ "completed" \in OperatorOutcomes)
    BY ConstantsAssumption
       DEF OperatorEnds, Reap, Tick, RenewLease, SeesEnd, LosesLease, End, vars, row, run, Outcome
<1>2. owner' \in Role \cup {None} /\ age' \in 0..LeaseTTL
  BY ConstantsAssumption
     DEF Course, TypeOK, OperatorEnds, Reap, Tick, RenewLease, SeesEnd, LosesLease, End,
         Lapsed, vars, row
<1>3. latched' = latched \/ \E r \in Role : latched' = [latched EXCEPT ![r] = TRUE]
  BY DEF OperatorEnds, Reap, Tick, RenewLease, SeesEnd, LosesLease, vars, run
<1>f. faults' \in 0..MaxFaults
  <2>1. Fault \/ faults' = faults
    BY DEF OperatorEnds, Reap, Tick, RenewLease, SeesEnd, LosesLease, vars
  <2> QED
    BY <2>1, FaultCount DEF Course
<1>4. TypeOK'
  BY <1>1, <1>2, <1>3, <1>f DEF Course, TypeOK
<1>5. RunsPhase' /\ BaselinePublished' /\ CompletedByRun'
  BY <1>1 DEF Course, RunsPhase, BaselinePublished, CompletedByRun
<1>6. Mail'
  BY <1>1 DEF Mail, Attended, OneAnswer, ReportPublished
<1> QED
  BY <1>4, <1>5, <1>6, SeedInvPartsPrimed DEF Course

\* A run takes a step by itself, sends nothing and does not publish.
LEMMA QuietStep ==
    ASSUME SeedInv, NEW r \in Role,
           \/ Begin(r) \/ BeginFails(r) \/ Stopped(r) \/ StageDone(r) \/ StageFails(r)
           \/ VerifyAuthority(r) \/ VerifyBlindly(r) \/ Cleanup(r)
           \/ Settle(r) \/ SettleFails(r)
           \/ r = "target" /\ (WaitEnds \/ WaitFails)
    PROVE  SeedInv'
<1> USE SeedInvParts
<1>1. UNCHANGED <<row, published, requests>>
  BY DEF Begin, BeginFails, Stopped, StageDone, StageFails, VerifyAuthority,
         VerifyBlindly, Cleanup, Settle, SettleFails, WaitEnds, WaitFails
<1>2. PICK s \in Step : pc' = [pc EXCEPT ![r] = s]
  BY DEF Begin, BeginFails, Stopped, StageDone, StageFails, VerifyAuthority,
         VerifyBlindly, Cleanup, Settle, SettleFails, WaitEnds, WaitFails, Leave, Goto, Step
<1>3. pc[r] \notin Waiting
  BY DEF Begin, BeginFails, Stopped, StageDone, StageFails, VerifyAuthority,
         VerifyBlindly, Cleanup, Settle, SettleFails, WaitEnds, WaitFails, Waiting
<1>4. Mail'
  BY <1>1, <1>2, <1>3, SilentStep DEF Course, TypeOK
<1>5. faults' \in 0..MaxFaults
  <2>1. Fault \/ faults' = faults
    BY DEF Begin, BeginFails, Stopped, StageDone, StageFails, VerifyAuthority,
           VerifyBlindly, Cleanup, Settle, SettleFails, WaitEnds, WaitFails
  <2> QED
    BY <2>1, FaultCount DEF Course
<1>6. relay' \in BOOLEAN
  BY DEF Begin, BeginFails, Stopped, StageDone, StageFails, VerifyAuthority, VerifyBlindly,
         Cleanup, Settle, SettleFails, WaitEnds, WaitFails, Course, TypeOK
<1>l. latched' \in [Role -> BOOLEAN]
  <2>1. \/ latched' = latched
        \/ latched' = [latched EXCEPT ![r] = FALSE]
        \/ latched' = [latched EXCEPT ![r] = Terminal]
    BY DEF Begin, BeginFails, Stopped, StageDone, StageFails, VerifyAuthority, VerifyBlindly,
           Cleanup, Settle, SettleFails, WaitEnds, WaitFails, Leave
  <2>2. Terminal \in BOOLEAN
    BY DEF Terminal
  <2> QED
    BY <2>1, <2>2 DEF Course, TypeOK
<1>s. settled' \in [Role -> BOOLEAN]
  <2>1. settled' = settled \/ settled' = [settled EXCEPT ![r] = TRUE]
    BY DEF Begin, BeginFails, Stopped, StageDone, StageFails, VerifyAuthority, VerifyBlindly,
           Cleanup, Settle, SettleFails, WaitEnds, WaitFails
  <2> QED
    BY <2>1 DEF Course, TypeOK
\* Where the run may go, and the phase it is then in.
<1>7. \/ at' = at /\ (pc'[r] \in InPhase => pc[r] \in InPhase)
      \/ /\ \E p \in (Phase \ {"baseline_validation"}) : at' = [at EXCEPT ![r] = p]
      \/ at' = [at EXCEPT ![r] = None] /\ pc'[r] \notin InPhase
  <2>1. CASE StageDone(r)
    <3>1. at[r] \in Phase
      BY <2>1 DEF StageDone, Course, RunsPhase, InPhase
    <3>2. at[r] \notin Decisive =>
              /\ After(at[r]) \in Phase \ {"baseline_validation"}
              /\ at' = [at EXCEPT ![r] = After(at[r])]
      BY <2>1, <3>1, AfterPhase DEF StageDone
    <3>3. at[r] \in Decisive => at' = at /\ pc[r] \in InPhase
      BY <2>1 DEF StageDone, InPhase
    <3> QED
      BY <3>2, <3>3
  <2>2. CASE ~StageDone(r)
    <3>1. "measuring_source" \in Phase /\ "downloading_archive" \in Phase
      BY PhaseValues
    <3> QED
      BY <2>2, <3>1, <1>2
         DEF Begin, BeginFails, Stopped, StageFails, VerifyAuthority, VerifyBlindly, Cleanup,
             Settle, SettleFails, WaitEnds, WaitFails, Leave, Goto, InPhase, Course, TypeOK
  <2> QED
    BY <2>1, <2>2
<1>8. at' \in [Role -> Phase \cup {None}]
  BY <1>7 DEF Course, TypeOK
<1>9. TypeOK'
  BY <1>1, <1>2, <1>4, <1>5, <1>6, <1>l, <1>s, <1>8 DEF Course, TypeOK, Mail, row
<1>10. RunsPhase'
  BY <1>2, <1>7 DEF Course, TypeOK, RunsPhase
<1>11. BaselinePublished' /\ CompletedByRun'
  BY <1>1, <1>7, PhaseValues DEF Course, TypeOK, BaselinePublished, CompletedByRun, row, Role
<1> QED
  BY <1>4, <1>9, <1>10, <1>11, SeedInvPartsPrimed DEF Course

\* The target publishes, or cannot.
LEMMA PublishStep ==
    ASSUME SeedInv, Publish \/ PublishFails
    PROVE  SeedInv'
<1> USE SeedInvParts
<1>1. "target" \in Role /\ pc["target"] = "acting" /\ UNCHANGED <<row, relay, latched, settled, requests>>
  BY DEF Publish, PublishFails, Role
<1>2. \/ /\ published' = TRUE
         /\ pc' = [pc EXCEPT !["target"] = "entering"]
         /\ at' = [at EXCEPT !["target"] = "baseline_validation"]
         /\ faults' = faults
      \/ /\ published' = published
         /\ pc' = [pc EXCEPT !["target"] = "failing"]
         /\ at' = at
         /\ faults' \in 0..MaxFaults
  BY ConstantsAssumption DEF Publish, PublishFails, Unpublished, Goto, Fault, Course, TypeOK
<1>3. Mail'
  BY <1>1, <1>2, SilentStep DEF Course, TypeOK, Waiting
<1>4. TypeOK'
  BY <1>1, <1>2, PhaseValues DEF Course, TypeOK, row, Step
<1>5. RunsPhase'
  BY <1>1, <1>2, PhaseValues DEF Course, TypeOK, RunsPhase, InPhase
<1>6. BaselinePublished' /\ CompletedByRun'
  BY <1>1, <1>2 DEF Course, TypeOK, BaselinePublished, CompletedByRun, row
<1> QED
  BY <1>3, <1>4, <1>5, <1>6, SeedInvPartsPrimed DEF Course

\* A run sends a request.
LEMMA SendingStep ==
    ASSUME SeedInv, NEW r \in Role,
           \/ Enter(r) \/ FailJob(r)
           \/ r = "source" /\ RecordFacts
           \/ r = "target" /\ Complete
    PROVE  SeedInv'
<1> USE SeedInvParts
<1>1. /\ UNCHANGED <<row, relay, published, at, latched, settled, faults>>
      /\ pc[r] \in {"entering", "acting", "failing"}
  BY DEF Enter, FailJob, RecordFacts, Complete
<1>2. PICK k \in {"progress", "archive", "completed", "failed"},
           p \in Phase \cup {None}, s \in Waiting :
        /\ Send(r, k, p, s)
        /\ k = "progress" => s = "asked"
        /\ k = "completed" => published
        /\ s = "asked" => pc[r] = "entering"
  <2>1. CASE Enter(r)
    BY <2>1 DEF Enter, Waiting, Course, TypeOK
  <2>2. CASE FailJob(r) \/ (r = "source" /\ RecordFacts)
    BY <2>2 DEF FailJob, RecordFacts, Waiting
  <2>3. CASE r = "target" /\ Complete
    BY <2>3 DEF Complete, Waiting, Course, BaselinePublished
  <2> QED
    BY <2>1, <2>2, <2>3
<1>3. Mail'
  BY <1>1, <1>2, SendStep DEF Course, Waiting
<1>4. pc' = [pc EXCEPT ![r] = s]
  BY <1>2 DEF Send, Goto
<1>5. TypeOK'
  BY <1>1, <1>3, <1>4 DEF Course, TypeOK, Mail, row, Step, Waiting
<1>6. RunsPhase'
  BY <1>1, <1>2, <1>4 DEF Course, TypeOK, RunsPhase, InPhase, Waiting
<1>7. BaselinePublished' /\ CompletedByRun'
  BY <1>1 DEF Course, BaselinePublished, CompletedByRun, row
<1> QED
  BY <1>3, <1>5, <1>6, <1>7, SeedInvPartsPrimed DEF Course

\* A run gives up on its request, or dies.
LEMMA GiveUpStep ==
    ASSUME SeedInv, NEW r \in Role, RequestFails(r) \/ Crash(r)
    PROVE  SeedInv'
<1> USE SeedInvParts
<1>1. /\ UNCHANGED <<row, relay, published, settled>>
      /\ Unattended(r)
      /\ Fault
      /\ latched' = latched \/ latched' = [latched EXCEPT ![r] = FALSE]
  BY DEF RequestFails, Crash, Leave
<1>f. faults' \in 0..MaxFaults
  BY <1>1, FaultCount DEF Course
<1>l. latched' \in [Role -> BOOLEAN]
  BY <1>1 DEF Course, TypeOK
<1>2. /\ at' = at \/ at' = [at EXCEPT ![r] = None]
      /\ \E s \in Step \ InPhase : pc' = [pc EXCEPT ![r] = s]
  BY DEF RequestFails, Crash, Leave, Goto, Step, InPhase
<1>3. Mail'
  BY <1>1, <1>2, UnattendedStep DEF Course, TypeOK
<1>4. TypeOK'
  BY <1>1, <1>2, <1>3, <1>f, <1>l DEF Course, TypeOK, Mail, row
<1>5. RunsPhase'
  BY <1>1, <1>2 DEF Course, TypeOK, RunsPhase
<1>6. BaselinePublished' /\ CompletedByRun'
  <2>1. at'["target"] = "baseline_validation" => at["target"] = "baseline_validation"
    BY <1>2, PhaseValues DEF Course, TypeOK, Role
  <2> QED
    BY <1>1, <2>1 DEF Course, BaselinePublished, CompletedByRun, row
<1> QED
  BY <1>3, <1>4, <1>5, <1>6, SeedInvPartsPrimed DEF Course

LEMMA SeedKept ==
    ASSUME SeedInv, [Next]_vars
    PROVE  SeedInv'
<1>1. CASE \E r \in Role : RunStep(r) \/ RunFault(r) \/ Supervise(r)
  BY <1>1, QuietStep, SendingStep, GiveUpStep, RowStep DEF RunStep, RunFault, Supervise
<1>2. CASE SourceStep \/ TargetStep
  BY <1>2, QuietStep, SendingStep, PublishStep DEF SourceStep, TargetStep, Role
<1>3. CASE ServeRequest
  BY <1>3, ServeStep
<1>4. CASE (\E o \in OperatorOutcomes : OperatorEnds(o)) \/ Reap \/ Tick \/ UNCHANGED vars
  BY <1>4, RowStep
<1> QED
  BY <1>1, <1>2, <1>3, <1>4 DEF Next

LEMMA SeedStart == Init => SeedInv
<1> SUFFICES ASSUME Init PROVE SeedInv
  OBVIOUS
<1>1. TypeOK
  <2>1. phase \in Phase \cup Outcome /\ age \in 0..LeaseTTL /\ faults \in 0..MaxFaults
    BY PhaseValues, ConstantsAssumption DEF Init
  <2>2. /\ owner \in Role \cup {None}
        /\ facts \in BOOLEAN /\ relay \in BOOLEAN /\ published \in BOOLEAN
        /\ requests \subseteq Request
    BY DEF Init
  <2>3. pc \in [Role -> Step] /\ at \in [Role -> Phase \cup {None}]
    BY DEF Init, Step
  <2>4. latched \in [Role -> BOOLEAN] /\ settled \in [Role -> BOOLEAN]
    BY DEF Init
  <2> QED
    BY <2>1, <2>2, <2>3, <2>4 DEF TypeOK
<1>2. RunsPhase /\ Attended /\ OneAnswer /\ ReportPublished
  BY DEF Init, RunsPhase, InPhase, Attended, OneAnswer, ReportPublished
<1>3. BaselinePublished /\ CompletedByRun
  BY PhaseValues DEF Init, BaselinePublished, CompletedByRun, Role
<1> QED
  BY <1>1, <1>2, <1>3 DEF SeedInv

\* A seed the server calls completed has its tree in place on the target
\* (publishStagedTree before completeSeedJob in runTarget, and
\* finishSeedJobOwnedBy), whatever requests are lost, late or repeated,
\* however often a run crashes and starts over, and whatever the lease and
\* the grace are, as long as no operator declares it completed.
THEOREM CompletedSeedIsPublished ==
    ASSUME "completed" \notin OperatorOutcomes
    PROVE  Spec => []CompletedIsPublished
<1>1. SeedInv /\ [Next]_vars => SeedInv'
  BY SeedKept
<1>2. SeedInv => CompletedIsPublished
  BY DEF SeedInv, CompletedByRun, CompletedIsPublished
<1> QED
  BY <1>1, <1>2, SeedStart, PTL DEF Spec

-----------------------------------------------------------------------------
(* The reaper and a side at work                                           *)

Early == {"preflight", "measuring_source"}

\* Each side asks only for phases of its own.
Sides ==
    /\ at["source"] \in {None, "measuring_source", "archiving_source", "uploading_archive"}
    /\ at["target"] # "preflight"
    /\ \A r \in Role : pc[r] = "reporting" => at[r] # None

\* A progress report is about the phase its sender is in.
Asked ==
    \A m \in requests :
        m.kind = "progress" => /\ m.phase \notin {None, "preflight"}
                               /\ m.waited => m.phase = at[m.role]

\* A source that is done with its upload was granted it.
Uploads ==
    /\ pc["source"] \in {"checking", "acting"} => at["source"] = "uploading_archive"
    /\ pc["source"] \in {"working", "checking", "acting"} /\ at["source"] = "uploading_archive"
           => phase \notin Early

\* An archive report that nobody waits for is not followed by more work: the
\* source would have to start again from a phase that is over.
Archives ==
    \A m \in requests :
        m.kind = "archive" => /\ m.role = "source"
                              /\ phase \notin Early
                              /\ ~m.waited => ~AtWork("source")

\* The side at work holds a live lease, and it is its turn.
Work ==
    ~Terminal =>
        \A r \in Role :
            AtWork(r) => /\ owner = r
                         /\ age < LeaseTTL
                         /\ PhaseRole(phase) = r
                         /\ phase # "preflight"
                         /\ facts <=> (r = "target")

Sent == Asked /\ Archives

LeaseInv == SeedInv /\ Sides /\ Sent /\ Uploads /\ Work

LEMMA AfterSource ==
    /\ After("measuring_source") = "archiving_source"
    /\ After("archiving_source") = "uploading_archive"
    /\ \A p \in Phase \ Decisive : After(p) # "preflight"
<1>1. Len(Phases) = 10
  BY DEF Phases
<1>2. \A q : Follows("measuring_source", q) <=> q = "archiving_source"
  BY <1>1 DEF Follows, Phases
<1>3. \A q : Follows("archiving_source", q) <=> q = "uploading_archive"
  BY <1>1 DEF Follows, Phases
<1>4. \A p : ~Follows(p, "preflight")
  BY <1>1 DEF Follows, Phases
<1>5. ASSUME NEW p \in Phase \ Decisive
      PROVE  After(p) # "preflight"
  <2>1. PICK i \in 1..10 : p = Phases[i]
    BY DEF Phase, Phases
  <2>2. i # 10
    BY <2>1 DEF Phases, Decisive
  <2>3. Follows(p, Phases[i + 1]) /\ Phases[i + 1] \in Phase
    BY <1>1, <2>1, <2>2 DEF Follows, Phase
  <2>4. Follows(p, After(p))
    BY <2>3 DEF After
  <2> QED
    BY <1>4, <2>4
<1> QED
  BY <1>2, <1>3, <1>5, PhaseValues DEF After

\* The job does not go back to its first phases.
LEMMA Onward ==
    ASSUME NEW p, NEW q, CanTransition(p, q)
    PROVE  /\ p \notin Early => q \notin Early
           /\ q = "measuring_source" => p \in Early
  BY DEF CanTransition, Follows, Phases, Early

\* A step of the runs alone, after which no other side is at work.
LEMMA WorkKept ==
    ASSUME Work, row' = row, \A q \in Role : AtWork(q)' => AtWork(q)
    PROVE  Work'
  BY DEF Work, row, Terminal

\* The requests, when the row is left alone and none is sent.
LEMMA SentKept ==
    ASSUME Sent, Mail, row' = row, requests' \subseteq requests,
           \A q \in Role : AtWork(q)' => AtWork(q),
           \A m \in requests' : m.waited => at'[m.role] = at[m.role]
    PROVE  Sent'
  BY DEF Sent, Asked, Archives, row, Role

LEMMA QuietLease ==
    ASSUME LeaseInv, SeedInv', NEW r \in Role,
           \/ Begin(r) \/ BeginFails(r) \/ Stopped(r) \/ StageDone(r) \/ StageFails(r)
           \/ VerifyAuthority(r) \/ VerifyBlindly(r) \/ Cleanup(r)
           \/ Settle(r) \/ SettleFails(r)
           \/ r = "target" /\ (WaitEnds \/ WaitFails \/ Publish \/ PublishFails)
    PROVE  LeaseInv'
<1> USE SeedInvParts
<1>i. SeedInv /\ Course /\ Mail /\ TypeOK /\ Sides /\ Sent /\ Uploads /\ Work
  BY DEF LeaseInv, Course
<1>1. row' = row /\ requests' = requests
  BY DEF Begin, BeginFails, Stopped, StageDone, StageFails, VerifyAuthority, VerifyBlindly,
         Cleanup, Settle, SettleFails, WaitEnds, WaitFails, Publish, PublishFails, row
<1>2. pc[r] \notin Waiting
  BY DEF Begin, BeginFails, Stopped, StageDone, StageFails, VerifyAuthority, VerifyBlindly,
         Cleanup, Settle, SettleFails, WaitEnds, WaitFails, Publish, PublishFails, Waiting
<1>3. \A q \in Role \ {r} : pc'[q] = pc[q] /\ at'[q] = at[q] /\ latched'[q] = latched[q]
  <2>1. \E s : pc' = [pc EXCEPT ![r] = s]
    BY DEF Begin, BeginFails, Stopped, StageDone, StageFails, VerifyAuthority, VerifyBlindly,
           Cleanup, Settle, SettleFails, WaitEnds, WaitFails, Publish, PublishFails, Unpublished,
           Goto, Leave
  <2>2. at' = at \/ \E p : at' = [at EXCEPT ![r] = p]
    BY DEF Begin, BeginFails, Stopped, StageDone, StageFails, VerifyAuthority, VerifyBlindly,
           Cleanup, Settle, SettleFails, WaitEnds, WaitFails, Publish, PublishFails, Unpublished,
           Leave
  <2>3. latched' = latched \/ \E b : latched' = [latched EXCEPT ![r] = b]
    BY DEF Begin, BeginFails, Stopped, StageDone, StageFails, VerifyAuthority, VerifyBlindly,
           Cleanup, Settle, SettleFails, WaitEnds, WaitFails, Publish, PublishFails, Leave
  <2> QED
    BY <1>i, <2>1, <2>2, <2>3 DEF TypeOK
<1>4. AtWork(r)' => AtWork(r)
  <2>1. CASE StageDone(r) \/ StageFails(r) \/ VerifyBlindly(r)
    BY <2>1, <1>i DEF StageDone, StageFails, VerifyBlindly, AtWork, Goto, TypeOK
  <2>2. CASE Begin(r) \/ BeginFails(r) \/ Stopped(r) \/ Cleanup(r)
    BY <2>2, <1>i, PhaseValues
       DEF Begin, BeginFails, Stopped, Cleanup, AtWork, Goto, TypeOK, FirstPhase
  <2>3. CASE Settle(r) \/ SettleFails(r)
    BY <2>3, <1>i DEF Settle, SettleFails, Leave, AtWork, Goto, TypeOK
  <2>4. CASE VerifyAuthority(r)
    BY <2>4, <1>i DEF VerifyAuthority, AtWork, Goto, TypeOK
  <2>5. CASE r = "target" /\ (WaitEnds \/ WaitFails)
    BY <2>5, <1>i DEF WaitEnds, WaitFails, AtWork, Goto, TypeOK, FirstPhase
  <2>6. CASE r = "target" /\ (Publish \/ PublishFails)
    BY <2>6, <1>i DEF Publish, PublishFails, Unpublished, AtWork, Goto, TypeOK
  <2> QED
    BY <2>1, <2>2, <2>3, <2>4, <2>5, <2>6
<1>5. \A q \in Role : AtWork(q)' => AtWork(q)
  BY <1>3, <1>4 DEF AtWork
<1>6. Work'
  BY <1>i, <1>1, <1>5, WorkKept
<1>7. \A m \in requests' : m.waited => at'[m.role] = at[m.role]
  BY <1>i, <1>1, <1>2, <1>3 DEF Mail, Attended, Request
<1>8. Sent'
  BY <1>i, <1>1, <1>5, <1>7, SentKept
\* Where the run may go.
<1>9. CASE StageDone(r)
  <2>1. at[r] \in Phase /\ pc[r] = "working"
    BY <1>9, <1>i DEF StageDone, Course, RunsPhase, InPhase
  <2>2. at[r] \in Decisive =>
            at' = at /\ pc' = [pc EXCEPT ![r] = "checking"]
    BY <1>9 DEF StageDone, Goto
  <2>3. at[r] \notin Decisive =>
            at' = [at EXCEPT ![r] = After(at[r])] /\ pc' = [pc EXCEPT ![r] = "entering"]
    BY <1>9 DEF StageDone, Goto
  <2>4. Sides'
    BY <1>i, <2>1, <2>2, <2>3, AfterSource, PhaseValues DEF Sides, TypeOK, Role, Decisive
  <2>5. Uploads'
    <3>1. r = "source" /\ at[r] \in Decisive => at[r] = "uploading_archive"
      BY <1>i, PhaseValues DEF Sides, Decisive
    <3> QED
      BY <1>i, <1>1, <2>1, <2>2, <2>3, <3>1 DEF Uploads, TypeOK, Role, row
  <2> QED
    BY <1>6, <1>8, <2>4, <2>5 DEF LeaseInv
<1>10. CASE ~StageDone(r)
  <2>1. \/ at' = at
        \/ at' = [at EXCEPT ![r] = None] /\ pc' = [pc EXCEPT ![r] = "idle"]
        \/ /\ pc' = [pc EXCEPT ![r] = "entering"]
           /\ \/ r = "source" /\ at' = [at EXCEPT ![r] = "measuring_source"]
              \/ r = "target" /\ at' = [at EXCEPT ![r] = "downloading_archive"]
              \/ r = "target" /\ at' = [at EXCEPT ![r] = "baseline_validation"]
    BY <1>10
       DEF Begin, BeginFails, Stopped, StageFails, VerifyAuthority, VerifyBlindly, Cleanup,
           Settle, SettleFails, WaitEnds, WaitFails, Publish, PublishFails, Unpublished, Leave, Goto
  <2>2. at' = at => \E s \in Step \ {"reporting", "working", "checking"} :
            /\ pc' = [pc EXCEPT ![r] = s]
            /\ s = "acting" => pc[r] = "checking"
    <3>1. CASE Settle(r) \/ SettleFails(r)
      BY <3>1 DEF Settle, SettleFails, Leave, Goto, Step
    <3>2. CASE Begin(r) \/ BeginFails(r) \/ Stopped(r) \/ StageFails(r) \/ Cleanup(r)
      BY <3>2 DEF Begin, BeginFails, Stopped, StageFails, Cleanup, Goto, Step
    <3>3. CASE VerifyAuthority(r) \/ VerifyBlindly(r)
      BY <3>3 DEF VerifyAuthority, VerifyBlindly, Goto, Step
    <3>4. CASE r = "target" /\ (WaitEnds \/ WaitFails \/ Publish \/ PublishFails)
      BY <3>4 DEF WaitEnds, WaitFails, Publish, PublishFails, Unpublished, Goto, Step
    <3> QED
      BY <1>10, <3>1, <3>2, <3>3, <3>4
  <2>3. Sides'
    BY <1>i, <2>1, <2>2, PhaseValues DEF Sides, TypeOK, Role
  <2>4. Uploads'
    BY <1>i, <1>1, <2>1, <2>2 DEF Uploads, TypeOK, Role, row
  <2> QED
    BY <1>6, <1>8, <2>3, <2>4 DEF LeaseInv
<1> QED
  BY <1>9, <1>10

LEMMA SendingLease ==
    ASSUME LeaseInv, SeedInv', NEW r \in Role,
           \/ Enter(r) \/ FailJob(r)
           \/ r = "source" /\ RecordFacts
           \/ r = "target" /\ Complete
    PROVE  LeaseInv'
<1> USE SeedInvParts
<1>i. SeedInv /\ Course /\ Mail /\ TypeOK /\ Sides /\ Sent /\ Uploads /\ Work
  BY DEF LeaseInv, Course
<1>1. row' = row /\ at' = at /\ latched' = latched
  BY DEF Enter, FailJob, RecordFacts, Complete, row
<1>2. PICK k \in {"progress", "archive", "completed", "failed"},
           p \in Phase \cup {None}, s \in Waiting :
        /\ Send(r, k, p, s)
        /\ k = "progress" => p = at[r] /\ pc[r] = "entering"
        /\ k = "archive" => r = "source" /\ pc[r] = "acting"
        /\ s = "asked" => pc[r] = "entering"
        /\ s = "reporting" => pc[r] = "acting"
  <2>1. CASE Enter(r)
    BY <2>1, <1>i DEF Enter, Waiting, TypeOK
  <2>2. CASE FailJob(r)
    BY <2>2 DEF FailJob, Waiting
  <2>3. CASE (r = "source" /\ RecordFacts) \/ (r = "target" /\ Complete)
    BY <2>3 DEF RecordFacts, Complete, Waiting
  <2> QED
    BY <2>1, <2>2, <2>3
<1>3. pc' = [pc EXCEPT ![r] = s]
  BY <1>2 DEF Send, Goto
<1>4. \A q \in Role : AtWork(q)' => AtWork(q)
  BY <1>i, <1>1, <1>2, <1>3 DEF AtWork, TypeOK, Waiting
<1>5. Work'
  BY <1>i, <1>1, <1>4, WorkKept
<1>6. Sides'
  BY <1>i, <1>1, <1>2, <1>3, PhaseValues DEF Sides, TypeOK, Role, Course, RunsPhase, InPhase
<1>7. Uploads'
  BY <1>i, <1>1, <1>2, <1>3 DEF Uploads, TypeOK, Role, row, Waiting
<1>8. Sent'
  <2> DEFINE x == Message(r, k, p)
  <2>1. /\ requests' = requests \cup {x}
        /\ x.role = r /\ x.kind = k /\ x.phase = p /\ x.waited
    BY <1>2 DEF Send, Message
  <2> HIDE DEF x
  <2>2. k = "progress" => p \notin {None, "preflight"}
    BY <1>i, <1>2, PhaseValues DEF Course, RunsPhase, InPhase, Sides, Role
  <2>3. k = "archive" => phase \notin Early
    BY <1>i, <1>2 DEF Uploads
  <2>4. Asked'
    BY <1>i, <1>1, <1>2, <2>1, <2>2 DEF Sent, Asked
  <2>5. Archives'
    BY <1>i, <1>1, <1>2, <1>4, <2>1, <2>3 DEF Sent, Archives, row, Role
  <2> QED
    BY <2>4, <2>5 DEF Sent
<1> QED
  BY <1>5, <1>6, <1>7, <1>8 DEF LeaseInv

LEMMA GiveUpLease ==
    ASSUME LeaseInv, SeedInv', NEW r \in Role, RequestFails(r) \/ Crash(r)
    PROVE  LeaseInv'
<1> USE SeedInvParts
<1>i. SeedInv /\ Course /\ Mail /\ TypeOK /\ Sides /\ Sent /\ Uploads /\ Work
  BY DEF LeaseInv, Course
<1>1. /\ row' = row
      /\ Unattended(r)
      /\ latched' = latched \/ latched' = [latched EXCEPT ![r] = FALSE]
      /\ at' = at \/ at' = [at EXCEPT ![r] = None]
      /\ \E s \in {"failing", "cleaning", "idle"} : pc' = [pc EXCEPT ![r] = s]
  BY DEF RequestFails, Crash, Leave, Goto, row
<1>2. ~AtWork(r)' /\ \A q \in Role \ {r} : AtWork(q)' <=> AtWork(q)
  BY <1>i, <1>1 DEF AtWork, TypeOK
<1>3. \A q \in Role : AtWork(q)' => AtWork(q)
  BY <1>2
<1>4. Work'
  BY <1>i, <1>1, <1>3, WorkKept
<1>5. Sides'
  BY <1>i, <1>1, PhaseValues DEF Sides, TypeOK, Role
<1>6. Uploads'
  BY <1>i, <1>1 DEF Uploads, TypeOK, Role, row
<1>7. Sent'
  <2> DEFINE mine == {m \in requests : m.role = r /\ m.waited}
             left == {[m EXCEPT !.waited = FALSE] : m \in mine}
  <2>1. requests' \subseteq (requests \ mine) \cup left
    BY <1>1 DEF Unattended
  <2>2. \A x \in left : /\ x.waited = FALSE
                        /\ \E m \in requests : /\ m.role = r
                                               /\ x.kind = m.kind
                                               /\ x.phase = m.phase
                                               /\ x.role = m.role
    BY <1>i DEF Mail, Request
  <2>3. \A x \in requests \ mine : x.waited => x.role \in Role \ {r} /\ at'[x.role] = at[x.role]
    BY <1>i, <1>1 DEF Mail, Request, TypeOK
  <2> HIDE DEF left, mine
  <2>4. Asked'
    BY <1>i, <2>1, <2>2, <2>3 DEF Sent, Asked
  <2>5. Archives'
    <3>1. ASSUME NEW m \in requests', m.kind = "archive", m \in left
          PROVE  m.role = "source" /\ phase \notin Early /\ ~AtWork("source")'
      BY <1>i, <1>2, <2>2, <3>1 DEF Sent, Archives
    <3>2. ASSUME NEW m \in requests', m.kind = "archive", m \in requests
          PROVE  m.role = "source" /\ phase \notin Early /\ (~m.waited => ~AtWork("source")')
      BY <1>i, <1>3, <3>2 DEF Sent, Archives, Role
    <3> QED
      BY <1>1, <2>1, <3>1, <3>2 DEF Archives, row
  <2> QED
    BY <2>4, <2>5 DEF Sent
<1> QED
  BY <1>4, <1>5, <1>6, <1>7 DEF LeaseInv

\* The job ends, the lease is renewed or ages, a supervisor stops its run.
LEMMA RowLease ==
    ASSUME LeaseInv, SeedInv', Timely,
           \/ \E o \in OperatorOutcomes : OperatorEnds(o)
           \/ Reap \/ Tick
           \/ \E r \in Role : RenewLease(r) \/ SeesEnd(r) \/ LosesLease(r)
           \/ UNCHANGED vars
    PROVE  LeaseInv'
<1> USE SeedInvParts
<1>i. SeedInv /\ Course /\ Mail /\ TypeOK /\ Sides /\ Sent /\ Uploads /\ Work
  BY DEF LeaseInv, Course
<1>1. /\ UNCHANGED <<pc, at, requests, facts>>
      /\ phase' = phase \/ phase' \in Outcome
      /\ latched' = latched \/ \E r \in Role : latched' = [latched EXCEPT ![r] = TRUE]
  BY ConstantsAssumption
     DEF OperatorEnds, Reap, Tick, RenewLease, SeesEnd, LosesLease, End, vars, row, run, Outcome
<1>2. \A q \in Role : AtWork(q)' => AtWork(q)
  BY <1>i, <1>1 DEF AtWork, TypeOK
<1>3. phase \notin Early => phase' \notin Early
  BY <1>1 DEF Early, Outcome
<1>4. Sides'
  BY <1>i, <1>1 DEF Sides
<1>5. Uploads'
  BY <1>i, <1>1, <1>3 DEF Uploads
<1>6. Sent'
  BY <1>i, <1>1, <1>2, <1>3 DEF Sent, Asked, Archives, Role
<1>7. Work'
  <2>1. CASE phase' \in Outcome
    BY <2>1 DEF Work, Terminal
  <2>2. CASE phase' = phase /\ owner' = owner /\ age' < LeaseTTL
    BY <2>2, <1>i, <1>1, <1>2 DEF Work, Terminal
  <2>3. CASE row' = row
    BY <2>3, <1>i, <1>2, WorkKept
  <2>4. CASE Tick
    <3>1. Running /\ ~Due /\ age' = age + 1 /\ UNCHANGED <<phase, owner, facts>>
      BY <2>4 DEF Tick
    <3>2. ASSUME NEW r \in Role, AtWork(r)
          PROVE  age' < LeaseTTL
      <4>1. owner = r /\ age < LeaseTTL /\ PhaseRole(phase) = r
        BY <1>i, <3>1, <3>2 DEF Work, Running
      <4>2. Supervised(r)
        BY <1>i, <3>2, PhaseValues
           DEF Supervised, AtWork, Sides, Course, RunsPhase, InPhase
      <4>3. MayRenew(r)
        BY <3>1, <4>1, <1>i, ConstantsAssumption DEF MayRenew, LeaseLive, Lapsed, TypeOK
      <4>4. age + 1 # LeaseTTL
        BY <3>1, <4>2, <4>3 DEF Due
      <4> QED
        BY <3>1, <4>1, <4>4, <1>i, ConstantsAssumption DEF TypeOK
    <3> QED
      BY <3>1, <3>2, <1>i, <1>2 DEF Work, Terminal
  <2> QED
    <3>1. CASE \E r \in Role : RenewLease(r)
      BY <3>1, <2>2, ConstantsAssumption DEF RenewLease
    <3>2. CASE UNCHANGED vars \/ \E r \in Role : SeesEnd(r) \/ LosesLease(r)
      BY <3>2, <2>3 DEF SeesEnd, LosesLease, vars
    <3>3. CASE Reap \/ \E o \in OperatorOutcomes : OperatorEnds(o)
      BY <3>3, <2>1, ConstantsAssumption DEF Reap, OperatorEnds, End, Outcome
    <3> QED
      BY <2>4, <3>1, <3>2, <3>3
<1> QED
  BY <1>4, <1>5, <1>6, <1>7 DEF LeaseInv

\* The server answers a request.
LEMMA ServeLease ==
    ASSUME LeaseInv, SeedInv', ServeRequest
    PROVE  LeaseInv'
<1> USE SeedInvParts
<1>i. SeedInv /\ Course /\ Mail /\ TypeOK /\ Sides /\ Sent /\ Uploads /\ Work
  BY DEF LeaseInv, Course
<1>0. PICK m \in requests : ServeProgress(m) \/ ServeArchive(m) \/ ServeComplete(m)
  BY DEF ServeRequest
<1>m. m \in Request /\ m.role \in Role
  BY <1>i DEF Mail, Request
<1>a. requests' = requests \ {m} /\ at' = at /\ latched' = latched
  BY <1>0 DEF ServeProgress, ServeArchive, ServeComplete
<1>1. CASE ServeProgress(m) /\ MayEnter(m.role, m.phase)
  <2>1. /\ m.kind = "progress" /\ Answer(m, "working")
        /\ phase' = m.phase /\ owner' = m.role /\ age' = 0 /\ facts' = facts
    BY <1>1 DEF ServeProgress
  <2>2. /\ ~Terminal /\ PhaseRole(m.phase) = m.role
        /\ facts = (m.role = "target")
        /\ CanTransition(phase, m.phase)
    BY <1>1 DEF MayEnter
  <2>3. m.phase \notin {None, "preflight"} /\ (m.waited => m.phase = at[m.role] /\ pc[m.role] = "asked")
    BY <1>i, <2>1 DEF Sent, Asked, Mail, Attended
  <2>4. /\ phase \notin Early => m.phase \notin Early
        /\ m.phase = "measuring_source" => phase \in Early
    BY <2>2, Onward
  <2>5. pc' = IF m.waited THEN [pc EXCEPT ![m.role] = "working"] ELSE pc
    BY <2>1 DEF Answer
  <2>6. \A q \in Role \ {m.role} : AtWork(q)' => AtWork(q)
    BY <1>i, <1>a, <2>5 DEF AtWork, TypeOK
  <2>7. \A q \in Role \ {m.role} : ~AtWork(q)
    BY <1>i, <1>m, <2>2 DEF Work, Role
  <2>8. Work'
    <3>1. facts' <=> m.role = "target"
      BY <2>1, <2>2
    <3>2. \A q \in Role : AtWork(q)' => q = m.role
      BY <2>6, <2>7
    <3>3. PhaseRole(phase') = m.role /\ phase' # "preflight" /\ owner' = m.role /\ age' < LeaseTTL
      BY <2>1, <2>2, <2>3, ConstantsAssumption
    <3> QED
      BY <3>1, <3>2, <3>3 DEF Work
  <2>9. Sides'
    BY <1>i, <1>a, <1>m, <2>5 DEF Sides, TypeOK
  <2>10. Uploads'
    BY <1>i, <1>a, <1>m, <2>1, <2>3, <2>4, <2>5 DEF Uploads, TypeOK, Role, Early
  <2>11. Asked'
    BY <1>i, <1>a DEF Sent, Asked
  <2>12. Archives'
    <3>1. ASSUME NEW n \in requests', n.kind = "archive", ~n.waited, AtWork("source")'
          PROVE  FALSE
      <4>1. n \in requests /\ ~AtWork("source") /\ phase \notin Early
        BY <1>i, <1>a, <3>1 DEF Sent, Archives
      <4>2. m.role = "source"
        BY <1>m, <2>6, <3>1, <4>1 DEF Role
      <4>3. m.waited /\ ~latched["source"]
        BY <1>a, <2>5, <3>1, <4>1 DEF AtWork
      <4>4. at["source"] = "measuring_source"
        BY <1>i, <2>3, <4>1, <4>2, <4>3, PhaseValues DEF AtWork, FirstPhase, Sides
      <4> QED
        BY <2>3, <2>4, <4>1, <4>2, <4>3, <4>4
    <3> QED
      BY <1>i, <1>a, <2>1, <2>4, <3>1 DEF Sent, Archives
  <2> QED
    BY <2>8, <2>9, <2>10, <2>11, <2>12 DEF LeaseInv, Sent
<1>2. CASE ~(ServeProgress(m) /\ MayEnter(m.role, m.phase))
  <2>1. PICK s \in {"settling", "cleaning", "failing"} : Answer(m, s)
    BY <1>0, <1>2 DEF ServeProgress, ServeArchive, ServeComplete
  <2>2. pc' = IF m.waited THEN [pc EXCEPT ![m.role] = s] ELSE pc
    BY <2>1 DEF Answer
  <2>3. /\ \A q \in Role : AtWork(q)' => AtWork(q)
        /\ m.waited => ~AtWork(m.role)'
    BY <1>i, <1>a, <1>m, <2>2 DEF AtWork, TypeOK
  <2>4. phase' = phase \/ phase' \in Outcome
    BY <1>0, <1>2 DEF ServeProgress, ServeArchive, ServeComplete, End, row, Outcome
  <2>5. phase \notin Early => phase' \notin Early
    BY <2>4 DEF Early, Outcome
  <2>6. Sides'
    BY <1>i, <1>a, <1>m, <2>2 DEF Sides, TypeOK
  <2>7. Uploads'
    BY <1>i, <1>a, <1>m, <2>2, <2>5 DEF Uploads, TypeOK
  <2>8. Sent'
    BY <1>i, <1>a, <2>3, <2>5 DEF Sent, Asked, Archives, Role
  <2>9. Work'
    <3>1. CASE row' = row
      BY <3>1, <1>i, <2>3, WorkKept
    <3>2. CASE phase' \in Outcome
      BY <3>2 DEF Work, Terminal
    <3>3. CASE ServeArchive(m) /\ MayRecord(m.role)
      <4>1. m.role = "source" /\ (~m.waited => ~AtWork("source"))
        BY <1>i, <3>3 DEF ServeArchive, Sent, Archives
      <4>2. ~AtWork("source")'
        BY <2>3, <4>1 DEF Role
      <4>3. ~AtWork("target")
        BY <1>i, <3>3 DEF MayRecord, Work, Terminal, Outcome, Role
      <4> QED
        BY <2>3, <4>2, <4>3 DEF Work, Role
    <3> QED
      BY <1>0, <1>2, <3>1, <3>2, <3>3
         DEF ServeProgress, ServeArchive, ServeComplete, End, row, Outcome
  <2> QED
    BY <2>6, <2>7, <2>8, <2>9 DEF LeaseInv
<1> QED
  BY <1>1, <1>2

LEMMA LeaseStep ==
    ASSUME LeaseInv, [Next]_vars, Timely
    PROVE  LeaseInv'
<1>0. SeedInv'
  BY SeedKept DEF LeaseInv
<1>1. CASE \E r \in Role : RunStep(r) \/ RunFault(r) \/ Supervise(r)
  BY <1>0, <1>1, QuietLease, SendingLease, GiveUpLease, RowLease DEF RunStep, RunFault, Supervise
<1>2. CASE SourceStep \/ TargetStep
  BY <1>0, <1>2, QuietLease, SendingLease DEF SourceStep, TargetStep, Role
<1>3. CASE ServeRequest
  BY <1>0, <1>3, ServeLease
<1>4. CASE (\E o \in OperatorOutcomes : OperatorEnds(o)) \/ Reap \/ Tick \/ UNCHANGED vars
  BY <1>0, <1>4, RowLease
<1> QED
  BY <1>1, <1>2, <1>3, <1>4 DEF Next

LEMMA LeaseStart == Init => LeaseInv
<1> SUFFICES ASSUME Init PROVE LeaseInv
  OBVIOUS
<1>1. Sides /\ Sent /\ Uploads
  BY PhaseValues DEF Init, Sides, Sent, Asked, Archives, Uploads, Role
<1>2. Work
  BY DEF Init, Work, AtWork
<1> QED
  BY <1>1, <1>2, SeedStart DEF LeaseInv

\* The daily reaper never ends a job that a side is at work on
\* (reapStaleSeedJobs against SeedJobLeaseSupervisor), for every lease and
\* grace: whoever works holds the lease, and neither a request that arrives
\* late, nor a run that starts over, nor the handover takes it away.  What the
\* timers promise (Timely) is only that a supervisor that is on, and that the
\* server would answer, renews before the lease is out.
THEOREM HealthyJobNotReaped ==
    ASSUME Timely
    PROVE  Spec => []HealthyNotReaped
<1>1. LeaseInv /\ [Next]_vars => LeaseInv'
  BY LeaseStep
<1>2. LeaseInv => HealthyNotReaped
  <2>1. SUFFICES ASSUME LeaseInv, Running, Stale, NEW r \in Role, AtWork(r)
                 PROVE  FALSE
    BY DEF HealthyNotReaped
  <2>2. owner = r /\ age < LeaseTTL
    BY <2>1 DEF LeaseInv, Work, Running
  <2>3. owner # None
    BY <2>2, ConstantsAssumption
  <2> QED
    BY <2>1, <2>2, <2>3, ConstantsAssumption DEF Stale, Lapsed
<1> QED
  BY <1>1, <1>2, LeaseStart, PTL DEF Spec
-----------------------------------------------------------------------------
(* The report queue                                                        *)

WithinLimit == {s \in Seq(RunReport) : Len(s) <= MaxEntries}

BoundInv == file \in WithinLimit /\ lines \in [Flush -> WithinLimit]

\* The newest MaxEntries lines of the file are lines of the file.
LEMMA TrimBounds ==
    ASSUME NEW s \in Seq(RunReport)
    PROVE  Reports!Trim(s) \in WithinLimit
<1> DEFINE n == Len(s)
<1>1. MaxEntries \in Nat \ {0} /\ n \in Nat
  BY LimitsAssumption DEF Reports!Limits
<1>2. CASE n > MaxEntries
  <2>1. /\ SubSeq(s, n - MaxEntries + 1, n) \in Seq(RunReport)
        /\ Len(SubSeq(s, n - MaxEntries + 1, n)) = n - (n - MaxEntries + 1) + 1
    BY <1>1, <1>2, SubSeqProperties
  <2> QED
    BY <1>1, <1>2, <2>1 DEF Reports!Trim, WithinLimit
<1>3. CASE ~(n > MaxEntries)
  BY <1>1, <1>3 DEF Reports!Trim, WithinLimit
<1> QED
  BY <1>2, <1>3

LEMMA TailBounds ==
    ASSUME NEW s \in WithinLimit, s # <<>>
    PROVE  Tail(s) \in WithinLimit
<1>1. /\ Tail(s) \in Seq(RunReport)
      /\ Len(Tail(s)) = Len(s) - 1
  BY HeadTailProperties DEF WithinLimit
<1> QED
  BY <1>1, LimitsAssumption DEF WithinLimit, Reports!Limits

LEMMA EmptyBounds == <<>> \in WithinLimit
  BY EmptySeq, LimitsAssumption DEF WithinLimit, Reports!Limits

LEMMA BoundStep ==
    ASSUME BoundInv, Reports!Next
    PROVE  BoundInv'
<1> USE DEF BoundInv
<1>1. ASSUME NEW r \in RunReport, Reports!StartReport(r) \/ Reports!ReportDelivered(r)
      PROVE  BoundInv'
  BY <1>1 DEF Reports!StartReport, Reports!ReportDelivered
<1>2. ASSUME NEW r \in RunReport, Reports!ReportFails(r)
      PROVE  BoundInv'
  <2>1. Append(file, r) \in Seq(RunReport)
    BY AppendProperties DEF WithinLimit
  <2>2. Reports!Trim(Append(file, r)) \in WithinLimit
    BY <2>1, TrimBounds
  <2> QED
    BY <1>2, <2>2 DEF Reports!ReportFails
<1>3. ASSUME NEW f \in Flush, Reports!StartFlush(f) \/ Reports!Boot(f)
      PROVE  BoundInv'
  BY <1>3 DEF Reports!StartFlush, Reports!Boot
<1>4. ASSUME NEW f \in Flush, Reports!FlushDelivers(f)
      PROVE  BoundInv'
  <2>1. Tail(lines[f]) \in WithinLimit
    BY <1>4, TailBounds DEF Reports!FlushDelivers, Reports!Idle
  <2> QED
    BY <1>4, <2>1, EmptyBounds DEF Reports!FlushDelivers
<1>5. ASSUME NEW f \in Flush, Reports!FlushFails(f)
      PROVE  BoundInv'
  BY <1>5, EmptyBounds DEF Reports!FlushFails, Reports!Remaining
<1>6. CASE Reports!Crash
  BY <1>6, EmptyBounds DEF Reports!Crash
<1>7. CASE Reports!BootUnregistered
  BY <1>7 DEF Reports!BootUnregistered
<1> QED
  BY <1>1, <1>2, <1>3, <1>4, <1>5, <1>6, <1>7 DEF Reports!Next

LEMMA BoundStart == Reports!Init => BoundInv
  BY EmptyBounds DEF Reports!Init, BoundInv

\* The queue file never outgrows MAX_ENTRIES (trim, writeLines and flush in
\* report-queue.ts), however appends, flushes and crashes interleave.
THEOREM QueueStaysBounded == Reports!Spec => []Reports!QueueBounded
<1>1. BoundInv /\ [Reports!Next]_(Reports!vars) => BoundInv'
  BY BoundStep DEF Reports!vars, BoundInv
<1>2. BoundInv => Reports!QueueBounded
  BY DEF BoundInv, WithinLimit, Reports!QueueBounded
<1> QED
  BY <1>1, <1>2, BoundStart, PTL DEF Reports!Spec

-----------------------------------------------------------------------------
(* Deploys                                                                 *)

Shown == Deploys!ToSet(history)

Timed == ScriptTimeout + HealthTimeout

\* The table, and the agent, keep their types.
TableType ==
    /\ history \in Seq(Job) /\ Len(history) <= HistoryLimit
    /\ status \in [Job -> {"new"} \cup Deploys!Active \cup Deploys!Outcome]
    /\ claimAge \in [Job -> 0 .. StaleAfter + 1 \cup {None}]
    /\ recorded \subseteq Job

AgentType ==
    /\ agent \in [at : {"idle", "peeked", "script", "health", "complete"},
                  job : Job \cup {None}, ticks : 0 .. Timed]
    /\ outcome \in Deploys!Outcome \cup {None}
    /\ attempts \in 0 .. MaxAttempts

\* An agent that is busy is busy with a job, and knows its outcome when it
\* records one.
Busy ==
    /\ agent.at # "idle" => agent.job \in Job
    /\ agent.at = "complete" => outcome \in Deploys!Outcome

\* No timeout is exceeded.
InTime == agent.at # "idle" => agent.ticks <= Deploys!Limit

\* One deploy is active.
OneActive ==
    \A i, j \in Shown :
        status[i] \in Deploys!Active /\ status[j] \in Deploys!Active => i = j

\* The job at work is claimed, for no longer than the agent works on it.
OwnClaim ==
    /\ agent.at \in {"script", "health"} => agent.job \in Shown /\ status[agent.job] = "running"
    /\ agent.at = "script" => claimAge[agent.job] \in 0 .. agent.ticks
    /\ agent.at = "health" => claimAge[agent.job] \in 0 .. ScriptTimeout + agent.ticks

DeployInv == TableType /\ AgentType /\ Busy /\ InTime /\ OneActive /\ OwnClaim

LEMMA ShownJobs == TableType => Shown \subseteq Job
  BY DEF TableType, Shown, Deploys!ToSet

\* The claim of the job at work is not stale.
LEMMA AtWorkFresh ==
    ASSUME DeployInv, agent.at \in {"script", "health"}
    PROVE  /\ agent.job \in Job /\ agent.job \in Shown
           /\ ~Deploys!Stale(agent.job)
           /\ status[agent.job] = "running"
<1>1. claimAge[agent.job] \in 0 .. ScriptTimeout + HealthTimeout
  BY DeploysAssumption
     DEF DeployInv, OwnClaim, InTime, AgentType, Deploys!Limit, Timed
<1> QED
  BY <1>1, TimeoutsAssumption, DeploysAssumption
     DEF DeployInv, OwnClaim, Busy, Deploys!Stale

\* Reaping gives no job at work back and makes none active.
LEMMA ReapedTable ==
    ASSUME DeployInv
    PROVE  /\ Deploys!Reaped \in [Job -> {"new"} \cup Deploys!Active \cup Deploys!Outcome]
           /\ Deploys!ReapedAge \in [Job -> 0 .. StaleAfter + 1 \cup {None}]
           /\ \A j \in Job : Deploys!Reaped[j] \in Deploys!Active <=> status[j] \in Deploys!Active
           /\ agent.at \in {"script", "health"} =>
                 /\ Deploys!Reaped[agent.job] = "running"
                 /\ Deploys!ReapedAge[agent.job] = claimAge[agent.job]
<1>1. \A j \in Job : Deploys!Stale(j) => status[j] = "running"
  BY DEF Deploys!Stale
<1> QED
  BY <1>1, AtWorkFresh DEF DeployInv, TableType, Deploys!Reaped, Deploys!ReapedAge, Deploys!Active

LEMMA TrimmedHistory ==
    ASSUME TableType, NEW j \in Job, history' = Deploys!Trim(<<j>> \o history)
    PROVE  /\ history' \in Seq(Job) /\ Len(history') <= HistoryLimit
           /\ Shown' \subseteq Shown \cup {j}
<1> DEFINE s == <<j>> \o history
           n == IF Len(s) > HistoryLimit THEN HistoryLimit ELSE Len(s)
<1>1. /\ s \in Seq(Job) /\ Len(s) = 1 + Len(history)
      /\ \A i \in 1 .. Len(s) : s[i] = IF i <= 1 THEN j ELSE history[i - 1]
  <2> DEFINE one == <<j>>
  <2>1. one \in Seq(Job) /\ Len(one) = 1 /\ one[1] = j /\ history \in Seq(Job)
    BY DEF TableType
  <2> HIDE DEF one
  <2>2. /\ one \o history \in Seq(Job)
        /\ Len(one \o history) = Len(one) + Len(history)
        /\ \A i \in 1 .. Len(one) + Len(history) :
              (one \o history)[i] = IF i <= Len(one) THEN one[i] ELSE history[i - Len(one)]
    BY <2>1, ConcatProperties
  <2>3. s = one \o history
    BY DEF one
  <2> HIDE DEF s
  <2>4. \A i \in 1 .. Len(s) : s[i] = IF i <= 1 THEN j ELSE history[i - 1]
    BY <2>1, <2>2, <2>3
  <2> QED
    BY <2>1, <2>2, <2>3, <2>4
<1>2. n \in Nat /\ n <= HistoryLimit /\ n <= Len(s)
  BY <1>1, DeploysAssumption
<1>3. history' = SubSeq(s, 1, n)
  BY DEF Deploys!Trim
<1> HIDE DEF s, n
<1>4. \A i \in 1 .. n : s[i] \in Job
  BY <1>1, <1>2
<1>5. /\ history' \in Seq(Job)
      /\ Len(history') = IF 1 <= n THEN n - 1 + 1 ELSE 0
      /\ \A i \in 1 .. n - 1 + 1 : history'[i] = s[1 + i - 1]
  BY <1>2, <1>3, <1>4, SubSeqProperties
<1>6. Len(history') = n /\ \A i \in 1 .. n : history'[i] = s[i]
  BY <1>2, <1>5
<1>7. \A i \in DOMAIN history' : history'[i] = j \/ \E k \in DOMAIN history : history'[i] = history[k]
  <2>1. DOMAIN history' = 1 .. n /\ DOMAIN history = 1 .. Len(history) /\ Len(history) \in Nat
    BY <1>5, <1>6 DEF TableType
  <2> SUFFICES ASSUME NEW i \in 1 .. n
               PROVE  history'[i] = j \/ \E k \in 1 .. Len(history) : history'[i] = history[k]
    BY <2>1
  <2>2. i \in 1 .. Len(s) /\ history'[i] = s[i]
    BY <1>1, <1>2, <1>6
  <2>3. i > 1 => i - 1 \in 1 .. Len(history)
    BY <1>1, <2>1, <2>2
  <2> QED
    BY <1>1, <2>2, <2>3
<1>8. Shown' \subseteq Shown \cup {j}
  BY <1>7 DEF Shown, Deploys!ToSet
<1> QED
  BY <1>2, <1>5, <1>6, <1>8

LEMMA DeployTable ==
    ASSUME DeployInv, Deploys!Look \/ \E j \in Job : Deploys!Request(j) \/ Deploys!Peek(j)
    PROVE  DeployInv'
<1> USE DEF DeployInv
<1>1. CASE Deploys!Look \/ \E j \in Job : Deploys!Peek(j)
  <2>1. /\ status' = Deploys!Reaped /\ claimAge' = Deploys!ReapedAge
        /\ UNCHANGED <<history, outcome, attempts, recorded>>
    BY <1>1 DEF Deploys!Look, Deploys!Peek
  <2>2. \/ agent' = agent
        \/ \E j \in Job : agent.at = "idle" /\ agent' = [at |-> "peeked", job |-> j, ticks |-> 0]
    BY <1>1 DEF Deploys!Look, Deploys!Peek, Deploys!At, Deploys!Idle
  <2>3. TableType' /\ Shown' = Shown
    BY <2>1, ReapedTable DEF TableType, Shown
  <2>4. AgentType' /\ Busy' /\ InTime'
    BY <2>1, <2>2, DeploysAssumption DEF AgentType, Busy, InTime, Deploys!Limit, Timed
  <2>5. OneActive'
    BY <2>1, <2>3, ReapedTable, ShownJobs DEF OneActive
  <2>6. OwnClaim'
    BY <2>1, <2>2, <2>3, ReapedTable DEF OwnClaim
  <2> QED
    BY <2>3, <2>4, <2>5, <2>6
<1>2. ASSUME NEW j \in Job, Deploys!Request(j)
      PROVE  DeployInv'
  <2>1. /\ \A i \in Shown : status[i] \notin Deploys!Active
        /\ status' = [status EXCEPT ![j] = "pending"]
        /\ history' = Deploys!Trim(<<j>> \o history)
        /\ UNCHANGED <<claimAge, agent, outcome, attempts, recorded>>
    BY <1>2 DEF Deploys!Request, Shown
  <2>2. TableType' /\ Shown' \subseteq Shown \cup {j}
    BY <2>1, TrimmedHistory DEF TableType, Deploys!Active
  <2>3. AgentType' /\ Busy' /\ InTime'
    BY <2>1 DEF AgentType, Busy, InTime, Deploys!Limit
  <2>4. OneActive'
    BY <2>1, <2>2, ShownJobs DEF OneActive, TableType
  <2>5. agent.at \notin {"script", "health"}
    BY <2>1, AtWorkFresh DEF Deploys!Active
  <2> QED
    BY <2>1, <2>2, <2>3, <2>4, <2>5 DEF OwnClaim
<1> QED
  BY <1>1, <1>2

\* The agent claims its job, or loses the claim.
LEMMA DeployClaim ==
    ASSUME DeployInv, NEW j \in Job, Deploys!Claim(j) \/ Deploys!ClaimLost(j)
    PROVE  DeployInv'
<1> USE DEF DeployInv
<1>1. /\ agent.at = "peeked" /\ agent.job = j
      /\ UNCHANGED <<history, outcome, attempts, recorded>>
  BY DEF Deploys!Claim, Deploys!ClaimLost
<1>2. \/ UNCHANGED <<status, claimAge>>
      \/ /\ status[j] = "pending"
         /\ status' = [status EXCEPT ![j] = "running"]
         /\ claimAge' = [claimAge EXCEPT ![j] = 0]
  BY DEF Deploys!Claim, Deploys!ClaimLost
<1>3. \/ agent' = Deploys!Idle
      \/ agent' = Deploys!At("script", j) /\ j \in Shown /\ ~UNCHANGED <<status, claimAge>>
  BY DEF Deploys!Claim, Deploys!ClaimLost, Shown, TableType
<1>4. TableType' /\ Shown' = Shown
  BY <1>1, <1>2, DeploysAssumption DEF TableType, Shown, Deploys!Active
<1>5. AgentType' /\ Busy' /\ InTime'
  BY <1>1, <1>3, DeploysAssumption
     DEF AgentType, Busy, InTime, Deploys!Limit, Timed, Deploys!Idle, Deploys!At
<1>6. OneActive'
  BY <1>2, <1>4, ShownJobs DEF OneActive, Deploys!Active, TableType
<1>7. OwnClaim'
  BY <1>2, <1>3, <1>4 DEF OwnClaim, TableType, Deploys!Idle, Deploys!At
<1> QED
  BY <1>4, <1>5, <1>6, <1>7

\* The script and the wait for health end.
LEMMA DeployWorks ==
    ASSUME DeployInv, NEW j \in Job, Deploys!ScriptEnds(j) \/ Deploys!HealthEnds(j)
    PROVE  DeployInv'
<1> USE DEF DeployInv
<1>1. UNCHANGED <<history, status, claimAge, attempts, recorded>>
  BY DEF Deploys!ScriptEnds, Deploys!HealthEnds
<1>2. agent.at \in {"script", "health"} /\ agent.job = j
  BY DEF Deploys!ScriptEnds, Deploys!HealthEnds
<1>3. \/ /\ agent.at = "script" /\ outcome' = None
         /\ agent' = [at |-> "health", job |-> j, ticks |-> 0]
      \/ /\ outcome' \in Deploys!Outcome
         /\ agent' = [at |-> "complete", job |-> j, ticks |-> 0]
  BY DEF Deploys!ScriptEnds, Deploys!HealthEnds, Deploys!At, Deploys!Outcome
<1>4. TableType' /\ Shown' = Shown /\ OneActive'
  BY <1>1 DEF TableType, Shown, OneActive
<1>5. AgentType' /\ Busy' /\ InTime'
  BY <1>1, <1>3, DeploysAssumption DEF AgentType, Busy, InTime, Deploys!Limit, Timed
<1>6. OwnClaim'
  <2>1. agent.at = "script" => claimAge[j] \in 0 .. ScriptTimeout
    BY <1>2, DeploysAssumption DEF OwnClaim, InTime, Deploys!Limit, AgentType, Timed
  <2> QED
    BY <1>1, <1>2, <1>3, <1>4, <2>1, DeploysAssumption DEF OwnClaim
<1> QED
  BY <1>4, <1>5, <1>6

\* The outcome is recorded, refused or lost, or the agent is killed.
LEMMA DeployCompletes ==
    ASSUME DeployInv,
           \/ \E j \in Job :
                 Deploys!Complete(j) \/ Deploys!CompleteRefused(j) \/ Deploys!CompleteLost(j)
           \/ Deploys!Kill
    PROVE  DeployInv'
<1> USE DEF DeployInv
<1>1. UNCHANGED <<history, claimAge>>
  BY DEF Deploys!Complete, Deploys!CompleteRefused, Deploys!CompleteLost, Deploys!Kill
<1>2. \/ UNCHANGED <<status, recorded>>
      \/ /\ agent.at = "complete"
         /\ status' = [status EXCEPT ![agent.job] = outcome]
         /\ recorded' = recorded \cup {agent.job}
  BY DEF Deploys!Complete, Deploys!CompleteRefused, Deploys!CompleteLost, Deploys!Kill,
         Deploys!Record
<1>3. \/ agent' = Deploys!Idle /\ outcome' = None /\ attempts' = 0
      \/ /\ agent.at = "complete" /\ agent' = [agent EXCEPT !.ticks = 0]
         /\ attempts + 1 < MaxAttempts /\ attempts' = attempts + 1 /\ outcome' = outcome
  BY DEF Deploys!Complete, Deploys!CompleteRefused, Deploys!CompleteLost, Deploys!Kill,
         Deploys!AgentDone, Deploys!TryAgain
<1>4. TableType' /\ Shown' = Shown
  BY <1>1, <1>2 DEF TableType, Shown, Busy
<1>5. AgentType' /\ Busy' /\ InTime'
  <2>1. CASE agent' = Deploys!Idle /\ outcome' = None /\ attempts' = 0
    BY <2>1, DeploysAssumption DEF AgentType, Busy, InTime, Deploys!Idle, Timed
  <2>2. CASE /\ agent.at = "complete" /\ agent' = [agent EXCEPT !.ticks = 0]
             /\ attempts + 1 < MaxAttempts /\ attempts' = attempts + 1 /\ outcome' = outcome
    <3>1. agent'.at = "complete" /\ agent'.job = agent.job /\ agent'.ticks = 0
      BY <2>2 DEF AgentType
    <3>2. AgentType'
      BY <2>2, DeploysAssumption DEF AgentType, Timed
    <3> QED
      BY <2>2, <3>1, <3>2 DEF Busy, InTime, Deploys!Limit
  <2> QED
    BY <1>3, <2>1, <2>2
<1>6. OneActive'
  BY <1>2, <1>4, ShownJobs DEF OneActive, TableType, Busy, Deploys!Active, Deploys!Outcome
<1>7. OwnClaim'
  BY <1>3 DEF OwnClaim, Deploys!Idle, AgentType
<1> QED
  BY <1>4, <1>5, <1>6, <1>7

LEMMA DeployTick ==
    ASSUME DeployInv, Deploys!Tick
    PROVE  DeployInv'
<1> USE DEF DeployInv
<1>1. /\ agent = Deploys!Idle \/ agent.ticks < Deploys!Limit
      /\ claimAge' = [j \in Job |-> IF Deploys!Ageing(j) THEN claimAge[j] + 1 ELSE claimAge[j]]
      /\ agent' = IF agent = Deploys!Idle THEN agent ELSE [agent EXCEPT !.ticks = @ + 1]
      /\ UNCHANGED <<history, status, outcome, attempts, recorded>>
  BY DEF Deploys!Tick
<1>2. TableType' /\ Shown' = Shown /\ OneActive'
  <2>1. \A j \in Job : claimAge'[j] \in 0 .. StaleAfter + 1 \cup {None}
    BY <1>1, DeploysAssumption DEF TableType, Deploys!Ageing
  <2> QED
    BY <1>1, <2>1 DEF TableType, Shown, OneActive
<1>3. CASE agent = Deploys!Idle
  BY <1>1, <1>2, <1>3 DEF AgentType, Busy, InTime, OwnClaim, Deploys!Idle
<1>4. CASE agent # Deploys!Idle
  <2>1. /\ agent'.at = agent.at /\ agent'.job = agent.job /\ agent'.ticks = agent.ticks + 1
        /\ agent.ticks \in Nat /\ agent.ticks < Deploys!Limit
    BY <1>1, <1>4 DEF AgentType, Timed
  <2>2. AgentType' /\ Busy' /\ InTime'
    <3>1. Deploys!Limit \in 0 .. Timed
      BY DeploysAssumption DEF Deploys!Limit, AgentType, Timed
    <3>2. Deploys!Limit' = Deploys!Limit
      BY <2>1 DEF Deploys!Limit
    <3>3. agent' \in [at : {"idle", "peeked", "script", "health", "complete"},
                      job : Job \cup {None}, ticks : 0 .. Timed]
      BY <1>1, <1>4, <2>1, <3>1, DeploysAssumption DEF AgentType, Timed
    <3> QED
      BY <1>1, <2>1, <3>1, <3>2, <3>3 DEF AgentType, Busy, InTime, Timed
  <2>3. OwnClaim'
    <3>1. \A j \in Job : claimAge'[j] \in {claimAge[j], claimAge[j] + 1}
      BY <1>1
    <3>2. agent.at \in {"script", "health"} => agent.job \in Job
      BY DEF Busy
    <3> QED
      BY <1>1, <1>2, <2>1, <3>1, <3>2, DeploysAssumption DEF OwnClaim
  <2> QED
    BY <1>2, <2>2, <2>3
<1> QED
  BY <1>3, <1>4

LEMMA DeployStep ==
    ASSUME DeployInv, Deploys!Next
    PROVE  DeployInv'
  BY DeployTable, DeployClaim, DeployWorks, DeployCompletes, DeployTick
     DEF Deploys!Next, Deploys!AgentStep

LEMMA DeployStart == Deploys!Init => DeployInv
<1> SUFFICES ASSUME Deploys!Init PROVE DeployInv
  OBVIOUS
<1>1. history \in Seq(Job) /\ Len(history) = 0 /\ Shown = {}
  BY DEF Deploys!Init, Shown, Deploys!ToSet
<1> QED
  BY <1>1, DeploysAssumption
     DEF Deploys!Init, DeployInv, TableType, AgentType, Busy, InTime, OneActive, OwnClaim, Timed,
         Deploys!Idle, Deploys!Active, Deploys!Outcome

LEMMA DeployHolds == DeployInv => Deploys!TypeOK /\ Deploys!AtWorkIsClaimed
<1> SUFFICES ASSUME DeployInv PROVE Deploys!TypeOK /\ Deploys!AtWorkIsClaimed
  OBVIOUS
<1>1. history \in Deploys!BoundedSeq(Job, HistoryLimit)
  <2>1. Len(history) \in 0 .. HistoryLimit /\ history \in [1 .. Len(history) -> Job]
    BY DeploysAssumption DEF DeployInv, TableType
  <2> QED
    BY <2>1 DEF Deploys!BoundedSeq, Deploys!SeqOf
<1>2. Deploys!TypeOK
  BY <1>1 DEF DeployInv, TableType, AgentType, Timed, Deploys!TypeOK
<1>3. Deploys!AtWorkIsClaimed
  BY DEF DeployInv, OwnClaim, OneActive, Shown, Deploys!AtWorkIsClaimed, Deploys!Active
<1> QED
  BY <1>2, <1>3

-----------------------------------------------------------------------------
(* Live progress                                                           *)

Run == 1 .. Runs
Final == MaxReports + 1
Stages == 1 .. Final

ReporterType ==
    /\ latest \in [Run -> 0 .. Final]
    /\ dirty \in [Run -> BOOLEAN]
    /\ sending \in [Run -> BOOLEAN]
    /\ timer \in [Run -> BOOLEAN]
    /\ flight \in [Run -> [Stages -> {0, 1}]]
    /\ answered \in [Run -> BOOLEAN]
    /\ handed \in [Run -> 0 .. Final]
    /\ gone \subseteq Run

\* A state is sent once: what nobody has observed yet, and what was put off,
\* is in no send.
SentOnce ==
    \A r \in Run :
        /\ dirty[r] => latest[r] # 0
        /\ \A s \in Stages :
              s > latest[r] \/ (dirty[r] /\ s = latest[r]) => flight[r][s] = 0

RegistryInv == registry \in [Run -> 0 .. MaxReports] /\ Progress!RegistryBounded

ProgressInv == ReporterType /\ SentOnce /\ RegistryInv

LEMMA ProgressConstants ==
    /\ Runs \in Nat /\ MaxReports \in Nat /\ RegistryLimit \in Nat
    /\ Progress!Run = Run /\ Progress!Final = Final /\ Progress!State = Stages
  BY ProgressAssumption
     DEF Progress!Run, Progress!Final, Progress!State, Run, Final, Stages

LEMMA Counting == \A S : Progress!Cardinality(S) = Cardinality(S)
  BY DEF Progress!Cardinality, Cardinality

LEMMA LeastElement ==
    ASSUME NEW T \in SUBSET Nat, T # {}
    PROVE  Progress!Min(T) \in T
<1>1. PICK x \in T : \A y \in T : <<y, x>> \notin OpToRel(<, Nat)
  BY WFMin, NatLessThanWellFounded, Zenon
<1>2. \A y \in T : ~(y < x)
  BY <1>1, Zenon DEF OpToRel
<1>3. \E z \in T : \A y \in T : z =< y
  BY <1>2
<1> QED
  BY <1>3 DEF Progress!Min

\* One run's state is set in a registry within its limit, and the limit is
\* enforced; or one is cleared.
LEMMA CappedRegistry ==
    ASSUME RegistryInv, NEW r \in Run, NEW s \in 0 .. MaxReports,
           \/ registry' = Progress!Capped([registry EXCEPT ![r] = s])
           \/ s = 0 /\ registry' = [registry EXCEPT ![r] = s]
    PROVE  RegistryInv'
<1> DEFINE old == {q \in Run : registry[q] # 0}
           g == [registry EXCEPT ![r] = s]
           shown == {q \in Run : g[q] # 0}
<1>1. /\ registry \in [Run -> 0 .. MaxReports] /\ g \in [Run -> 0 .. MaxReports]
      /\ Cardinality(old) <= RegistryLimit
      /\ Runs \in Nat /\ RegistryLimit \in Nat /\ MaxReports \in Nat
  BY Counting, ProgressConstants DEF RegistryInv, Progress!RegistryBounded
<1>2. IsFiniteSet(Run) /\ IsFiniteSet(old) /\ IsFiniteSet(shown)
  <2>1. IsFiniteSet(Run)
    BY <1>1, FS_Interval DEF Run
  <2> QED
    BY <2>1, FS_Subset
<1>3. Cardinality(shown) <= RegistryLimit + 1 /\ Cardinality(shown) \in Nat
  <2>1. shown \in SUBSET (old \cup {r})
    BY <1>1
  <2> HIDE DEF old, shown
  <2>4. Cardinality(old) \in Nat
    BY <1>2, FS_CardinalityType
  <2>2. IsFiniteSet(old \cup {r}) /\ Cardinality(old \cup {r}) <= Cardinality(old) + 1
    <3>1. /\ IsFiniteSet(old \cup {r})
          /\ Cardinality(old \cup {r}) = IF r \in old THEN Cardinality(old) ELSE Cardinality(old) + 1
      BY <1>2, FS_AddElement, Zenon
    <3> QED
      BY <2>4, <3>1
  <2>3. Cardinality(shown) <= Cardinality(old \cup {r})
    BY <2>1, <2>2, FS_Subset
  <2>5. Cardinality(shown) \in Nat /\ Cardinality(old \cup {r}) \in Nat
    BY <1>2, <2>2, FS_CardinalityType
  <2> QED
    BY <1>1, <2>2, <2>3, <2>4, <2>5
<1>4. CASE registry' = g /\ Cardinality(shown) <= RegistryLimit
  BY <1>1, <1>4, Counting, ProgressConstants DEF RegistryInv, Progress!RegistryBounded
<1>5. CASE s = 0
  <2>1. shown \in SUBSET old
    BY <1>1, <1>5
  <2>2. Cardinality(shown) <= Cardinality(old) /\ Cardinality(old) \in Nat
    BY <1>2, <2>1, FS_Subset, FS_CardinalityType
  <2>3. Cardinality(shown) <= RegistryLimit
    BY <1>1, <1>3, <2>2
  <2>4. registry' = g
    BY <2>3, <1>1, <1>3, Counting, ProgressConstants DEF Progress!Capped
  <2> QED
    BY <1>4, <2>3, <2>4
<1>6. CASE Cardinality(shown) > RegistryLimit /\ registry' = Progress!Capped(g)
  <2> DEFINE first == Progress!Min(shown)
  <2>0. Cardinality(shown) # 0
    BY <1>1, <1>3, <1>6
  <2>1. shown # {} /\ shown \in SUBSET Nat
    BY <2>0, FS_EmptySet DEF Run
  <2>2. first \in shown
    BY <2>1, LeastElement
  <2>3. registry' = [g EXCEPT ![first] = 0]
    BY <1>6, Counting, ProgressConstants DEF Progress!Capped
  <2> HIDE DEF first, g
  <2>4. /\ registry' \in [Run -> 0 .. MaxReports]
        /\ {q \in Run : registry'[q] # 0} = shown \ {first}
    BY <1>1, <2>2, <2>3
  <2>5. Cardinality(shown \ {first}) = Cardinality(shown) - 1
    <3> HIDE DEF shown
    <3> QED
      BY <1>2, <2>2, FS_RemoveElement
  <2>6. Cardinality({q \in Run : registry'[q] # 0}) <= RegistryLimit
    <3> HIDE DEF shown
    <3>1. Cardinality(shown \ {first}) <= RegistryLimit
      BY <1>1, <1>3, <2>5
    <3> QED
      BY <2>4, <3>1
  <2> QED
    BY <2>4, <2>6, Counting, ProgressConstants DEF RegistryInv, Progress!RegistryBounded
<1>7. CASE Cardinality(shown) <= RegistryLimit /\ registry' = Progress!Capped(g)
  <2>1. registry' = g
    BY <1>1, <1>3, <1>7, Counting, ProgressConstants DEF Progress!Capped
  <2> QED
    BY <1>4, <1>7, <2>1
<1> QED
  BY <1>1, <1>3, <1>5, <1>6, <1>7

LEMMA RegistryLeft == RegistryInv /\ registry' = registry => RegistryInv'
  BY DEF RegistryInv, Progress!RegistryBounded, Progress!Run

LEMMA UpsertedRegistry ==
    ASSUME RegistryInv, NEW r \in Run, NEW s \in Stages,
           registry' \in {registry, Progress!Upserted(r, s)}
    PROVE  RegistryInv'
<1>1. CASE registry' = registry
  BY <1>1, RegistryLeft
<1>2. CASE s = Final /\ registry' = Progress!Upserted(r, s)
  <2>1. registry' = [registry EXCEPT ![r] = 0] /\ 0 \in 0 .. MaxReports
    BY <1>2, ProgressConstants DEF Progress!Upserted
  <2> QED
    BY <2>1, CappedRegistry
<1>3. CASE s # Final /\ registry' = Progress!Upserted(r, s)
  <2>1. registry' = Progress!Capped([registry EXCEPT ![r] = s]) /\ s \in 0 .. MaxReports
    BY <1>3, ProgressConstants DEF Progress!Upserted, Stages, Final
  <2> QED
    BY <2>1, CappedRegistry
<1> QED
  BY <1>1, <1>2, <1>3

LEMMA EmptyRegistry ==
    ASSUME registry' = [r \in Run |-> 0]
    PROVE  RegistryInv'
<1>1. {q \in Run : registry'[q] # 0} = {}
  OBVIOUS
<1>2. Cardinality({q \in Run : registry'[q] # 0}) <= RegistryLimit
  BY <1>1, FS_EmptySet, ProgressConstants
<1> QED
  BY <1>2, Counting, ProgressConstants DEF RegistryInv, Progress!RegistryBounded

\* What a step of run r's reporter does to it: its newest state l goes out or
\* is put off, other sends of it are f.
LEMMA ReporterStep ==
    ASSUME ReporterType, SentOnce, NEW r \in Run, NEW l \in 0 .. Final, l >= latest[r],
           NEW f \in [Stages -> {0, 1}],
           \A s \in Stages : f[s] = 1 => flight[r][s] = 1,
           latest' = [latest EXCEPT ![r] = l],
           \E b \in BOOLEAN : sending' = [sending EXCEPT ![r] = b],
           \E b \in BOOLEAN : timer' = [timer EXCEPT ![r] = b],
           answered' \in [Run -> BOOLEAN], gone' \subseteq Run,
           \/ \* it goes out
              /\ l # 0 /\ (l > latest[r] \/ dirty[r])
              /\ flight' = [flight EXCEPT ![r] = [f EXCEPT ![l] = @ + 1]]
              /\ handed' = [handed EXCEPT ![r] = l]
              /\ dirty' = [dirty EXCEPT ![r] = FALSE]
           \/ \* it does not
              /\ flight' = [flight EXCEPT ![r] = f]
              /\ handed' = handed
              /\ \/ dirty' = [dirty EXCEPT ![r] = TRUE] /\ l > latest[r]
                 \/ dirty' = [dirty EXCEPT ![r] = FALSE]
                 \/ dirty' = dirty /\ l = latest[r]
    PROVE  ReporterType' /\ SentOnce'
<1>1. l \in Nat /\ latest[r] \in Nat /\ Stages \subseteq Nat
  BY ProgressConstants DEF ReporterType, Final, Stages
<1>2. \A s \in Stages : s > latest[r] \/ (dirty[r] /\ s = latest[r]) => f[s] = 0
  BY DEF SentOnce
<1>3. CASE /\ l # 0 /\ (l > latest[r] \/ dirty[r])
           /\ flight' = [flight EXCEPT ![r] = [f EXCEPT ![l] = @ + 1]]
           /\ handed' = [handed EXCEPT ![r] = l]
           /\ dirty' = [dirty EXCEPT ![r] = FALSE]
  <2> DEFINE out == [f EXCEPT ![l] = @ + 1]
  <2>1. l \in Stages /\ l # 0
    BY <1>1, <1>3, ProgressConstants DEF Stages, Final, SentOnce
  <2>2. f[l] = 0
    BY <1>1, <1>2, <1>3, <2>1
  <2>3. out \in [Stages -> {0, 1}] /\ \A s \in Stages : s # l => out[s] = f[s]
    BY <2>1, <2>2
  <2>7. flight' = [flight EXCEPT ![r] = out]
    BY <1>3
  <2> HIDE DEF out
  <2>4. ReporterType'
    BY <1>3, <2>1, <2>3, <2>7 DEF ReporterType
  <2>5. ASSUME NEW q \in Run PROVE dirty'[q] => latest'[q] # 0
    BY <1>3, <2>5 DEF SentOnce, ReporterType
  <2>6. ASSUME NEW q \in Run, NEW s \in Stages,
               s > latest'[q] \/ (dirty'[q] /\ s = latest'[q])
        PROVE  flight'[q][s] = 0
    <3>1. CASE q # r
      BY <1>3, <2>6, <3>1 DEF SentOnce, ReporterType
    <3>2. CASE q = r
      <4>1. s > l /\ flight'[r] = out
        BY <1>3, <2>6, <2>7, <3>2 DEF ReporterType
      <4> QED
        BY <1>1, <1>2, <2>1, <2>3, <3>2, <4>1
    <3> QED
      BY <3>1, <3>2
  <2> QED
    BY <2>4, <2>5, <2>6 DEF SentOnce
<1>4. CASE /\ flight' = [flight EXCEPT ![r] = f]
           /\ handed' = handed
           /\ \/ dirty' = [dirty EXCEPT ![r] = TRUE] /\ l > latest[r]
              \/ dirty' = [dirty EXCEPT ![r] = FALSE]
              \/ dirty' = dirty /\ l = latest[r]
  <2>1. ReporterType'
    BY <1>4 DEF ReporterType
  <2>2. ASSUME NEW q \in Run PROVE dirty'[q] => latest'[q] # 0
    BY <1>1, <1>4, <2>2 DEF SentOnce, ReporterType
  <2>3. ASSUME NEW q \in Run, NEW s \in Stages,
               s > latest'[q] \/ (dirty'[q] /\ s = latest'[q])
        PROVE  flight'[q][s] = 0
    <3>1. CASE q # r
      BY <1>4, <2>3, <3>1 DEF SentOnce, ReporterType
    <3>2. CASE q = r
      <4>1. /\ flight'[r] = f /\ latest'[r] = l
            /\ s > l \/ (dirty'[r] /\ s = l)
            /\ dirty'[r] => l > latest[r] \/ (dirty[r] /\ l = latest[r])
        BY <1>4, <2>3, <3>2 DEF ReporterType
      <4> QED
        BY <1>1, <1>2, <3>2, <4>1
    <3> QED
      BY <3>1, <3>2
  <2> QED
    BY <2>1, <2>2, <2>3 DEF SentOnce
<1> QED
  BY <1>3, <1>4

LEMMA ProgressReports ==
    ASSUME ProgressInv, NEW r \in Run,
           Progress!Report(r) \/ Progress!Finish(r) \/ Progress!TimerFires(r)
    PROVE  ProgressInv'
<1> USE DEF ProgressInv
<1>1. /\ UNCHANGED <<answered, gone, registry>>
      /\ flight[r] \in [Stages -> {0, 1}]
      /\ flight' = flight => flight' = [flight EXCEPT ![r] = flight[r]]
      /\ sending' = sending => sending' = [sending EXCEPT ![r] = sending[r]]
      /\ latest[r] \in 0 .. Final /\ {sending[r], timer[r], dirty[r]} \subseteq BOOLEAN
      /\ MaxReports \in Nat
  BY ProgressConstants
     DEF ReporterType, Progress!Report, Progress!Finish, Progress!TimerFires
<1>2. PICK l \in 0 .. Final :
        /\ l >= latest[r] /\ latest' = [latest EXCEPT ![r] = l]
        /\ \/ l # 0 /\ l > latest[r]
           \/ l = latest[r] /\ Progress!TimerFires(r)
  <2>1. CASE Progress!Report(r)
    <3>1. /\ latest[r] + 1 \in 0 .. Final /\ latest[r] + 1 > latest[r] /\ latest[r] + 1 # 0
          /\ latest[r] + 1 >= latest[r]
          /\ latest' = [latest EXCEPT ![r] = latest[r] + 1]
      BY <1>1, <2>1 DEF Progress!Report, Final
    <3> QED
      BY <1>1, <3>1
  <2>2. CASE Progress!Finish(r)
    <3>1. /\ Final \in 0 .. Final /\ Final > latest[r] /\ Final # 0
          /\ Final >= latest[r]
          /\ latest' = [latest EXCEPT ![r] = Final]
      BY <1>1, <2>2, ProgressConstants DEF Progress!Finish, Final
    <3> HIDE DEF Final
    <3> QED
      BY <1>1, <3>1
  <2>3. CASE Progress!TimerFires(r)
    BY <1>1, <2>3 DEF Progress!TimerFires, ReporterType
  <2> QED
    BY <2>1, <2>2, <2>3
<1>3. \/ /\ l # 0 /\ (l > latest[r] \/ dirty[r])
         /\ Progress!TrackedSend(r, l)
      \/ /\ flight' = flight /\ handed' = handed /\ sending' = sending
         /\ \E b \in BOOLEAN : timer' = [timer EXCEPT ![r] = b]
         /\ \/ dirty' = [dirty EXCEPT ![r] = TRUE] /\ l > latest[r]
            \/ dirty' = dirty /\ l = latest[r]
  <2>1. CASE Progress!Report(r)
    <3>1. l = latest'[r] /\ l > latest[r] /\ l # 0
      BY <1>1, <1>2, <2>1 DEF ReporterType, Progress!Report
    <3> QED
      BY <1>1, <2>1, <3>1 DEF Progress!Report, Progress!Defer
  <2>2. CASE Progress!Finish(r)
    <3>1. l = Final /\ l > latest[r] /\ l # 0
      BY <1>1, <1>2, <2>2, ProgressConstants DEF Progress!Finish, ReporterType, Final
    <3> QED
      BY <1>1, <2>2, <3>1, ProgressConstants DEF Progress!Finish, Progress!Defer
  <2>3. CASE Progress!TimerFires(r)
    <3>1. l = latest[r]
      BY <1>1, <1>2, <2>3 DEF Progress!TimerFires, ReporterType
    <3>2. dirty[r] => l # 0
      BY <3>1 DEF SentOnce
    <3> QED
      BY <1>1, <2>3, <3>1, <3>2 DEF Progress!TimerFires
  <2> QED
    BY <2>1, <2>2, <2>3
<1>4. ReporterType' /\ SentOnce'
  <2>1. CASE /\ l # 0 /\ (l > latest[r] \/ dirty[r])
             /\ Progress!TrackedSend(r, l)
    <3>1. /\ flight' = [flight EXCEPT ![r] = [flight[r] EXCEPT ![l] = @ + 1]]
          /\ handed' = [handed EXCEPT ![r] = l]
          /\ dirty' = [dirty EXCEPT ![r] = FALSE]
          /\ timer' = [timer EXCEPT ![r] = FALSE]
          /\ sending' = [sending EXCEPT ![r] = TRUE]
      BY <2>1 DEF Progress!TrackedSend, Progress!Send
    <3> DEFINE f == flight[r]
    <3>2. /\ f \in [Stages -> {0, 1}]
          /\ flight' = [flight EXCEPT ![r] = [f EXCEPT ![l] = @ + 1]]
          /\ \A s \in Stages : f[s] = 1 => flight[r][s] = 1
          /\ answered' \in [Run -> BOOLEAN] /\ gone' \subseteq Run
      BY <1>1, <3>1 DEF ReporterType
    <3> HIDE DEF f
    <3> QED
      BY <1>2, <2>1, <3>1, <3>2, ReporterStep
  <2>2. CASE /\ flight' = flight /\ handed' = handed /\ sending' = sending
             /\ \E b \in BOOLEAN : timer' = [timer EXCEPT ![r] = b]
             /\ \/ dirty' = [dirty EXCEPT ![r] = TRUE] /\ l > latest[r]
                \/ dirty' = dirty /\ l = latest[r]
    <3> DEFINE f == flight[r]
    <3>2. /\ f \in [Stages -> {0, 1}]
          /\ flight' = [flight EXCEPT ![r] = f]
          /\ \A s \in Stages : f[s] = 1 => flight[r][s] = 1
          /\ answered' \in [Run -> BOOLEAN] /\ gone' \subseteq Run
          /\ \E b \in BOOLEAN : sending' = [sending EXCEPT ![r] = b]
      BY <1>1, <2>2 DEF ReporterType
    <3> HIDE DEF f
    <3> QED
      BY <1>2, <2>2, <3>2, ReporterStep
  <2> QED
    BY <1>3, <2>1, <2>2
<1>5. RegistryInv'
  BY <1>1, RegistryLeft
<1> QED
  BY <1>4, <1>5

LEMMA ProgressSends ==
    ASSUME ProgressInv, NEW r \in Run, NEW s \in Stages,
           Progress!SendDone(r, s) \/ Progress!SendFails(r, s)
    PROVE  ProgressInv'
<1> USE DEF ProgressInv
<1> DEFINE f == [flight[r] EXCEPT ![s] = @ - 1]
<1>1. /\ flight[r][s] > 0 /\ Progress!Finally(r, f)
      /\ registry' \in {registry, Progress!Upserted(r, s)}
      /\ UNCHANGED <<latest, gone>>
      /\ answered' \in [Run -> BOOLEAN]
  BY DEF ReporterType, Progress!SendDone, Progress!SendFails
<1>2. f \in [Stages -> {0, 1}] /\ \A t \in Stages : f[t] = 1 => flight[r][t] = 1
  BY <1>1 DEF ReporterType
<1> HIDE DEF f
<1> DEFINE l == latest[r]
<1>3. /\ l \in 0 .. Final /\ l >= latest[r] /\ latest' = [latest EXCEPT ![r] = l]
      /\ dirty[r] => l # 0
      /\ dirty[r] \in BOOLEAN /\ timer[r] \in BOOLEAN
      /\ timer' = timer => timer' = [timer EXCEPT ![r] = timer[r]]
      /\ sending' = [sending EXCEPT ![r] = FALSE]
      /\ gone' \subseteq Run
  BY <1>1, ProgressConstants DEF ReporterType, SentOnce, Progress!Finally, Final
<1>4. \/ /\ dirty[r]
         /\ flight' = [flight EXCEPT ![r] = [f EXCEPT ![l] = @ + 1]]
         /\ handed' = [handed EXCEPT ![r] = l]
         /\ dirty' = [dirty EXCEPT ![r] = FALSE]
         /\ timer' = [timer EXCEPT ![r] = FALSE]
      \/ /\ flight' = [flight EXCEPT ![r] = f]
         /\ UNCHANGED <<handed, dirty, timer>>
  BY <1>1 DEF Progress!Finally, Progress!Send
<1>5. ReporterType' /\ SentOnce'
  <2> HIDE DEF l
  <2>1. \E b \in BOOLEAN : sending' = [sending EXCEPT ![r] = b]
    BY <1>3
  <2>2. \E b \in BOOLEAN : timer' = [timer EXCEPT ![r] = b]
    BY <1>3, <1>4
  <2>3. l = latest[r]
    BY DEF l
  <2>4. \/ /\ l # 0 /\ (l > latest[r] \/ dirty[r])
           /\ flight' = [flight EXCEPT ![r] = [f EXCEPT ![l] = @ + 1]]
           /\ handed' = [handed EXCEPT ![r] = l]
           /\ dirty' = [dirty EXCEPT ![r] = FALSE]
        \/ /\ flight' = [flight EXCEPT ![r] = f]
           /\ handed' = handed
           /\ dirty' = dirty /\ l = latest[r]
    BY <1>3, <1>4, <2>3
  <2>5. /\ \A t \in Stages : f[t] = 1 => flight[r][t] = 1
        /\ f \in [Stages -> {0, 1}]
        /\ l \in 0 .. Final /\ l >= latest[r] /\ latest' = [latest EXCEPT ![r] = l]
        /\ answered' \in [Run -> BOOLEAN] /\ gone' \subseteq Run
    BY <1>1, <1>2, <1>3
  <2>6. CASE /\ l # 0 /\ (l > latest[r] \/ dirty[r])
             /\ flight' = [flight EXCEPT ![r] = [f EXCEPT ![l] = @ + 1]]
             /\ handed' = [handed EXCEPT ![r] = l]
             /\ dirty' = [dirty EXCEPT ![r] = FALSE]
    BY <2>1, <2>2, <2>5, <2>6, ReporterStep
  <2>7. CASE /\ flight' = [flight EXCEPT ![r] = f]
             /\ handed' = handed
             /\ dirty' = dirty /\ l = latest[r]
    BY <2>1, <2>2, <2>5, <2>7, ReporterStep
  <2> QED
    BY <2>4, <2>6, <2>7
<1>6. RegistryInv'
  BY <1>1, UpsertedRegistry
<1> QED
  BY <1>5, <1>6

LEMMA ProgressLosses ==
    ASSUME ProgressInv, \/ \E r \in Run : Progress!Crash(r) \/ Progress!Sweep(r)
                        \/ Progress!ServerRestarts
    PROVE  ProgressInv'
<1> USE DEF ProgressInv
<1>1. ASSUME NEW r \in Run, Progress!Crash(r)
      PROVE  ProgressInv'
  <2> DEFINE l == latest[r]
             f == [s \in Stages |-> 0]
  <2>1. /\ flight' = [flight EXCEPT ![r] = f]
        /\ dirty' = [dirty EXCEPT ![r] = FALSE]
        /\ timer' = [timer EXCEPT ![r] = FALSE]
        /\ sending' = [sending EXCEPT ![r] = FALSE]
        /\ gone' = gone \cup {r}
        /\ UNCHANGED <<latest, answered, handed, registry>>
    BY <1>1, ProgressConstants DEF Progress!Crash
  <2>2. /\ f \in [Stages -> {0, 1}] /\ \A s \in Stages : f[s] = 1 => flight[r][s] = 1
        /\ l = latest[r] /\ l \in 0 .. Final /\ l >= latest[r]
        /\ latest' = [latest EXCEPT ![r] = l]
        /\ answered' \in [Run -> BOOLEAN] /\ gone' \subseteq Run
    BY <2>1, ProgressConstants DEF ReporterType, Final
  <2> HIDE DEF l, f
  <2>3. ReporterType' /\ SentOnce'
    BY <2>1, <2>2, ReporterStep
  <2> QED
    BY <2>1, <2>3, RegistryLeft
<1>2. CASE UNCHANGED <<latest, dirty, sending, timer, flight, answered, handed, gone>>
  <2>1. ReporterType' /\ SentOnce'
    BY <1>2 DEF ReporterType, SentOnce
  <2>2. RegistryInv'
    <3>1. CASE \E r \in Run : registry' = [registry EXCEPT ![r] = 0]
      <4>1. 0 \in 0 .. MaxReports
        BY ProgressConstants
      <4> QED
        BY <3>1, <4>1, CappedRegistry
    <3>2. CASE registry' = [r \in Run |-> 0]
      BY <3>2, EmptyRegistry
    <3>3. CASE registry' = registry
      BY <3>3, RegistryLeft
    <3>4. \/ \E r \in Run : Progress!Crash(r)
          \/ \E r \in Run : registry' = [registry EXCEPT ![r] = 0]
          \/ registry' = [r \in Run |-> 0]
      BY ProgressConstants DEF Progress!Sweep, Progress!ServerRestarts
    <3>5. (\E r \in Run : Progress!Crash(r)) => registry' = registry
      BY DEF Progress!Crash
    <3> QED
      BY <3>1, <3>2, <3>3, <3>4, <3>5
  <2> QED
    BY <2>1, <2>2
<1>3. ASSUME NEW r \in Run, Progress!Sweep(r)
      PROVE  UNCHANGED <<latest, dirty, sending, timer, flight, answered, handed, gone>>
  BY <1>3 DEF Progress!Sweep, Progress!reporter
<1>4. CASE Progress!ServerRestarts
  BY <1>2, <1>4 DEF Progress!ServerRestarts, Progress!reporter
<1> QED
  BY <1>1, <1>2, <1>3, <1>4

LEMMA ProgressKept ==
    ASSUME ProgressInv, Progress!Next
    PROVE  ProgressInv'
<1>1. \/ \E r \in Run : Progress!Report(r) \/ Progress!Finish(r) \/ Progress!TimerFires(r)
      \/ \E r \in Run, s \in Stages : Progress!SendDone(r, s) \/ Progress!SendFails(r, s)
      \/ \E r \in Run : Progress!Crash(r) \/ Progress!Sweep(r)
      \/ Progress!ServerRestarts
  BY ProgressConstants DEF Progress!Next, Progress!SendEnds
<1> QED
  BY <1>1, ProgressReports, ProgressSends, ProgressLosses

LEMMA ProgressStart == Progress!Init => ProgressInv
<1> SUFFICES ASSUME Progress!Init PROVE ProgressInv
  OBVIOUS
<1>1. ReporterType /\ SentOnce
  BY ProgressConstants DEF Progress!Init, ReporterType, SentOnce, Final
<1>2. registry = [r \in Run |-> 0] /\ {q \in Run : registry[q] # 0} = {}
  BY ProgressConstants DEF Progress!Init
<1>3. Cardinality({q \in Run : registry[q] # 0}) <= RegistryLimit
  BY <1>2, FS_EmptySet, ProgressConstants
<1>4. RegistryInv
  BY <1>2, <1>3, Counting, ProgressConstants DEF RegistryInv, Progress!RegistryBounded
<1> QED
  BY <1>1, <1>4 DEF ProgressInv

LEMMA ProgressHolds == ProgressInv => Progress!TypeOK /\ Progress!RegistryBounded
<1> SUFFICES ASSUME ProgressInv PROVE Progress!TypeOK
  BY DEF ProgressInv, RegistryInv
<1>1. flight \in [Run -> [Stages -> 0 .. Final]]
  <2>1. {0, 1} \subseteq 0 .. Final
    BY ProgressConstants DEF Final
  <2> QED
    BY <2>1 DEF ProgressInv, ReporterType
<1> QED
  BY <1>1, ProgressConstants DEF ProgressInv, ReporterType, RegistryInv, Progress!TypeOK

-----------------------------------------------------------------------------
(* The services together                                                   *)

ServicesInv == SeedInv /\ BoundInv /\ DeployInv /\ ProgressInv

LEMMA ServicesKept ==
    ASSUME ServicesInv, [ServicesNext]_serviceVars
    PROVE  ServicesInv'
<1> USE DEF ServicesInv
<1>1. ASSUME UNCHANGED vars PROVE SeedInv'
  BY <1>1, SeedKept
<1>2. ASSUME UNCHANGED reportVars PROVE BoundInv'
  BY <1>2 DEF reportVars, BoundInv
<1>3. ASSUME UNCHANGED deployVars PROVE DeployInv'
  BY <1>3 DEF deployVars, DeployInv, TableType, AgentType, Busy, InTime, OneActive, OwnClaim, Shown,
              Deploys!Limit
<1>4. ASSUME UNCHANGED progressVars PROVE ProgressInv'
  <2>1. registry' = registry /\ ReporterType' /\ SentOnce'
    BY <1>4 DEF progressVars, ProgressInv, ReporterType, SentOnce
  <2> QED
    BY <2>1, RegistryLeft DEF ProgressInv
<1>5. CASE SeedStep
  BY <1>2, <1>3, <1>4, <1>5, SeedKept DEF SeedStep
<1>6. CASE ReportsStep
  BY <1>1, <1>3, <1>4, <1>6, BoundStep DEF ReportsStep
<1>7. CASE DeploysStep
  BY <1>1, <1>2, <1>4, <1>7, DeployStep DEF DeploysStep
<1>8. CASE ProgressStep
  BY <1>1, <1>2, <1>3, <1>8, ProgressKept DEF ProgressStep
<1>9. CASE UNCHANGED serviceVars
  BY <1>1, <1>2, <1>3, <1>4, <1>9 DEF serviceVars
<1> QED
  BY <1>5, <1>6, <1>7, <1>8, <1>9 DEF ServicesNext

\* Every variable of the four services keeps its type, which says of live
\* progress that a state of a run is in one send at most; the report file keeps
\* its limit; the deploy whose script or health is waited for is running, the
\* agent's own and the only active one (reapStaleRunningDeploys against the
\* agent's timeouts); and the display of runs keeps its cap (enforceCap): for
\* every limit, and every interleaving of lost requests, kills and restarts.
THEOREM ServicesBounded == ServicesSpec => []ServicesInvariant
<1>1. ServicesInit => ServicesInv
  BY SeedStart, BoundStart, DeployStart, ProgressStart DEF ServicesInit, ServicesInv
<1>2. ServicesInv /\ [ServicesNext]_serviceVars => ServicesInv'
  BY ServicesKept
<1>3. ServicesInv => ServicesInvariant
  BY DeployHolds, ProgressHolds
     DEF ServicesInv, SeedInv, BoundInv, WithinLimit, Reports!QueueBounded, ServicesInvariant
<1> QED
  BY <1>1, <1>2, <1>3, PTL DEF ServicesSpec

=============================================================================
