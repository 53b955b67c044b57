------------------------------ MODULE CoderJobs ------------------------------
(***************************************************************************)
(* The Jobs panel of the Coder screen (useCoderJobs.ts, JobsPanel.tsx):    *)
(* background shell jobs that runs have started, with the status each was  *)
(* last seen in. An effect asks for the status of every unfinished job,    *)
(* one after the other, at once and then every 3 s, while the panel is     *)
(* open; it starts over, and what it still waits for is ignored, whenever  *)
(* one of the values it depends on changes, the statuses among them.       *)
(*                                                                         *)
(* The jobs themselves run in the control plane: one runs, is over, or has *)
(* been forgotten. Live subagents of the panel are left out.               *)
(***************************************************************************)
EXTENDS Naturals, Sequences, SequencesExt

CONSTANTS
  ShellJobs,    \* job ids
  PanelCap,     \* 20 in the code: jobs the panel keeps
  MaxPolls,     \* bound on the rounds of questions under way at once
  MaxJobClicks  \* bound on collapses, kills and dismissals

VARIABLES
  process,    \* per job, in the control plane
  bgJobs,     \* the panel's jobs, oldest first
  jobStatus,  \* per job, what it was last seen as
  jobsOpen,   \* jobsOpen
  rounds,     \* the effect's rounds: for each the jobs it has still to ask for
  effect,     \* which effect the rounds belong to, of two in turn
  kills,      \* coderJobKill in flight
  jobClicks

jobVars == <<process, bgJobs, jobStatus, jobsOpen, rounds, effect, kills, jobClicks>>

Unseen == "unseen"

(* The unfinished jobs the effect of a render asks for.                    *)
Pending(jobs, status) == SelectSeq(jobs, LAMBDA j : status[j] # "over")

(* The effect after a render in which one of its dependencies changed.     *)
Repoll(jobs, status, open) ==
  /\ bgJobs' = jobs /\ jobStatus' = status /\ jobsOpen' = open
  /\ effect' = 1 - effect
  /\ rounds' = IF open /\ Pending(jobs, status) # <<>> THEN <<Pending(jobs, status)>> ELSE <<>>

JobsInit ==
  /\ process = [j \in ShellJobs |-> "none"] /\ bgJobs = <<>> /\ jobStatus = [j \in ShellJobs |-> Unseen]
  /\ jobsOpen = TRUE /\ rounds = <<>> /\ effect = 0 /\ kills = {} /\ jobClicks = 0

JobClick == jobClicks < MaxJobClicks /\ jobClicks' = jobClicks + 1

(* registerJob, once bash has started a job in the background: the panel   *)
(* keeps the latest ones.                                                  *)
StartJob(j) ==
  /\ process[j] = "none" /\ process' = [process EXCEPT ![j] = "runs"]
  /\ LET kept == IF Len(bgJobs) >= PanelCap THEN Tail(bgJobs) ELSE bgJobs IN
       Repoll(Append(kept, j), jobStatus, jobsOpen)
  /\ UNCHANGED <<kills, jobClicks>>

JobEnds(j) ==
  /\ process[j] = "runs" /\ process' = [process EXCEPT ![j] = "over"]
  /\ UNCHANGED <<bgJobs, jobStatus, jobsOpen, rounds, effect, kills, jobClicks>>

(* A finished job is forgotten to make room for another.                   *)
ForgetJob(j) ==
  /\ process[j] = "over" /\ process' = [process EXCEPT ![j] = "forgotten"]
  /\ UNCHANGED <<bgJobs, jobStatus, jobsOpen, rounds, effect, kills, jobClicks>>

(* The next answer of a round: a status is a new value whatever it says,   *)
(* so that the effect starts over; a question that fails goes on with the  *)
(* next job.                                                               *)
PollAnswered(i) ==
  LET j == Head(rounds[i]) IN
  /\ process[j] # "forgotten" /\ Repoll(bgJobs, [jobStatus EXCEPT ![j] = process[j]], jobsOpen)
  /\ UNCHANGED <<process, kills, jobClicks>>

PollFails(i) ==
  /\ rounds' = IF Len(rounds[i]) = 1 THEN RemoveAt(rounds, i) ELSE [rounds EXCEPT ![i] = Tail(@)]
  /\ UNCHANGED <<process, bgJobs, jobStatus, jobsOpen, effect, kills, jobClicks>>

(* The 3 s interval.                                                       *)
PollAgain ==
  /\ jobsOpen /\ Pending(bgJobs, jobStatus) # <<>> /\ Len(rounds) < MaxPolls
  /\ rounds' = Append(rounds, Pending(bgJobs, jobStatus))
  /\ UNCHANGED <<process, bgJobs, jobStatus, jobsOpen, effect, kills, jobClicks>>

(* settleJobStatus: a run's bash_poll has seen the job.                    *)
Settled(j) ==
  /\ process[j] \in {"runs", "over"} /\ jobStatus[j] # process[j]
  /\ Repoll(bgJobs, [jobStatus EXCEPT ![j] = process[j]], jobsOpen)
  /\ UNCHANGED <<process, kills, jobClicks>>

KillJob(j) ==
  /\ Contains(bgJobs, j) /\ jobStatus[j] # "over" /\ JobClick /\ kills' = kills \cup {j}
  /\ UNCHANGED <<process, bgJobs, jobStatus, jobsOpen, rounds, effect>>

JobKilled(j) ==
  /\ j \in kills /\ kills' = kills \ {j} /\ UNCHANGED jobClicks
  /\ \/ /\ process[j] # "forgotten" /\ process' = [process EXCEPT ![j] = "over"]
        /\ Repoll(bgJobs, [jobStatus EXCEPT ![j] = "over"], jobsOpen)
     \/ UNCHANGED <<process, bgJobs, jobStatus, jobsOpen, rounds, effect>>   \* onError

DismissJob(j) ==
  /\ Contains(bgJobs, j) /\ jobStatus[j] = "over" /\ JobClick
  /\ Repoll(Remove(bgJobs, j), [jobStatus EXCEPT ![j] = Unseen], jobsOpen)
  /\ UNCHANGED <<process, kills>>

Collapse ==
  /\ JobClick /\ Repoll(bgJobs, jobStatus, ~jobsOpen)
  /\ UNCHANGED <<process, kills>>

PollStep == \E i \in DOMAIN rounds : PollAnswered(i) \/ PollFails(i)

JobsNext ==
  \/ \E j \in ShellJobs : StartJob(j) \/ JobEnds(j) \/ ForgetJob(j) \/ Settled(j)
                          \/ KillJob(j) \/ JobKilled(j) \/ DismissJob(j)
  \/ PollStep \/ PollAgain \/ Collapse

(* The interval fires, every question is answered or fails, and a job that *)
(* is asked for again and again is answered for again and again.           *)
JobsFairness ==
  /\ WF_jobVars(PollAgain)
  /\ \A i \in 1 .. MaxPolls : WF_jobVars(i \in DOMAIN rounds /\ (PollAnswered(i) \/ PollFails(i)))
  /\ \A j \in ShellJobs :
       SF_jobVars(\E i \in DOMAIN rounds : Head(rounds[i]) = j /\ PollAnswered(i))

JobsSpec == JobsInit /\ [][JobsNext]_jobVars /\ JobsFairness

-----------------------------------------------------------------------------
(* Types of the panel and of the rounds under way.                         *)
JobsTypeOK ==
  /\ process \in [ShellJobs -> {"none", "runs", "over", "forgotten"}]
  /\ jobStatus \in [ShellJobs -> {Unseen, "runs", "over"}]
  /\ bgJobs \in Seq(ShellJobs) /\ Len(bgJobs) <= PanelCap /\ Len(rounds) <= MaxPolls
  /\ \A i \in DOMAIN rounds : rounds[i] # <<>>
  /\ kills \subseteq ShellJobs /\ effect \in {0, 1} /\ jobsOpen \in BOOLEAN

(* While the panel is open and lists a job, every job that is over is      *)
(* sooner or later shown as over, unless it is dismissed or forgotten.     *)
DoneJobsAreShown ==
  \A j \in ShellJobs :
    process[j] = "over" ~> (jobStatus[j] = "over" \/ process[j] = "forgotten"
                            \/ ~jobsOpen \/ ~Contains(bgJobs, j))
=============================================================================
