------------------------------ MODULE Services ------------------------------
(***************************************************************************)
(* The parts of the runtime that do not interact, in one specification: a   *)
(* behaviour is one of `part', which takes as many of v1 .. v9 as it has    *)
(* variables and leaves the others None.  The pure functions are given one  *)
(* input of a set.                                                         *)
(***************************************************************************)
EXTENDS Integers, Sequences, FiniteSets

CONSTANTS
  None,
  Threads,  \* handlers, tools, reviews and publishers that are at work at once
  Facts, MemoryItems, Candidates, MaxHistory,             \* memory
  PlanItems, Turns, Statuses, MaxPlanCalls,               \* todo
  LoopCalls, LoopPolicies, MaxRepeats, MaxLoopCalls, MaxEpoch,  \* loop
  Contents, Big, ArtifactLimit, MaxAttempts, MaxArtifacts,      \* file
  Deploys, Commands,                                      \* deployment
  QueueSize, MaxEvents,                                   \* bus
  KeepTurns, MinKeep, SummaryMax, MaxMessages,            \* compaction
  Names, Given, Souls, MaxSessionCalls,                   \* sessions
  Threshold, ReviewMax, MaxProposed, MaxReviewed, MaxJobs,  \* review
  UpdatesAsked, MaxUpdates,                               \* settings
  RecallLimit, RecallExtra, RecallCandidates, RecallFound, RecallInputs,  \* recall
  DayLength, FirstWeekday, MonthStarts, CalendarInputs,  \* calendar
  PolicyInputs, ActionsAsked, PlanInputs                  \* policy, plans

VARIABLES part, input, v1, v2, v3, v4, v5, v6, v7, v8, v9

partVars == <<v1, v2, v3, v4, v5, v6, v7, v8, v9>>

----------------------------------------------------------------------------
(* Parts with a state.                                                     *)

Memory == INSTANCE LongTermMemory WITH
  fact <- v1, deleted <- v2, index <- v3, history <- v4, vector <- v5, candidate <- v6,
  doing <- v7,
  Items <- MemoryItems

LedgersMatch == part = "memory" =>
  Memory!IndexMatches /\ Memory!HistoryMatches /\ Memory!AcceptedWasRemembered

Steps == INSTANCE SessionPlans WITH
  plan <- v1, run <- v2, doing <- v3, begun <- v4, overlap <- v5,
  Items <- PlanItems, MaxCalls <- MaxPlanCalls

PlanRunsAgree == part = "todo" => Steps!OneInProgress /\ Steps!ArchivedRunsAgree

Loop == INSTANCE ToolLoop WITH
  epoch <- v1, calling <- v2, count <- v3, refreshed <- v4, policies <- v5, log <- v6,
  Calls <- LoopCalls, PolicySets <- LoopPolicies, MaxCalls <- MaxLoopCalls

LoopGuarded == part = "loop" => Loop!RepeatsStop /\ Loop!EditsAreInformed

File == INSTANCE FileResume WITH
  file <- v1, attempts <- v2, artifacts <- v3, checkpoint <- v4, turn <- v5, lost <- v6,
  refused <- v7

EditsKnown == [][part = "file" => File!EditIsKnown]_partVars
ResumesWhereLost == part = "file" => File!ResumesWhereLost

Deployment == INSTANCE EmbeddingDeployment WITH
  status <- v1, cancelled <- v2, process <- v3, installed <- v4, at <- v5, work <- v6,
  child <- v7, asked <- v8, raced <- v9

Bus == INSTANCE RuntimeEventBus WITH
  stream <- v1, queued <- v2, got <- v3, sent <- v4, publishing <- v5, missed <- v6,
  wasFull <- v7,
  Publishers <- Threads, Size <- QueueSize

Compact == INSTANCE Compaction WITH
  msg <- v1, gone <- v2, turn <- v3, summary <- v4, at <- v5, cut <- v6, raced <- v7,
  quiet <- v8,
  SourceMax <- SummaryMax

Roles == INSTANCE Sessions WITH
  role <- v1, soul <- v2, session <- v3, sent <- v4, doing <- v5, begun <- v6,
  wanted <- v7, met <- v8,
  MaxCalls <- MaxSessionCalls

Review == INSTANCE MemoryReview WITH
  latest <- v1, gone <- v2, job <- v3, at <- v4, cooling <- v5, reviewed <- v6,
  left <- v7, alone <- v8,
  Reviewers <- Threads, SourceMax <- ReviewMax, MaxMessages <- MaxReviewed

Config == INSTANCE Settings WITH
  file <- v1, live <- v2, at <- v3, used <- v4, said <- v5, clashed <- v6, met <- v7,
  Asked <- UpdatesAsked

\* What is found again in the memory.
Reminder == INSTANCE Recall WITH
  Limit <- RecallLimit, Extra <- RecallExtra, Candidates <- RecallCandidates, Found <- RecallFound

\* What is kept of a conversation unless a reset raced a compaction, what users
\* wrote unless an automatic text was under way, and what is recalled.
TextsFaithful ==
  /\ part = "compaction" => Compact!SummaryFaithful
  /\ part = "sessions" => Roles!UserTextsStay
  /\ (part = "recall" /\ input # None) =>
       /\ Reminder!RecallComplete(input.matches, "s1")
       /\ Reminder!NothingUncovered(input.matches, "s1", input.provider, input.summary)
       /\ Reminder!BestFound(input.items)

\* What clients are told of what goes on, and of what they have set.
ReportsFaithful ==
  /\ part = "deployment" => Deployment!DeploymentTold
  /\ part = "bus" => Bus!StreamFaithful
  /\ part = "review" => Review!ReviewsTold
  /\ part = "settings" => Config!SettingsKept

----------------------------------------------------------------------------
(* Pure functions.                                                         *)

Times == INSTANCE Schedules

CalendarRight == (part = "calendar" /\ input # None) => Times!NextRunIsNext(input.text, input.now)

Policy == INSTANCE WorkerPolicy

Plans == INSTANCE TaskPlans

PlannedWorkRight ==
  /\ (part = "policy" /\ input # None) =>
       /\ Policy!ScopeWithinPolicy(input.task)
       /\ \A a \in ActionsAsked : Policy!UnaskedIsCovered(input.task, input.checkpoint, a)
  /\ (part = "plans" /\ input # None) => Plans!PlanRunsThrough(input.tasks, input.edges, input.max)

----------------------------------------------------------------------------
ASSUME ServicesAssumption ==
  /\ Memory!MemoryAssumption /\ Steps!PlansAssumption /\ Loop!ToolLoopAssumption
  /\ File!FileResumeAssumption /\ Deployment!DeploymentAssumption /\ Bus!BusAssumption
  /\ Compact!CompactionAssumption /\ Roles!SessionsAssumption /\ Review!ReviewAssumption
  /\ Config!SettingsAssumption /\ Reminder!RecallAssumption /\ Times!ScheduleAssumption
  /\ PlanInputs \subseteq Plans!RawGraphs /\ RecallInputs \subseteq Reminder!RecallAsked
  /\ \A x \in CalendarInputs : Times!CalendarAsked(x)

TypeOK ==
  /\ part = "memory" => Memory!TypeOK
  /\ part = "todo" => Steps!TypeOK
  /\ part = "loop" => Loop!TypeOK
  /\ part = "file" => File!TypeOK
  /\ part = "deployment" => Deployment!TypeOK
  /\ part = "bus" => Bus!TypeOK
  /\ part = "compaction" => Compact!TypeOK
  /\ part = "sessions" => Roles!TypeOK
  /\ part = "review" => Review!TypeOK
  /\ part = "settings" => Config!TypeOK

PartsInit ==
  \/ part = "memory" /\ Memory!Init /\ v8 = None /\ v9 = None
  \/ part = "todo" /\ Steps!Init /\ v6 = None /\ v7 = None /\ v8 = None /\ v9 = None
  \/ part = "loop" /\ Loop!Init /\ v7 = None /\ v8 = None /\ v9 = None
  \/ part = "file" /\ File!Init /\ v8 = None /\ v9 = None
  \/ part = "deployment" /\ Deployment!Init
  \/ part = "bus" /\ Bus!Init /\ v8 = None /\ v9 = None
  \/ part = "compaction" /\ Compact!Init /\ v9 = None
  \/ part = "sessions" /\ Roles!Init /\ v9 = None
  \/ part = "review" /\ Review!Init /\ v9 = None
  \/ part = "settings" /\ Config!Init /\ v8 = None /\ v9 = None
  \/ /\ part \in {"calendar", "policy", "plans", "recall"}
     /\ v1 = None /\ v2 = None /\ v3 = None /\ v4 = None /\ v5 = None /\ v6 = None
     /\ v7 = None /\ v8 = None /\ v9 = None

Init == input = None /\ PartsInit

\* Of the compactions, what follows a race is left out: its number is too great.
PartsNext ==
  \/ part = "memory" /\ Memory!Next /\ UNCHANGED <<v8, v9>>
  \/ part = "todo" /\ Steps!Next /\ UNCHANGED <<v6, v7, v8, v9>>
  \/ part = "loop" /\ Loop!Next /\ UNCHANGED <<v7, v8, v9>>
  \/ part = "file" /\ File!Next /\ UNCHANGED <<v8, v9>>
  \/ part = "deployment" /\ Deployment!Next
  \/ part = "bus" /\ Bus!Next /\ UNCHANGED <<v8, v9>>
  \/ part = "compaction" /\ ~v7 /\ Compact!Next /\ UNCHANGED v9
  \/ part = "sessions" /\ Roles!Next /\ UNCHANGED v9
  \/ part = "review" /\ Review!Next /\ UNCHANGED v9
  \/ part = "settings" /\ Config!Next /\ UNCHANGED <<v8, v9>>

Ask ==
  /\ input = None
  /\ \/ part = "calendar" /\ input' \in CalendarInputs
     \/ part = "policy" /\ input' \in PolicyInputs
     \/ part = "plans" /\ input' \in PlanInputs
     \/ part = "recall" /\ input' \in RecallInputs

Next ==
  \/ PartsNext /\ UNCHANGED <<part, input>>
  \/ Ask /\ UNCHANGED <<part, partVars>>

Spec == Init /\ [][Next]_<<part, input, partVars>>
=============================================================================
