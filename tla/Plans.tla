------------------------------- MODULE Plans -------------------------------
(***************************************************************************)
(* The workflows of many steps: a demo preparation and its recovery, scene *)
(* workflows, the trim planner, the media tools with their processes, and  *)
(* the confirmed output operations.  The service never runs two writers at *)
(* once (WritersDoNotOverlap of Service), so one behaviour exercises one   *)
(* part.                                                                   *)
(***************************************************************************)
EXTENDS Preparation, Workflows, Cuts, Process, Media, Outputs

VARIABLE part   \* the part that runs

planVars == <<part, prepVars, flowVars, trimVars, procVars, mediaVars, saveVars, launchVars>>

Some(S) == CHOOSE s \in S : TRUE
Runs(p, S) == IF part = p THEN S ELSE {Some(S)}
Init ==
    /\ part \in {"preparation", "workflow", "trim", "process", "media", "save", "start"}
    /\ PrepInit /\ SaveInit /\ LaunchInit
    /\ part # "preparation" => obs = [s \in Slots |-> "u"] /\ files = [id \in OpIds |-> NoFile]
    /\ \E s \in Runs("workflow", Scenarios) : FlowInit(s)
    /\ \E r \in Runs("trim", TrimRequests) : TrimInit(r)
    /\ \E r \in Runs("media", MediaRequests) : MediaInit(r)
    /\ \E capture \in Runs("process", BOOLEAN) : ProcInit(capture)

Preparing == part = "preparation" /\ UNCHANGED <<part, flowVars, trimVars, procVars, mediaVars, saveVars, launchVars>>
InWorkflow == part = "workflow" /\ UNCHANGED <<part, prepVars, trimVars, procVars, mediaVars, saveVars, launchVars>>
Trimming == part = "trim" /\ UNCHANGED <<part, prepVars, flowVars, procVars, mediaVars, saveVars, launchVars>>
InProcess == part = "process" /\ UNCHANGED <<part, prepVars, flowVars, trimVars, mediaVars, saveVars, launchVars>>
InMedia == part = "media" /\ UNCHANGED <<part, prepVars, flowVars, trimVars, procVars, saveVars, launchVars>>
InSave == part = "save" /\ UNCHANGED <<part, prepVars, flowVars, trimVars, procVars, mediaVars, launchVars>>
InStart == part = "start" /\ UNCHANGED <<part, prepVars, flowVars, trimVars, procVars, mediaVars, saveVars>>

Next ==
    \/ PrepNext /\ Preparing
    \/ FlowNext /\ InWorkflow
    \/ TrimNext /\ Trimming
    \/ ProcNext /\ InProcess
    \/ MediaNext /\ InMedia
    \/ SaveNext /\ InSave
    \/ LaunchNext /\ InStart

Spec == Init /\ [][Next]_planVars

-----------------------------------------------------------------------------
(* EffectsHaveTheirGrounds: a recovery writes only fields whose preparation  *)
(* was accepted and that still hold what was prepared; an export never takes *)
(* a name from another file; a replay is called verified, and a save or a    *)
(* start sent, only on evidence that still holds at that step.               *)
EffectsHaveTheirGrounds ==
    /\ RecoveryTouchesOnlyItsOwn
    /\ FilesAreNeverReplaced
    /\ SavesAreGrounded
    /\ StartsAreHonest

(* PlanReceiptsAreHonest: the journal of a preparation and the receipts of   *)
(* scene workflows never deny a frame that left and claim an outcome only if *)
(* OBS gave it, through lost answers, failed writes and crashes; and every   *)
(* journal on disk can be read back.                                         *)
PlanReceiptsAreHonest == PrepTypeOK /\ JournalIsHonest /\ ReceiptsAreHonest

(* ExportsAreFaithful: a process is reported as it ended, and an export is   *)
(* the file that was verified, of the recording that was planned on.         *)
ExportsAreFaithful == ProcessIsHonest /\ ExportIsVerified

(* PlansAreSound: what the planners decide is right when it is done.  Only   *)
(* what stands still in picture and sound is cut out, and cuts and timeline  *)
(* fit together; a frame of a scene workflow goes out only with its receipt  *)
(* and its undo snapshot; a scene workflow in which nobody interfered ends   *)
(* with OBS as it was asked to be, so that the same request would find       *)
(* nothing left to do.                                                       *)
PlansAreSound ==
    /\ [](StillsAreStill /\ CutsAreSound)
    /\ FramesHaveTheirGrounds
    /\ WorkflowsConverge

=============================================================================
