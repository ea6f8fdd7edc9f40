--------------------------- MODULE ResumeRunbook ---------------------------
(***************************************************************************)
(* The resume_project prompt (prompts/definitions.py): the runbook by which *)
(* a client that lost its session finishes a project.  The client reads    *)
(* the completed steps, starts the first media job whose step is not among *)
(* them, polls it until it has completed, and starts over; once            *)
(* compile_video has completed the project is finished.                    *)
(***************************************************************************)
EXTENDS MockBackend, TLC

VARIABLES
  phase,     \* "pick", "submit", "poll", "stopped" or "finished"
  target     \* the media job picked

rvars == <<vars, phase, target>>

MediaTools ==
  <<"generate_audio", "generate_images", "generate_sfx", "generate_music",
    "generate_thumbnail", "compile_video">>

\* The workflow step each of them corresponds to.
StepOf ==
  [generate_audio |-> "audio_generation", generate_images |-> "image_generation",
   generate_sfx |-> "sound_effect_analysis", generate_music |-> "music_selection",
   generate_thumbnail |-> "thumbnail", compile_video |-> "video_compilation"]

\* The session died after any of the steps had been saved.
RInit ==
  \E u \in Users, saved \in SUBSET PromptNames :
    /\ counter = 1
    /\ projects = 1 :> [NewProject(u) EXCEPT
                          !.completed_steps = saved, !.data = [s \in saved |-> Single]]
    /\ heap = Empty
    /\ jobs = {}
    /\ custom_prompts = Empty
    /\ compiling = {}
    /\ actor = u
    /\ compiled = {}
    /\ deleted = {}
    /\ phase = "pick"
    /\ target = "none"

User == projects[1].owner
Undone == {n \in DOMAIN MediaTools :
             StepOf[MediaTools[n]] \notin projects[1].completed_steps}

Pick ==
  /\ phase = "pick"
  /\ IF Undone = {}
       THEN phase' = "finished" /\ UNCHANGED target
       ELSE /\ phase' = "submit"
            /\ target' = MediaTools[CHOOSE n \in Undone : \A m \in Undone : n <= m]
  /\ UNCHANGED vars

SubmitGenerate ==
  /\ phase = "submit" /\ target # "compile_video"
  /\ Generate(User, 1, target)
  /\ phase' = "poll"
  /\ UNCHANGED target

CheckGate ==
  /\ phase = "submit" /\ target = "compile_video" /\ compiling = {}
  /\ CheckCompile(User, 1, {})
  /\ UNCHANGED <<phase, target>>

GateCloses ==
  /\ phase = "submit" /\ target = "compile_video" /\ compiling = {}
  /\ Missing(projects[1]) # {}
  /\ phase' = "stopped"
  /\ UNCHANGED <<vars, target>>

SubmitGated ==
  /\ phase = "submit"
  /\ \E c \in compiling : SubmitCompile(c)
  /\ phase' = "poll"
  /\ UNCHANGED target

\* check_job: the job has completed.
Poll ==
  /\ phase = "poll"
  /\ phase' = IF target = "compile_video" THEN "finished" ELSE "pick"
  /\ UNCHANGED <<vars, target>>

Client == Pick \/ SubmitGenerate \/ CheckGate \/ GateCloses \/ SubmitGated \/ Poll

\* The client keeps going.
RSpec == RInit /\ [][Client]_rvars /\ WF_rvars(Client)

\* Following the runbook finishes the project.
RunbookFinishes == <>(phase \in {"finished", "stopped"})
=============================================================================
