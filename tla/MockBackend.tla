---------------------------- MODULE MockBackend ----------------------------
(***************************************************************************)
(* The in-memory backend (adapters/mock.py, stepstore.py) behind the       *)
(* project, workflow, media, scene and handoff tools (tools/*.py): what    *)
(* the MCP tools and the web editor do to the same projects.               *)
(*                                                                         *)
(* Every backend method holds one lock, so a method is a step.  The        *)
(* compile_video tool calls two methods and others may run between them.   *)
(* Calls that raise before they store anything are stuttering steps.       *)
(*                                                                         *)
(* Step results are kept by reference: a per-scene result goes into a      *)
(* dictionary, its bucket, which a duplicated project shares.  Buckets     *)
(* therefore live in a heap, and a project's data points to them.          *)
(***************************************************************************)
EXTENDS Naturals, Sequences, FiniteSets, Lists

CONSTANTS
  Users,
  PromptNames,    \* the steps whose results save_step_result accepts
  ResultValues,   \* the results saved for a scene
  Generators,     \* the generate_* and regenerate_* job types in use
  Skips,          \* the combinations of skip_* flags in use
  Texts,          \* narration texts
  Moods,          \* music moods
  Templates,      \* templates of custom prompts
  GivenNames,     \* lengths of the names given to copies; 0: no name
  FirstName,      \* length of "Untitled_Project_n"
  NameLimit,      \* longest name PROJECT_NAME_PATTERN accepts
  MaxProjects, MaxScene    \* bounds on projects created and scene indices

\* _COMPILE_REQUIRED_ASSETS and _ROLLUP_KEYS
Required == {"generate_music", "generate_sfx", "generate_thumbnail"}
RollupKeys == {"generate_music", "generate_sfx", "generate_thumbnail"}

ASSUME BoundAssumption ==
  /\ MaxProjects \in Nat /\ MaxScene \in Nat
  /\ Skips \subseteq SUBSET Required
  /\ GivenNames \subseteq Nat /\ FirstName \in Nat /\ NameLimit \in Nat

Single == 0       \* the result of a step saved without a scene index: it belongs
                  \* to its project alone, and its value is left out

VARIABLES
  counter,      \* _project_counter
  projects,     \* _projects: project id -> _ProjectState
  heap,         \* bucket -> scene index -> the result saved for it
  jobs,         \* _jobs: a job is known by its project and its type
  custom_prompts,   \* _custom_prompts: (user, step) -> template
  compiling,    \* compile_video calls between the check and the submission
  actor,        \* history: who made the last call
  compiled,     \* history: the last compile job submitted
  deleted       \* history: the ids of deleted projects

vars == <<counter, projects, heap, jobs, custom_prompts, compiling, actor, compiled,
          deleted>>

Ids == DOMAIN projects
Owned(u) == {p \in Ids : projects[p].owner = u}

Empty == <<>>     \* the empty dictionary
NoMood == ""      \* the music mood of a project that has none

\* d[k] = v
Put(d, k, v) == [x \in DOMAIN d \union {k} |-> IF x = k THEN v ELSE d[x]]

NewProject(u) ==
  [owner |-> u, name |-> FirstName, music_mood |-> NoMood, completed_steps |-> {},
   data |-> Empty, scenes |-> <<>>, completed_job_types |-> {},
   scenes_with_sfx |-> {}, ready |-> FALSE]

Init ==
  /\ counter = 0
  /\ projects = Empty
  /\ heap = Empty
  /\ jobs = {}
  /\ custom_prompts = Empty
  /\ compiling = {}
  /\ actor \in Users
  /\ compiled = {}
  /\ deleted = {}

\* All that a call does to project p.
Set(p, state) == projects' = [projects EXCEPT ![p] = state]

NextId_Free == Cardinality(Ids) + 1            \* mutant: the number of projects
NextId == counter + 1

-----------------------------------------------------------------------------
(***************************************************************************)
(* Projects                                                                *)
(***************************************************************************)

Create(u) ==
  /\ counter < MaxProjects
  /\ counter' = counter + 1
  /\ projects' = Put(projects, NextId, NewProject(u))
  /\ actor' = u
  /\ UNCHANGED <<heap, jobs, custom_prompts, compiling, compiled, deleted>>

MayAct_Anyone(u, p) == p \in Ids               \* mutant: looked up by id alone
MayAct(u, p) == p \in Owned(u)

\* Mutant: the copy inherits the video with the other render state.
CopyOf_Ready(state, u, name) == [state EXCEPT !.owner = u, !.name = name]
CopyOf(state, u, name) == [state EXCEPT !.owner = u, !.name = name, !.ready = FALSE]

(***************************************************************************)
(* The copy gets lists and sets of its own, but the dictionary of results  *)
(* is copied one level deep.  It is stored before ProjectInfo looks at the *)
(* name.  video_status is not copied.                                      *)
(***************************************************************************)
Duplicate(u, p, given) ==
  LET name == IF given = 0 THEN projects[p].name + 5 ELSE given IN   \* "_copy"
  /\ MayAct(u, p)
  /\ counter < MaxProjects
  /\ counter' = counter + 1
  /\ projects' = Put(projects, NextId, CopyOf(projects[p], u, name))
  /\ actor' = u
  /\ UNCHANGED <<heap, jobs, custom_prompts, compiling, compiled, deleted>>

\* Deleting a project that is not there is no error.
Delete(u, p) ==
  /\ projects' = [q \in Ids \ (Owned(u) \intersect {p}) |-> projects[q]]
  /\ deleted' = deleted \union (Owned(u) \intersect {p})
  /\ actor' = u
  /\ UNCHANGED <<counter, heap, jobs, custom_prompts, compiling, compiled>>

-----------------------------------------------------------------------------
(***************************************************************************)
(* Workflow                                                                *)
(***************************************************************************)

SaveSingle(s, state) ==
  s \in DOMAIN state.data => state.data[s] = Single

SavePerScene(s, state) ==
  s \in DOMAIN state.data => state.data[s] # Single

\* Mutant: the step is not marked as completed.
WithResult_Unlisted(state, s, value) == [state EXCEPT !.data = Put(@, s, value)]
WithResult(state, s, value) ==
  [state EXCEPT !.data = Put(@, s, value), !.completed_steps = @ \union {s}]

\* save_step_result without a scene index
SaveStep(u, p, s) ==
  /\ p \in Owned(u)
  /\ SaveSingle(s, projects[p])
  /\ Set(p, WithResult(projects[p], s, Single))
  /\ actor' = u
  /\ UNCHANGED <<counter, heap, jobs, custom_prompts, compiling, compiled, deleted>>

Accumulate_Replaced(bucket, i, result) == Put(Empty, i, result)   \* mutant: starts over
Accumulate_OneBased(bucket, i, result) == Put(bucket, i + 1, result)   \* mutant
Accumulate(bucket, i, result) == Put(bucket, i, result)

\* The bucket of step s: the one it has, or a new one.
BucketFor(state, s) ==
  IF s \in DOMAIN state.data /\ state.data[s] # Single
    THEN state.data[s] ELSE Cardinality(DOMAIN heap) + 1

\* save_step_result for scene i, whether or not there is such a scene.  A result
\* the scene already has is replaced, also for the copies that share the bucket.
SaveSceneStep(u, p, s, i, result) ==
  LET b == BucketFor(projects[p], s)
      old == IF b \in DOMAIN heap THEN heap[b] ELSE Empty
  IN
  /\ p \in Owned(u)
  /\ SavePerScene(s, projects[p])
  /\ heap' = Put(heap, b, Accumulate(old, i, result))
  /\ Set(p, WithResult(projects[p], s, b))
  /\ actor' = u
  /\ UNCHANGED <<counter, jobs, custom_prompts, compiling, compiled, deleted>>

\* set_custom_prompt_override
SetCustomPrompt(u, s, template) ==
  /\ custom_prompts' = Put(custom_prompts, <<u, s>>, template)
  /\ actor' = u
  /\ UNCHANGED <<counter, projects, heap, jobs, compiling, compiled, deleted>>

-----------------------------------------------------------------------------
(***************************************************************************)
(* Media jobs                                                              *)
(***************************************************************************)

SceneIndices(state) == {state.scenes[n].index : n \in DOMAIN state.scenes}

\* submit_job: in the mock a job is complete when it is submitted.
WithJob_SfxByScene(state, type) ==             \* mutant: sound effects are kept
  [state EXCEPT                                \* by scene, not by job type
     !.completed_job_types = @ \union ({type} \ {"generate_sfx"}),
     !.scenes_with_sfx = IF type = "generate_sfx" THEN @ \union SceneIndices(state) ELSE @,
     !.ready = @ \/ type = "compile_video"]
WithJob(state, type) ==
  [state EXCEPT
     !.completed_job_types = @ \union {type},
     !.scenes_with_sfx = IF type = "generate_sfx" THEN @ \union SceneIndices(state) ELSE @,
     !.ready = @ \/ type = "compile_video"]

\* The rest of submit_job: its status is stored, and stays when the project goes.
StoreJob(p, type) == jobs' = jobs \union {[project |-> p, job_type |-> type]}

Generate(u, p, type) ==
  /\ p \in Owned(u)
  /\ Set(p, WithJob(projects[p], type))
  /\ StoreJob(p, type)
  /\ actor' = u
  /\ UNCHANGED <<counter, heap, custom_prompts, compiling, compiled, deleted>>

\* select_music; the catalog it looks the mood up in is fixed.
SelectMusic(u, p, mood) ==
  /\ p \in Owned(u)
  /\ Set(p, [projects[p] EXCEPT !.music_mood = mood])
  /\ actor' = u
  /\ UNCHANGED <<counter, heap, jobs, custom_prompts, compiling, compiled, deleted>>

\* check_compile_readiness; nothing is ever running in the mock.
Missing(state) == Required \ state.completed_job_types

Blocked_Any(missing, skipped) ==              \* mutant: one skip waives them all
  IF missing \intersect skipped # {} THEN {} ELSE missing
Blocked(missing, skipped) == missing \ skipped

\* The compile_video tool looks at the readiness of the project ...
CheckCompile(u, p, skipped) ==
  /\ p \in Owned(u)
  /\ Blocked(Missing(projects[p]), skipped) = {}
  /\ \A c \in compiling : c.user # u
  /\ compiling' = compiling \union {[user |-> u, project |-> p, skipped |-> skipped]}
  /\ actor' = u
  /\ UNCHANGED <<counter, projects, heap, jobs, custom_prompts, compiled, deleted>>

\* ... and then submits the job.
SubmitCompile(c) ==
  LET p == c.project IN
  /\ c \in compiling
  /\ p \in Owned(c.user)
  /\ compiling' = compiling \ {c}
  /\ Set(p, WithJob(projects[p], "compile_video"))
  /\ StoreJob(p, "compile_video")
  /\ compiled' =
       {[project |-> p, missing |-> Missing(projects[p]), skipped |-> c.skipped]}
  /\ actor' = c.user
  /\ UNCHANGED <<counter, heap, custom_prompts, deleted>>

\* The project was deleted in between.
AbandonCompile(c) ==
  /\ c \in compiling
  /\ c.project \notin Owned(c.user)
  /\ compiling' = compiling \ {c}
  /\ UNCHANGED <<counter, projects, heap, jobs, custom_prompts, actor, compiled, deleted>>

\* get_project's video_completeness
Completeness(state) ==
  LET flags == {k \in RollupKeys : k \in state.completed_job_types} IN
  CASE flags = RollupKeys -> "complete"
    [] flags = {} -> "minimal"
    [] OTHER -> "partial"

-----------------------------------------------------------------------------
(***************************************************************************)
(* Scenes                                                                  *)
(***************************************************************************)

NewIndex_Count(state) == Len(state.scenes)     \* mutant: the number of scenes
NewIndex(state) ==
  IF state.scenes = <<>> THEN 0
  ELSE 1 + CHOOSE i \in SceneIndices(state) : \A j \in SceneIndices(state) : j <= i

\* A new scene is appended, and the list sorted.
Added(scenes, scene) ==
  LET grown == Append(scenes, scene) IN
  Sorted(grown, [n \in DOMAIN grown |-> grown[n].index])

Without(scenes, i) == Selected(scenes, {n \in DOMAIN scenes : scenes[n].index # i})

\* The first scene with the index is the one that changes.
Updated(scenes, i, text) ==
  LET first == CHOOSE n \in DOMAIN scenes :
                 /\ scenes[n].index = i
                 /\ \A m \in 1..(n - 1) : scenes[m].index # i
  IN [scenes EXCEPT ![first].text = text]

\* The new scene goes last: the argument after_index is not read.
AddScene(u, p, text) ==
  LET state == projects[p]
      scene == [index |-> NewIndex(state), text |-> text] IN
  /\ p \in Owned(u)
  /\ NewIndex(state) <= MaxScene
  /\ Set(p, [state EXCEPT !.scenes = Added(@, scene)])
  /\ actor' = u
  /\ UNCHANGED <<counter, heap, jobs, custom_prompts, compiling, compiled, deleted>>

RemoveScene(u, p, i) ==
  /\ p \in Owned(u)
  /\ Set(p, [projects[p] EXCEPT !.scenes = Without(@, i)])
  /\ actor' = u
  /\ UNCHANGED <<counter, heap, jobs, custom_prompts, compiling, compiled, deleted>>

\* update_scene_text, and update_scene_prompt, whose other text is left out
UpdateScene(u, p, i, text) ==
  /\ p \in Owned(u)
  /\ i \in SceneIndices(projects[p])
  /\ Set(p, [projects[p] EXCEPT !.scenes = Updated(@, i, text)])
  /\ actor' = u
  /\ UNCHANGED <<counter, heap, jobs, custom_prompts, compiling, compiled, deleted>>

Next ==
  \/ \E u \in Users : Create(u)
  \/ \E u \in Users, p \in 1..MaxProjects : Delete(u, p)
  \/ \E u \in Users, p \in Ids, given \in GivenNames : Duplicate(u, p, given)
  \/ \E u \in Users, p \in Ids, s \in PromptNames : SaveStep(u, p, s)
  \/ \E u \in Users, p \in Ids, s \in PromptNames, i \in 0..MaxScene,
        result \in ResultValues : SaveSceneStep(u, p, s, i, result)
  \/ \E u \in Users, s \in PromptNames, template \in Templates :
       SetCustomPrompt(u, s, template)
  \/ \E u \in Users, p \in Ids, type \in Generators : Generate(u, p, type)
  \/ \E u \in Users, p \in Ids, mood \in Moods : SelectMusic(u, p, mood)
  \/ \E u \in Users, p \in Ids, skipped \in Skips : CheckCompile(u, p, skipped)
  \/ \E c \in compiling : SubmitCompile(c)
  \/ \E c \in compiling : AbandonCompile(c)
  \/ \E u \in Users, p \in Ids, text \in Texts : AddScene(u, p, text)
  \/ \E u \in Users, p \in Ids, i \in 0..MaxScene : RemoveScene(u, p, i)
  \/ \E u \in Users, p \in Ids, i \in 0..MaxScene, text \in Texts : UpdateScene(u, p, i, text)

Spec == Init /\ [][Next]_vars

-----------------------------------------------------------------------------
(***************************************************************************)
(* Properties                                                              *)
(***************************************************************************)

Scene == [index : 0..MaxScene, text : Texts]

ProjectOK(state) ==
  /\ state.owner \in Users
  /\ state.name \in Nat
  /\ state.music_mood \in Moods \union {NoMood}
  /\ state.completed_steps \subseteq PromptNames
  /\ DOMAIN state.data \subseteq PromptNames
  /\ state.scenes \in Seq(Scene)
  /\ state.completed_job_types \subseteq Generators \union {"compile_video"}
  /\ state.scenes_with_sfx \subseteq 0..MaxScene
  /\ state.ready \in BOOLEAN

TypeOK ==
  /\ counter \in 0..MaxProjects
  /\ Ids \subseteq 1..counter
  /\ \A p \in Ids : ProjectOK(projects[p])
  /\ \A b \in DOMAIN heap :
       /\ DOMAIN heap[b] \subseteq 0..MaxScene
       /\ \A i \in DOMAIN heap[b] : heap[b][i] \in ResultValues
  /\ jobs \subseteq [project : 1..counter, job_type : Generators \union {"compile_video"}]
  /\ DOMAIN custom_prompts \subseteq Users \X PromptNames
  /\ \A key \in DOMAIN custom_prompts : custom_prompts[key] \in Templates
  /\ \A c \in compiling : c.user \in Users /\ c.skipped \subseteq Required
  /\ actor \in Users

\* What a reader sees of the results of a project.
Results(p) ==
  [s \in DOMAIN projects[p].data |->
     LET value == projects[p].data[s] IN
     [kind |-> IF value = Single THEN "single" ELSE "per_scene",
      scenes |-> IF value = Single THEN Empty ELSE heap[value]]]

\* Every completed step has its result and every result its step; and a
\* per-scene result has at least one entry, which is how the store tells it
\* from a single one.
StepsHaveResults ==
  \A p \in Ids :
    /\ projects[p].completed_steps = DOMAIN projects[p].data
    /\ \A s \in DOMAIN projects[p].data :
         projects[p].data[s] # Single =>
           projects[p].data[s] \in DOMAIN heap /\ DOMAIN heap[projects[p].data[s]] # {}

\* A call replaces the result that project p has for scene i in step s.
Replaces(p, s, i) ==
  /\ p \in Ids \intersect Ids'
  /\ s \in DOMAIN Results(p) /\ i \in DOMAIN Results(p)[s].scenes
  /\ Results(p)'[s].scenes[i] # Results(p)[s].scenes[i]

\* As long as a project exists its progress is kept: a completed step stays
\* completed, a rendered asset rendered, every step and every scene that has a
\* result goes on having one, of the same kind, and a job can be checked for
\* ever.  A call replaces the result of no more than one scene of one step; the
\* projects that share the bucket then all show the new one.
ProgressIsKept ==
  [][/\ \A p \in Ids \intersect Ids' :
          /\ projects[p].completed_steps \subseteq projects'[p].completed_steps
          /\ projects[p].completed_job_types \subseteq projects'[p].completed_job_types
          /\ \A s \in DOMAIN Results(p) :
               /\ s \in DOMAIN Results(p)'
               /\ Results(p)[s].kind = Results(p)'[s].kind
               /\ DOMAIN Results(p)[s].scenes \subseteq DOMAIN Results(p)'[s].scenes
     /\ \A p \in Ids, s \in PromptNames, i \in 0..MaxScene : Replaces(p, s, i) =>
          \A q \in Ids, t \in PromptNames, j \in 0..MaxScene : Replaces(q, t, j) =>
            /\ s = t /\ i = j
            /\ Results(p)'[s].scenes[i] = Results(q)'[t].scenes[j]
     /\ jobs \subseteq jobs']_vars

\* A call by one user changes nothing another user can read, not even the value
\* of a result, although copies of a project share the dictionaries of its
\* per-scene results.
OthersUnaffected ==
  [][/\ \A p \in Ids : projects[p].owner # actor' =>
          /\ p \in Ids'
          /\ projects'[p] = projects[p]
          /\ Results(p)' = Results(p)
     /\ \A key \in DOMAIN custom_prompts : key[1] # actor' =>
          key \in DOMAIN custom_prompts' /\ custom_prompts'[key] = custom_prompts[key]]_vars

\* A deleted project never comes back: the id a client still holds, or a
\* compile call that has passed its check, never names a later project.
DeletedStaysDeleted == deleted \intersect Ids = {}

\* A compile job starts only for a project whose assets are all there or
\* waived one by one, also when others use the project between the check and
\* the submission.
CompileHasLayers == \A c \in compiled : c.missing \subseteq c.skipped

\* What get_project says of the video is true of that very project: it is ready
\* exactly if the project itself was compiled, whatever it is a copy of, and it
\* is complete exactly if the gate of compile_video finds nothing missing.
CompileJob(p) == [project |-> p, job_type |-> "compile_video"]
VideoShownIsReal ==
  \A p \in Ids :
    /\ projects[p].ready <=> CompileJob(p) \in jobs
    /\ Completeness(projects[p]) = "complete" <=> Missing(projects[p]) = {}

\* However scenes come and go, an index names one scene and get_scenes lists
\* them in order.
SceneIndicesAscend ==
  \A p \in Ids : \A m, n \in DOMAIN projects[p].scenes :
    m < n => projects[p].scenes[m].index < projects[p].scenes[n].index

\* A scene that get_project shows with sound effects means that the compile
\* gate has the layer too: what is kept by scene and what is kept by job type
\* stay in step, in copies as well.
SfxMeansLayer ==
  \A p \in Ids :
    projects[p].scenes_with_sfx # {} => "generate_sfx" \notin Missing(projects[p])

\* models.py says that a value that ends up in a URL matches
\* PROJECT_NAME_PATTERN.  list_projects raises for a user who owns a project
\* whose name does not.
StoredNamesMatch == \A p \in Ids : projects[p].name \in 1..NameLimit
=============================================================================
