------------------------- MODULE MockBackend_proofs -------------------------
(***************************************************************************)
(* Proofs about MockBackend, for any users, step names, job types and      *)
(* numbers of projects and scenes.                                         *)
(***************************************************************************)
EXTENDS MockBackend, Lists_proofs, FiniteSetTheorems

USE BoundAssumption

-----------------------------------------------------------------------------
(***************************************************************************)
(* Dictionaries and project records.                                       *)
(***************************************************************************)

IsDict(d) == d = [x \in DOMAIN d |-> d[x]]

LEMMA PutProperties ==
  ASSUME NEW d, NEW k, NEW v
  PROVE  /\ IsDict(Put(d, k, v))
         /\ DOMAIN Put(d, k, v) = DOMAIN d \union {k}
         /\ Put(d, k, v)[k] = v
         /\ \A x \in DOMAIN d : x # k => Put(d, k, v)[x] = d[x]
  BY DEF Put, IsDict

IsProject(st) ==
  st = [owner |-> st.owner, name |-> st.name, music_mood |-> st.music_mood,
        completed_steps |-> st.completed_steps, data |-> st.data, scenes |-> st.scenes,
        completed_job_types |-> st.completed_job_types,
        scenes_with_sfx |-> st.scenes_with_sfx, ready |-> st.ready]

\* Only the results of the two projects may differ.
SameMedia(old, new) ==
  /\ new.owner = old.owner
  /\ new.completed_job_types = old.completed_job_types
  /\ new.scenes_with_sfx = old.scenes_with_sfx

\* Neither results nor rendered assets of the two projects differ.
SameProgress(old, new) ==
  /\ new.completed_steps = old.completed_steps
  /\ new.data = old.data
  /\ new.completed_job_types = old.completed_job_types
  /\ new.scenes_with_sfx = old.scenes_with_sfx

LEMMA NewProjectFields ==
  ASSUME NEW u
  PROVE  /\ IsProject(NewProject(u))
         /\ NewProject(u).owner = u
         /\ NewProject(u).completed_steps = {}
         /\ NewProject(u).data = Empty
         /\ NewProject(u).completed_job_types = {}
         /\ NewProject(u).scenes_with_sfx = {}
  BY DEF NewProject, IsProject

LEMMA CopyFields ==
  ASSUME NEW st, IsProject(st), NEW u, NEW name, NEW new, new = CopyOf(st, u, name)
  PROVE  IsProject(new) /\ new.owner = u /\ SameProgress(st, new)
  BY DEF CopyOf, IsProject, SameProgress

LEMMA ResultFields ==
  ASSUME NEW st, IsProject(st), NEW s, NEW value, NEW new, new = WithResult(st, s, value)
  PROVE  /\ IsProject(new)
         /\ SameMedia(st, new)
         /\ new.completed_steps = st.completed_steps \union {s}
         /\ new.data = Put(st.data, s, value)
  BY DEF WithResult, IsProject, SameMedia

LEMMA JobFields ==
  ASSUME NEW st, IsProject(st), NEW type, NEW new, new = WithJob(st, type)
  PROVE  /\ IsProject(new)
         /\ new.owner = st.owner
         /\ new.completed_steps = st.completed_steps
         /\ new.data = st.data
         /\ new.completed_job_types = st.completed_job_types \union {type}
         /\ type # "generate_sfx" => new.scenes_with_sfx = st.scenes_with_sfx
  BY DEF WithJob, IsProject

LEMMA SceneFields ==
  ASSUME NEW st, IsProject(st), NEW scenes, NEW new, new = [st EXCEPT !.scenes = scenes]
  PROVE  IsProject(new) /\ new.owner = st.owner /\ SameProgress(st, new)
  BY DEF IsProject, SameProgress

LEMMA MoodFields ==
  ASSUME NEW st, IsProject(st), NEW mood, NEW new, new = [st EXCEPT !.music_mood = mood]
  PROVE  IsProject(new) /\ new.owner = st.owner /\ SameProgress(st, new)
  BY DEF IsProject, SameProgress

-----------------------------------------------------------------------------
(***************************************************************************)
(* The invariant of the store.  Results are kept by reference, so it has   *)
(* to say who may point to what: every bucket has a result, projects that  *)
(* share a bucket belong to one user, and they share it for the same step. *)
(* Ids and buckets are handed out once, which is why neither a new project *)
(* nor a new bucket can meet a reference that somebody still holds.        *)
(***************************************************************************)

\* The completed steps are those with a result, a per-scene result is in one
\* of the buckets, and sound effects mean a rendered layer.
Fits(st, buckets) ==
  /\ IsProject(st)
  /\ st.owner \in Users
  /\ st.completed_steps = DOMAIN st.data
  /\ \A s \in DOMAIN st.data : st.data[s] # Single => st.data[s] \in buckets
  /\ st.scenes_with_sfx # {} => "generate_sfx" \in st.completed_job_types

Buckets(st) == {st.data[s] : s \in DOMAIN st.data} \ {Single}

BucketsPrivate ==
  \A p, q \in Ids :
    Buckets(projects[p]) \intersect Buckets(projects[q]) # {}
      => projects[p].owner = projects[q].owner

\* A bucket that both point to holds the results of one step.
SameStep(a, b) ==
  \A s \in DOMAIN a.data, t \in DOMAIN b.data :
    a.data[s] # Single /\ a.data[s] = b.data[t] => s = t

OneStep == \A p, q \in Ids : SameStep(projects[p], projects[q])

HeapOK ==
  /\ \E n \in Nat : DOMAIN heap = 1..n
  /\ \A b \in DOMAIN heap : DOMAIN heap[b] # {}

IdsOK ==
  /\ counter \in Nat
  /\ Ids \subseteq 1..counter
  /\ deleted \subseteq 1..counter
  /\ DeletedStaysDeleted

StoreInv ==
  /\ IdsOK
  /\ HeapOK
  /\ \A p \in Ids : Fits(projects[p], DOMAIN heap)
  /\ BucketsPrivate
  /\ OneStep

\* What new points to, old points to for the same step.
Within(new, old) ==
  \A s \in DOMAIN new.data : new.data[s] # Single =>
    s \in DOMAIN old.data /\ new.data[s] = old.data[s]

LEMMA WithinSameStep ==
  ASSUME NEW a, NEW b, NEW c, NEW d, Within(a, c), Within(b, d), SameStep(c, d)
  PROVE  SameStep(a, b)
BY DEF Within, SameStep

LEMMA OneStepStays ==
  ASSUME OneStep, \A p \in Ids' : \/ DOMAIN projects'[p].data = {}
                                  \/ \E r \in Ids : Within(projects'[p], projects[r])
  PROVE  OneStep'
<1> SUFFICES ASSUME NEW p \in Ids', NEW q \in Ids'
             PROVE  SameStep(projects'[p], projects'[q])
  BY DEF OneStep
<1>1. CASE DOMAIN projects'[p].data = {} \/ DOMAIN projects'[q].data = {}
  BY <1>1 DEF SameStep
<1>2. CASE /\ \E r \in Ids : Within(projects'[p], projects[r])
           /\ \E r \in Ids : Within(projects'[q], projects[r])
  <2>1. PICK r \in Ids : Within(projects'[p], projects[r])
    BY <1>2
  <2>2. PICK o \in Ids : Within(projects'[q], projects[o])
    BY <1>2
  <2>3. SameStep(projects[r], projects[o])
    BY DEF OneStep
  <2>4. QED
    BY <2>1, <2>2, <2>3, WithinSameStep
<1>3. QED
  BY <1>1, <1>2

LEMMA FreshBucket ==
  ASSUME HeapOK
  PROVE  /\ Cardinality(DOMAIN heap) + 1 \notin DOMAIN heap
         /\ Cardinality(DOMAIN heap) + 1 # Single
         /\ \E n \in Nat : DOMAIN heap \union {Cardinality(DOMAIN heap) + 1} = 1..n
<1>1. PICK n \in Nat : DOMAIN heap = 1..n
  BY DEF HeapOK
<1>2. Cardinality(DOMAIN heap) = n
  BY <1>1, FS_Interval
<1>3. (1..n) \union {n + 1} = 1..(n + 1) /\ n + 1 \notin 1..n /\ n + 1 # 0 /\ n + 1 \in Nat
  OBVIOUS
<1>4. QED
  BY <1>1, <1>2, <1>3 DEF Single

-----------------------------------------------------------------------------
(***************************************************************************)
(* The shapes a step can have, as far as the store is concerned.           *)
(***************************************************************************)

\* User u gets a project that points to no bucket but u's own.
Adds(u, new) ==
  /\ projects' = Put(projects, NextId, new)
  /\ counter' = counter + 1
  /\ new.owner = u
  /\ Fits(new, DOMAIN heap)
  /\ DOMAIN new.data = {} \/ \E q \in Owned(u) : new.data = projects[q].data
  /\ actor' = u
  /\ UNCHANGED <<heap, jobs, custom_prompts, compiling, compiled, deleted>>

\* Project p of user u gets single results or rendered assets and loses none.
Advances(old, new) ==
  /\ DOMAIN old.data \subseteq DOMAIN new.data
  /\ \A s \in DOMAIN old.data : new.data[s] = old.data[s]
  /\ \A s \in DOMAIN new.data \ DOMAIN old.data : new.data[s] = Single
  /\ old.completed_job_types \subseteq new.completed_job_types

Changes(u, p, new) ==
  /\ p \in Owned(u)
  /\ projects' = [projects EXCEPT ![p] = new]
  /\ new.owner = u
  /\ Fits(new, DOMAIN heap)
  /\ Advances(projects[p], new)
  /\ jobs \subseteq jobs'
  /\ actor' = u
  /\ UNCHANGED <<counter, heap, custom_prompts, deleted>>

\* The store of projects stays as it is.
Leaves ==
  /\ UNCHANGED <<counter, projects, heap, jobs, deleted>>
  /\ \A key \in DOMAIN custom_prompts : key[1] # actor' =>
       key \in DOMAIN custom_prompts' /\ custom_prompts'[key] = custom_prompts[key]

LEMMA CreateShape ==
  ASSUME StoreInv, NEW u \in Users, Create(u)
  PROVE  Adds(u, NewProject(u))
<1> DEFINE new == NewProject(u)
<1>1. /\ IsProject(new) /\ new.owner = u /\ new.completed_steps = {} /\ new.data = Empty
      /\ new.scenes_with_sfx = {}
  BY NewProjectFields
<1>2. DOMAIN new.data = {}
  BY <1>1 DEF Empty
<1>3. projects' = Put(projects, NextId, new)
  BY DEF Create
<1> HIDE DEF new
<1>4. Fits(new, DOMAIN heap)
  BY <1>1, <1>2 DEF Fits
<1>5. Adds(u, new)
  BY <1>1, <1>2, <1>3, <1>4 DEF Create, Adds
<1>6. QED
  BY <1>5 DEF new

LEMMA DuplicateShape ==
  ASSUME StoreInv, NEW u \in Users, NEW p \in Ids, NEW given, Duplicate(u, p, given)
  PROVE  \E new : Adds(u, new)
<1>1. PICK new : /\ \E name : new = CopyOf(projects[p], u, name)
                 /\ projects' = Put(projects, NextId, new)
  BY DEF Duplicate
<1>2. p \in Owned(u) /\ projects[p].owner = u /\ Fits(projects[p], DOMAIN heap)
  BY DEF Duplicate, MayAct, Owned, StoreInv
<1>3. IsProject(new) /\ new.owner = u /\ SameProgress(projects[p], new)
  BY <1>1, <1>2, CopyFields DEF Fits
<1>4. Fits(new, DOMAIN heap) /\ new.data = projects[p].data
  BY <1>2, <1>3 DEF Fits, SameProgress
<1>5. Adds(u, new)
  BY <1>1, <1>2, <1>3, <1>4 DEF Adds, Duplicate
<1>6. QED
  BY <1>5

\* A project whose results and rendered assets stay as they are.
LEMMA SameProgressShape ==
  ASSUME StoreInv, NEW u \in Users, NEW p \in Owned(u), NEW new,
         IsProject(new), new.owner = projects[p].owner, SameProgress(projects[p], new)
  PROVE  new.owner = u /\ Fits(new, DOMAIN heap) /\ Advances(projects[p], new)
<1>1. p \in Ids /\ projects[p].owner = u /\ Fits(projects[p], DOMAIN heap)
  BY DEF Owned, StoreInv
<1>2. QED
  BY <1>1 DEF Fits, SameProgress, Advances

LEMMA SelectMusicShape ==
  ASSUME StoreInv, NEW u \in Users, NEW p \in Ids, NEW mood, SelectMusic(u, p, mood)
  PROVE  \E new : Changes(u, p, new)
<1>1. PICK new : /\ new = [projects[p] EXCEPT !.music_mood = mood]
                 /\ projects' = [projects EXCEPT ![p] = new]
  BY DEF SelectMusic, Set
<1>2. p \in Owned(u) /\ IsProject(projects[p])
  BY DEF SelectMusic, StoreInv, Fits
<1>3. new.owner = u /\ Fits(new, DOMAIN heap) /\ Advances(projects[p], new)
  BY <1>1, <1>2, MoodFields, SameProgressShape
<1>4. Changes(u, p, new)
  BY <1>1, <1>2, <1>3 DEF Changes, SelectMusic
<1>5. QED
  BY <1>4

\* add_scene, remove_scene and update_scene
LEMMA SceneShape ==
  ASSUME StoreInv, NEW u \in Users, NEW p \in Ids, NEW scenes, p \in Owned(u),
         Set(p, [projects[p] EXCEPT !.scenes = scenes]), actor' = u,
         UNCHANGED <<counter, heap, jobs, custom_prompts, deleted>>
  PROVE  \E new : Changes(u, p, new)
<1>1. PICK new : /\ new = [projects[p] EXCEPT !.scenes = scenes]
                 /\ projects' = [projects EXCEPT ![p] = new]
  BY DEF Set
<1>2. IsProject(projects[p])
  BY DEF StoreInv, Fits
<1>3. new.owner = u /\ Fits(new, DOMAIN heap) /\ Advances(projects[p], new)
  BY <1>1, <1>2, SceneFields, SameProgressShape
<1>4. Changes(u, p, new)
  BY <1>1, <1>3 DEF Changes
<1>5. QED
  BY <1>4

LEMMA SaveStepShape ==
  ASSUME StoreInv, NEW u \in Users, NEW p \in Ids, NEW s, SaveStep(u, p, s)
  PROVE  \E new : Changes(u, p, new)
<1> DEFINE old == projects[p]
<1>1. PICK new : new = WithResult(old, s, Single) /\ projects' = [projects EXCEPT ![p] = new]
  BY DEF SaveStep, Set
<1>2. p \in Owned(u) /\ old.owner = u /\ Fits(old, DOMAIN heap)
  BY DEF SaveStep, Owned, StoreInv
<1>3. s \in DOMAIN old.data => old.data[s] = Single
  BY DEF SaveStep, SaveSingle
<1> HIDE DEF old
<1>4. /\ IsProject(new)
      /\ SameMedia(old, new)
      /\ new.completed_steps = old.completed_steps \union {s}
      /\ new.data = Put(old.data, s, Single)
  BY <1>1, <1>2, ResultFields DEF Fits
<1>5. /\ DOMAIN new.data = DOMAIN old.data \union {s}
      /\ new.data[s] = Single
      /\ \A t \in DOMAIN old.data : new.data[t] = old.data[t]
  BY <1>3, <1>4 DEF Put
<1>6. Fits(new, DOMAIN heap) /\ Advances(old, new) /\ new.owner = u
  BY <1>2, <1>4, <1>5 DEF Fits, Advances, SameMedia
<1>7. Changes(u, p, new)
  BY <1>1, <1>2, <1>6 DEF Changes, SaveStep, old
<1>8. QED
  BY <1>7

\* The part of submit_job that changes the project.
LEMMA JobShape ==
  ASSUME StoreInv, NEW u \in Users, NEW p \in Ids, NEW type, p \in Owned(u),
         Set(p, WithJob(projects[p], type)), StoreJob(p, type), actor' = u,
         UNCHANGED <<counter, heap, custom_prompts, deleted>>
  PROVE  \E new : /\ Changes(u, p, new)
                  /\ new.completed_job_types = projects[p].completed_job_types \union {type}
<1> DEFINE old == projects[p]
<1>1. PICK new : new = WithJob(old, type) /\ projects' = [projects EXCEPT ![p] = new]
  BY DEF Set
<1>2. old.owner = u /\ Fits(old, DOMAIN heap)
  BY DEF Owned, StoreInv
<1> HIDE DEF old
<1>3. /\ IsProject(new)
      /\ new.owner = old.owner
      /\ new.completed_steps = old.completed_steps
      /\ new.data = old.data
      /\ new.completed_job_types = old.completed_job_types \union {type}
      /\ type # "generate_sfx" => new.scenes_with_sfx = old.scenes_with_sfx
  BY <1>1, <1>2, JobFields DEF Fits
<1>4. Fits(new, DOMAIN heap)
  BY <1>2, <1>3 DEF Fits
<1>5. Advances(old, new)
  BY <1>3 DEF Advances
<1>6. Changes(u, p, new)
  BY <1>1, <1>2, <1>3, <1>4, <1>5 DEF Changes, StoreJob, old
<1>7. QED
  BY <1>3, <1>6 DEF old

LEMMA Shapes ==
  ASSUME StoreInv, [Next]_vars
  PROVE  \/ \E u \in Users : \E new : Adds(u, new)
         \/ \E u \in Users, p \in Ids : \E new : Changes(u, p, new)
         \/ \E u \in Users, p \in 1..MaxProjects : Delete(u, p)
         \/ \E u \in Users, p \in Ids, s \in PromptNames, i \in 0..MaxScene,
               result \in ResultValues : SaveSceneStep(u, p, s, i, result)
         \/ Leaves
<1> DEFINE Goal ==
  \/ \E u \in Users : \E new : Adds(u, new)
  \/ \E u \in Users, p \in Ids : \E new : Changes(u, p, new)
  \/ \E u \in Users, p \in 1..MaxProjects : Delete(u, p)
  \/ \E u \in Users, p \in Ids, s \in PromptNames, i \in 0..MaxScene,
        result \in ResultValues : SaveSceneStep(u, p, s, i, result)
  \/ Leaves
<1>1. ASSUME NEW u \in Users, Create(u) PROVE Goal
  BY <1>1, CreateShape
<1>2. ASSUME NEW u \in Users, NEW p \in Ids, NEW given, Duplicate(u, p, given) PROVE Goal
  BY <1>2, DuplicateShape
<1>3. ASSUME NEW u \in Users, NEW p \in Ids, NEW s, SaveStep(u, p, s) PROVE Goal
  BY <1>3, SaveStepShape
<1>4. ASSUME NEW u \in Users, NEW s \in PromptNames, NEW template,
             SetCustomPrompt(u, s, template)
      PROVE  Goal
  <2>1. /\ actor' = u
        /\ custom_prompts' = Put(custom_prompts, <<u, s>>, template)
        /\ UNCHANGED <<counter, projects, heap, jobs, deleted>>
    BY <1>4 DEF SetCustomPrompt
  <2>2. ASSUME NEW key \in DOMAIN custom_prompts, key[1] # u
        PROVE  key \in DOMAIN custom_prompts' /\ custom_prompts'[key] = custom_prompts[key]
    <3>1. key # <<u, s>>
      BY <2>2
    <3>2. QED
      BY <2>1, <3>1 DEF Put
  <2>3. Leaves
    BY <2>1, <2>2 DEF Leaves
  <2>4. QED
    BY <2>3
<1>5. ASSUME NEW u \in Users, NEW p \in Ids, NEW type, Generate(u, p, type) PROVE Goal
  BY <1>5, JobShape DEF Generate
<1>6. ASSUME NEW u \in Users, NEW p \in Ids, NEW mood, SelectMusic(u, p, mood) PROVE Goal
  BY <1>6, SelectMusicShape
<1>7. ASSUME NEW u \in Users, NEW p \in Ids, NEW skipped, CheckCompile(u, p, skipped)
      PROVE  Goal
  BY <1>7 DEF CheckCompile, Leaves
<1>8. ASSUME NEW c \in compiling, SubmitCompile(c) PROVE Goal
  <2>1. c.project \in Owned(c.user)
    BY <1>8 DEF SubmitCompile
  <2>2. c.project \in Ids /\ c.user \in Users
    BY <2>1 DEF Owned, StoreInv, Fits
  <2>3. QED
    BY <1>8, <2>1, <2>2, JobShape DEF SubmitCompile
<1>9. ASSUME NEW c \in compiling, AbandonCompile(c) PROVE Goal
  BY <1>9 DEF AbandonCompile, Leaves
<1>10. ASSUME NEW u \in Users, NEW p \in Ids, NEW text, AddScene(u, p, text) PROVE Goal
  BY <1>10, SceneShape DEF AddScene
<1>11. ASSUME NEW u \in Users, NEW p \in Ids, NEW i, RemoveScene(u, p, i) PROVE Goal
  BY <1>11, SceneShape DEF RemoveScene
<1>12. ASSUME NEW u \in Users, NEW p \in Ids, NEW i, NEW text, UpdateScene(u, p, i, text)
       PROVE  Goal
  BY <1>12, SceneShape DEF UpdateScene
<1>13. CASE UNCHANGED vars
  BY <1>13 DEF vars, Leaves
<1>14. ASSUME Next PROVE Goal
  <2>1. ASSUME NEW u \in Users, NEW p \in 1..MaxProjects, Delete(u, p) PROVE Goal
    BY <2>1
  <2>2. ASSUME NEW u \in Users, NEW p \in Ids, NEW s \in PromptNames, NEW i \in 0..MaxScene,
               NEW result \in ResultValues, SaveSceneStep(u, p, s, i, result)
        PROVE  Goal
    BY <2>2
  <2> HIDE DEF Goal
  <2>3. QED
    BY <1>14, <1>1, <1>2, <1>3, <1>4, <1>5, <1>6, <1>7, <1>8, <1>9, <1>10, <1>11, <1>12,
       <2>1, <2>2 DEF Next
<1>15. QED
  BY <1>13, <1>14

-----------------------------------------------------------------------------
(***************************************************************************)
(* Every shape keeps the invariant.                                        *)
(***************************************************************************)

LEMMA AddsStep ==
  ASSUME StoreInv, NEW u \in Users, NEW new, Adds(u, new)
  PROVE  StoreInv'
<1>1. /\ NextId \notin Ids /\ NextId \notin deleted
      /\ NextId \in 1..(counter + 1) /\ counter + 1 \in Nat
      /\ 1..counter \subseteq 1..(counter + 1)
  BY DEF NextId, StoreInv, IdsOK
<1>2. /\ Ids' = Ids \union {NextId}
      /\ projects'[NextId] = new
      /\ \A p \in Ids : projects'[p] = projects[p]
      /\ counter' = counter + 1
      /\ UNCHANGED <<heap, deleted>>
  BY <1>1 DEF Adds, Ids, Put
<1>3. IdsOK'
  BY <1>1, <1>2 DEF StoreInv, IdsOK, DeletedStaysDeleted
<1>4. HeapOK'
  BY <1>2 DEF StoreInv, HeapOK
<1>5. \A p \in Ids' : Fits(projects'[p], DOMAIN heap')
  BY <1>2 DEF Adds, StoreInv
<1>6. BucketsPrivate'
  <2>1. ASSUME NEW q \in Ids, Buckets(new) \intersect Buckets(projects[q]) # {}
        PROVE  projects[q].owner = new.owner
    <3>1. PICK b \in Buckets(new) : b \in Buckets(projects[q])
      BY <2>1
    <3>2. PICK r \in Owned(u) : b \in Buckets(projects[r])
      BY <3>1 DEF Adds, Buckets
    <3>3. r \in Ids /\ projects[r].owner = u /\ new.owner = u
      BY <3>2 DEF Owned, Adds
    <3>4. QED
      BY <3>1, <3>2, <3>3 DEF StoreInv, BucketsPrivate
  <2>2. SUFFICES ASSUME NEW p \in Ids', NEW q \in Ids',
                        Buckets(projects'[p]) \intersect Buckets(projects'[q]) # {}
                 PROVE  projects'[p].owner = projects'[q].owner
    BY DEF BucketsPrivate
  <2>3. CASE p \in Ids /\ q \in Ids
    BY <1>2, <2>2, <2>3 DEF StoreInv, BucketsPrivate
  <2>4. CASE p = NextId /\ q \in Ids
    BY <1>2, <2>1, <2>2, <2>4
  <2>5. CASE p \in Ids /\ q = NextId
    BY <1>2, <2>1, <2>2, <2>5
  <2>6. CASE p = NextId /\ q = NextId
    BY <2>6
  <2>7. QED
    BY <1>2, <2>3, <2>4, <2>5, <2>6
<1>7. OneStep'
  <2>1. DOMAIN new.data = {} \/ \E q \in Ids : Within(new, projects[q])
    BY DEF Adds, Owned, Within
  <2>2. \A q \in Ids : Within(projects'[q], projects[q])
    BY <1>2 DEF Within
  <2>3. QED
    BY <1>2, <2>1, <2>2, OneStepStays DEF StoreInv
<1>8. QED
  BY <1>3, <1>4, <1>5, <1>6, <1>7 DEF StoreInv

LEMMA ChangesStep ==
  ASSUME StoreInv, NEW u \in Users, NEW p \in Ids, NEW new, Changes(u, p, new)
  PROVE  StoreInv'
<1>1. /\ Ids' = Ids
      /\ projects'[p] = new
      /\ \A q \in Ids : q # p => projects'[q] = projects[q]
      /\ UNCHANGED <<counter, heap, deleted>>
  BY DEF Changes, Ids
<1>2. Buckets(new) \subseteq Buckets(projects[p]) /\ new.owner = projects[p].owner
  BY DEF Changes, Advances, Buckets, Owned
<1>3. IdsOK' /\ HeapOK'
  BY <1>1 DEF StoreInv, IdsOK, HeapOK, DeletedStaysDeleted
<1>4. \A q \in Ids' : Fits(projects'[q], DOMAIN heap')
  BY <1>1 DEF Changes, StoreInv
<1>5. \A q \in Ids : /\ Buckets(projects'[q]) \subseteq Buckets(projects[q])
                     /\ projects'[q].owner = projects[q].owner
  BY <1>1, <1>2
<1>6. BucketsPrivate'
  BY <1>1, <1>5 DEF StoreInv, BucketsPrivate
<1>7. OneStep'
  <2>1. Within(new, projects[p])
    BY DEF Changes, Advances, Within
  <2>2. \A q \in Ids : Within(projects'[q], projects[q])
    BY <1>1, <2>1 DEF Within
  <2>3. QED
    BY <1>1, <2>2, OneStepStays DEF StoreInv
<1>8. QED
  BY <1>3, <1>4, <1>6, <1>7 DEF StoreInv

LEMMA DeleteStep ==
  ASSUME StoreInv, NEW u \in Users, NEW p \in 1..MaxProjects, Delete(u, p)
  PROVE  StoreInv'
<1>1. /\ Ids' = Ids \ (Owned(u) \intersect {p})
      /\ \A q \in Ids' : projects'[q] = projects[q]
      /\ deleted' = deleted \union (Owned(u) \intersect {p})
      /\ UNCHANGED <<counter, heap>>
  BY DEF Delete, Ids
<1>2. Owned(u) \subseteq Ids
  BY DEF Owned
<1>3. IdsOK'
  BY <1>1, <1>2 DEF StoreInv, IdsOK, DeletedStaysDeleted
<1>4. HeapOK'
  BY <1>1 DEF StoreInv, HeapOK
<1>5. (\A q \in Ids' : Fits(projects'[q], DOMAIN heap')) /\ BucketsPrivate'
  BY <1>1 DEF StoreInv, BucketsPrivate
<1>6. OneStep'
  BY <1>1 DEF StoreInv, OneStep
<1>7. QED
  BY <1>3, <1>4, <1>5, <1>6 DEF StoreInv

\* What saving the result of a scene does to the project and to its bucket.
SavedIn(u, p, s, b, new) ==
  /\ p \in Owned(u)
  /\ projects' = [projects EXCEPT ![p] = new]
  /\ IsProject(new)
  /\ SameMedia(projects[p], new)
  /\ new.completed_steps = projects[p].completed_steps \union {s}
  /\ DOMAIN new.data = DOMAIN projects[p].data \union {s}
  /\ new.data[s] = b
  /\ b # Single
  /\ \A t \in DOMAIN projects[p].data : new.data[t] = projects[p].data[t]
  /\ b \in Buckets(projects[p]) \/ b \notin DOMAIN heap
  /\ s \in DOMAIN projects[p].data \/ b \notin DOMAIN heap

\* What it does to the heap.
SavedAt(b, i, result) ==
  /\ DOMAIN heap' = DOMAIN heap \union {b}
  /\ i \in DOMAIN heap'[b]
  /\ heap'[b][i] = result
  /\ b \in DOMAIN heap =>
       \A j \in DOMAIN heap[b] :
         j \in DOMAIN heap'[b] /\ (j # i => heap'[b][j] = heap[b][j])
  /\ \A c \in DOMAIN heap : c # b => heap'[c] = heap[c]
  /\ \E n \in Nat : DOMAIN heap' = 1..n

LEMMA SaveSceneShape ==
  ASSUME StoreInv, NEW u \in Users, NEW p \in Ids, NEW s, NEW i, NEW result,
         SaveSceneStep(u, p, s, i, result)
  PROVE  \E b, new : SavedIn(u, p, s, b, new) /\ SavedAt(b, i, result)
<1> DEFINE b == BucketFor(projects[p], s)
           old == IF b \in DOMAIN heap THEN heap[b] ELSE Empty
           saved == Accumulate(old, i, result)
<1>1. PICK new : new = WithResult(projects[p], s, b) /\ projects' = [projects EXCEPT ![p] = new]
  BY DEF SaveSceneStep, Set
<1>2. p \in Owned(u) /\ Fits(projects[p], DOMAIN heap) /\ HeapOK
  BY DEF SaveSceneStep, StoreInv
<1>3. heap' = Put(heap, b, saved)
  BY DEF SaveSceneStep
<1>4. /\ s \in DOMAIN projects[p].data => b = projects[p].data[s]
      /\ b # Single
      /\ b \in Buckets(projects[p]) \/ b \notin DOMAIN heap
      /\ s \in DOMAIN projects[p].data \/ b \notin DOMAIN heap
      /\ \E n \in Nat : DOMAIN heap \union {b} = 1..n
  <2>1. CASE s \in DOMAIN projects[p].data
    <3>1. projects[p].data[s] # Single
      BY <2>1 DEF SaveSceneStep, SavePerScene
    <3>2. b = projects[p].data[s]
      BY <2>1, <3>1 DEF BucketFor
    <3>3. b \in DOMAIN heap /\ b \in Buckets(projects[p])
      BY <1>2, <2>1, <3>1, <3>2 DEF Fits, Buckets
    <3>4. DOMAIN heap \union {b} = DOMAIN heap
      BY <3>3
    <3>5. QED
      BY <1>2, <2>1, <3>1, <3>2, <3>3, <3>4 DEF HeapOK
  <2>2. CASE s \notin DOMAIN projects[p].data
    BY <1>2, <2>2, FreshBucket DEF BucketFor
  <2>3. QED
    BY <2>1, <2>2
<1>5. /\ i \in DOMAIN saved /\ saved[i] = result
      /\ \A j \in DOMAIN old : j \in DOMAIN saved /\ (j # i => saved[j] = old[j])
  BY DEF Accumulate, Put
<1> HIDE DEF b, old, saved
<1>6. /\ IsProject(new)
      /\ SameMedia(projects[p], new)
      /\ new.completed_steps = projects[p].completed_steps \union {s}
      /\ new.data = Put(projects[p].data, s, b)
  BY <1>1, <1>2, ResultFields DEF Fits
<1>7. /\ DOMAIN new.data = DOMAIN projects[p].data \union {s}
      /\ new.data[s] = b
      /\ \A t \in DOMAIN projects[p].data : new.data[t] = projects[p].data[t]
  BY <1>4, <1>6 DEF Put
<1>8. SavedIn(u, p, s, b, new)
  BY <1>1, <1>2, <1>4, <1>6, <1>7 DEF SavedIn
<1>9. /\ DOMAIN heap' = DOMAIN heap \union {b}
      /\ heap'[b] = saved
      /\ \A c \in DOMAIN heap : c # b => heap'[c] = heap[c]
  BY <1>3 DEF Put
<1>10. b \in DOMAIN heap => old = heap[b]
  BY DEF old
<1>11. SavedAt(b, i, result)
  BY <1>4, <1>5, <1>9, <1>10 DEF SavedAt
<1>12. QED
  BY <1>8, <1>11

LEMMA SaveSceneStepKeeps ==
  ASSUME StoreInv, NEW u \in Users, NEW p \in Ids, NEW s, NEW i, NEW result,
         SaveSceneStep(u, p, s, i, result)
  PROVE  StoreInv'
<1>0. PICK b, new : SavedIn(u, p, s, b, new) /\ SavedAt(b, i, result)
  BY SaveSceneShape
<1>1. /\ SavedIn(u, p, s, b, new)
      /\ DOMAIN heap' = DOMAIN heap \union {b}
      /\ i \in DOMAIN heap'[b]
      /\ \A c \in DOMAIN heap : c # b => heap'[c] = heap[c]
      /\ \E n \in Nat : DOMAIN heap' = 1..n
  BY <1>0 DEF SavedAt
<1>2. /\ Ids' = Ids
      /\ projects'[p] = new
      /\ \A q \in Ids : q # p => projects'[q] = projects[q]
  BY <1>1 DEF SavedIn, Ids
<1>3. IdsOK'
  BY <1>2 DEF SaveSceneStep, StoreInv, IdsOK, DeletedStaysDeleted
<1>4. HeapOK'
  BY <1>1 DEF StoreInv, HeapOK
<1>5. \A q \in Ids' : Fits(projects'[q], DOMAIN heap')
  <2>1. \A q \in Ids : Fits(projects[q], DOMAIN heap')
    BY <1>1 DEF StoreInv, Fits
  <2>2. Fits(new, DOMAIN heap')
    BY <1>1, <2>1 DEF SavedIn, Fits, SameMedia
  <2>3. QED
    BY <1>2, <2>1, <2>2
<1>6. BucketsPrivate'
  <2>1. Buckets(new) = Buckets(projects[p]) \union {b} /\ new.owner = projects[p].owner
    BY <1>1 DEF SavedIn, Buckets, SameMedia
  <2>2. ASSUME NEW q \in Ids, b \in Buckets(projects[q])
        PROVE  projects[q].owner = projects[p].owner
    <3>1. b \in DOMAIN heap
      BY <2>2 DEF StoreInv, Fits, Buckets
    <3>2. b \in Buckets(projects[p])
      BY <1>1, <3>1 DEF SavedIn
    <3>3. QED
      BY <2>2, <3>2 DEF StoreInv, BucketsPrivate
  <2>3. ASSUME NEW q \in Ids, q # p, Buckets(projects[q]) \intersect Buckets(new) # {}
        PROVE  projects[q].owner = new.owner
    <3>1. PICK c \in Buckets(new) : c \in Buckets(projects[q])
      BY <2>3
    <3>2. CASE c = b
      BY <2>1, <2>2, <3>1, <3>2
    <3>3. CASE c \in Buckets(projects[p])
      BY <2>1, <3>1, <3>3 DEF StoreInv, BucketsPrivate
    <3>4. QED
      BY <2>1, <3>1, <3>2, <3>3
  <2>4. SUFFICES ASSUME NEW q \in Ids, NEW r \in Ids,
                        Buckets(projects'[q]) \intersect Buckets(projects'[r]) # {}
                 PROVE  projects'[q].owner = projects'[r].owner
    BY <1>2 DEF BucketsPrivate
  <2>5. CASE q # p /\ r # p
    BY <1>2, <2>4, <2>5 DEF StoreInv, BucketsPrivate
  <2>6. CASE q = p /\ r # p
    BY <1>2, <2>3, <2>4, <2>6
  <2>7. CASE q # p /\ r = p
    BY <1>2, <2>3, <2>4, <2>7
  <2>8. QED
    BY <2>5, <2>6, <2>7
<1>7. OneStep'
  <2>1. CASE s \in DOMAIN projects[p].data
    <3>1. Within(new, projects[p])
      BY <1>1, <2>1 DEF SavedIn, Within
    <3>2. \A q \in Ids : Within(projects'[q], projects[q])
      BY <1>2, <3>1 DEF Within
    <3>3. QED
      BY <1>2, <3>2, OneStepStays DEF StoreInv
  <2>2. CASE b \notin DOMAIN heap
    <3>1. \A q \in Ids : \A t \in DOMAIN projects[q].data : projects[q].data[t] # b
      BY <1>1, <2>2 DEF StoreInv, Fits, SavedIn
    <3>2. \A q \in Ids : \A t \in DOMAIN projects'[q].data :
            \/ q = p /\ t = s /\ projects'[q].data[t] = b
            \/ t \in DOMAIN projects[q].data /\ projects'[q].data[t] = projects[q].data[t]
      BY <1>1, <1>2 DEF SavedIn
    <3>3. SUFFICES ASSUME NEW q \in Ids, NEW r \in Ids,
                          NEW t \in DOMAIN projects'[q].data,
                          NEW o \in DOMAIN projects'[r].data,
                          projects'[q].data[t] # Single,
                          projects'[q].data[t] = projects'[r].data[o]
                   PROVE  t = o
      BY <1>2 DEF OneStep, SameStep
    <3>4. CASE projects'[q].data[t] = b
      BY <3>1, <3>2, <3>3, <3>4
    <3>5. CASE projects'[q].data[t] # b
      BY <3>2, <3>3, <3>5 DEF StoreInv, OneStep, SameStep
    <3>6. QED
      BY <3>4, <3>5
  <2>3. QED
    BY <1>1, <2>1, <2>2 DEF SavedIn
<1>8. QED
  BY <1>3, <1>4, <1>5, <1>6, <1>7 DEF StoreInv

LEMMA StoreStep == StoreInv /\ [Next]_vars => StoreInv'
<1> SUFFICES ASSUME StoreInv, [Next]_vars PROVE StoreInv'
  OBVIOUS
<1>1. CASE Leaves
  <2>1. UNCHANGED <<counter, projects, heap, deleted>>
    BY <1>1 DEF Leaves
  <2>2. QED
    BY <2>1 DEF StoreInv, IdsOK, HeapOK, BucketsPrivate, OneStep, Ids, DeletedStaysDeleted
<1>2. QED
  BY <1>1, Shapes, AddsStep, ChangesStep, DeleteStep, SaveSceneStepKeeps

THEOREM StoreInvariant == Spec => []StoreInv
<1>1. Init => StoreInv
  <2> SUFFICES ASSUME Init PROVE StoreInv
    OBVIOUS
  <2>1. DOMAIN Empty = {} /\ 1..0 = {} /\ 0 \in Nat
    BY DEF Empty
  <2>2. Ids = {} /\ DOMAIN heap = {} /\ counter = 0 /\ deleted = {}
    BY <2>1 DEF Init, Ids
  <2>3. QED
    BY <2>1, <2>2 DEF StoreInv, IdsOK, HeapOK, BucketsPrivate, OneStep, DeletedStaysDeleted
<1>2. QED
  BY <1>1, StoreStep, PTL DEF Spec

\* Completed steps are those with a result, and per-scene results are never
\* empty, whoever shares them.
THEOREM StepsAlwaysHaveResults == Spec => []StepsHaveResults
<1>1. StoreInv => StepsHaveResults
  BY DEF StoreInv, HeapOK, Fits, StepsHaveResults
<1>2. QED
  BY <1>1, StoreInvariant, PTL

\* What is kept by scene and by job type agrees, in copies too.
THEOREM SfxAlwaysMeansLayer == Spec => []SfxMeansLayer
<1>1. StoreInv => SfxMeansLayer
  BY DEF StoreInv, Fits, SfxMeansLayer, Missing
<1>2. QED
  BY <1>1, StoreInvariant, PTL

\* No project ever gets the id of a deleted one.
THEOREM DeletedForEver == Spec => []DeletedStaysDeleted
<1>1. StoreInv => DeletedStaysDeleted
  BY DEF StoreInv, IdsOK
<1>2. QED
  BY <1>1, StoreInvariant, PTL

-----------------------------------------------------------------------------
(***************************************************************************)
(* What a step does to the results a reader sees.                          *)
(***************************************************************************)

\* Results(p), for a given project record and heap.
View(st, h) ==
  [s \in DOMAIN st.data |->
     [kind |-> IF st.data[s] = Single THEN "single" ELSE "per_scene",
      scenes |-> IF st.data[s] = Single THEN Empty ELSE h[st.data[s]]]]

LEMMA ResultsAreViews ==
  ASSUME NEW p
  PROVE  Results(p) = View(projects[p], heap) /\ Results(p)' = View(projects'[p], heap')
  BY DEF Results, View

LEMMA ViewFields ==
  ASSUME NEW st, NEW h
  PROVE  /\ DOMAIN View(st, h) = DOMAIN st.data
         /\ \A s \in DOMAIN st.data :
              /\ View(st, h)[s].kind = IF st.data[s] = Single THEN "single" ELSE "per_scene"
              /\ View(st, h)[s].scenes = IF st.data[s] = Single THEN Empty ELSE h[st.data[s]]
  BY DEF View

\* Every step old has a result for has it in the same place in new.
KeepsData(old, new) ==
  \A s \in DOMAIN old.data : s \in DOMAIN new.data /\ new.data[s] = old.data[s]

LEMMA DataStep ==
  ASSUME StoreInv, [Next]_vars
  PROVE  /\ \A p \in Ids \intersect Ids' :
              /\ KeepsData(projects[p], projects'[p])
              /\ projects[p].completed_job_types \subseteq projects'[p].completed_job_types
         /\ jobs \subseteq jobs'
<1> DEFINE Kept(p) == /\ KeepsData(projects[p], projects'[p])
                      /\ projects[p].completed_job_types \subseteq projects'[p].completed_job_types
           Goal == (\A p \in Ids \intersect Ids' : Kept(p)) /\ jobs \subseteq jobs'
<1>1. ASSUME NEW p, projects'[p] = projects[p] PROVE Kept(p)
  BY <1>1 DEF KeepsData
<1>2. ASSUME NEW u \in Users, NEW new, Adds(u, new) PROVE Goal
  <2>1. NextId \notin Ids
    BY DEF NextId, StoreInv, IdsOK
  <2>2. \A p \in Ids : projects'[p] = projects[p]
    BY <1>2, <2>1 DEF Adds, Ids, Put
  <2>3. QED
    BY <1>1, <1>2, <2>2 DEF Adds
<1>3. ASSUME NEW u \in Users, NEW p \in Ids, NEW new, Changes(u, p, new) PROVE Goal
  <2>1. /\ projects'[p] = new
        /\ \A q \in Ids : q # p => projects'[q] = projects[q]
        /\ jobs \subseteq jobs'
    BY <1>3 DEF Changes, Ids
  <2>2. Kept(p)
    BY <1>3, <2>1 DEF Changes, Advances, KeepsData
  <2>3. QED
    BY <1>1, <2>1, <2>2
<1>4. ASSUME NEW u \in Users, NEW p \in 1..MaxProjects, Delete(u, p) PROVE Goal
  <2>1. \A q \in Ids' : projects'[q] = projects[q]
    BY <1>4 DEF Delete, Ids
  <2>2. QED
    BY <1>1, <1>4, <2>1 DEF Delete
<1>5. ASSUME NEW u \in Users, NEW p \in Ids, NEW s, NEW i, NEW result,
             SaveSceneStep(u, p, s, i, result)
      PROVE  Goal
  <2>1. PICK b, new : SavedIn(u, p, s, b, new)
    BY <1>5, SaveSceneShape
  <2>2. /\ projects'[p] = new
        /\ \A q \in Ids : q # p => projects'[q] = projects[q]
    BY <2>1 DEF SavedIn, Ids
  <2>3. Kept(p)
    BY <2>1, <2>2 DEF SavedIn, SameMedia, KeepsData
  <2>4. jobs' = jobs
    BY <1>5 DEF SaveSceneStep
  <2>5. QED
    BY <1>1, <2>2, <2>3, <2>4
<1>6. ASSUME Leaves PROVE Goal
  BY <1>1, <1>6 DEF Leaves
<1> HIDE DEF Goal
<1>7. Goal
  BY <1>2, <1>3, <1>4, <1>5, <1>6, Shapes
<1>8. QED
  BY <1>7 DEF Goal

\* Buckets and their entries stay, and but for entry i of bucket b, which may
\* become v, with their values.
HeapKept(b, i, v) ==
  \A c \in DOMAIN heap : \A j \in DOMAIN heap[c] :
    /\ j \in DOMAIN heap'[c]
    /\ heap'[c][j] # heap[c][j] => c = b /\ j = i /\ heap'[c][j] = v

LEMMA HeapStep ==
  ASSUME StoreInv, [Next]_vars
  PROVE  \E b, i, v : HeapKept(b, i, v)
<1>1. ASSUME heap' = heap PROVE \E b, i, v : HeapKept(b, i, v)
  BY <1>1 DEF HeapKept
<1>2. ASSUME NEW u \in Users, NEW p \in Ids, NEW s, NEW i, NEW result,
             SaveSceneStep(u, p, s, i, result)
      PROVE  \E b, j, v : HeapKept(b, j, v)
  <2>1. PICK b, new : SavedIn(u, p, s, b, new) /\ SavedAt(b, i, result)
    BY <1>2, SaveSceneShape
  <2>2. HeapKept(b, i, result)
    BY <2>1 DEF HeapKept, SavedAt
  <2>3. QED
    BY <2>2
<1>3. \/ heap' = heap
      \/ \E u \in Users, p \in Ids, s \in PromptNames, i \in 0..MaxScene,
           result \in ResultValues : SaveSceneStep(u, p, s, i, result)
  BY Shapes DEF Adds, Changes, Delete, Leaves
<1>4. QED
  BY <1>1, <1>2, <1>3

\* What ProgressIsKept asks of one project.
ProgressOf(p) ==
  /\ projects[p].completed_steps \subseteq projects'[p].completed_steps
  /\ projects[p].completed_job_types \subseteq projects'[p].completed_job_types
  /\ \A s \in DOMAIN Results(p) :
       /\ s \in DOMAIN Results(p)'
       /\ Results(p)[s].kind = Results(p)'[s].kind
       /\ DOMAIN Results(p)[s].scenes \subseteq DOMAIN Results(p)'[s].scenes

LEMMA KeepsProgress ==
  ASSUME StoreInv, StoreInv', NEW p \in Ids \intersect Ids',
         projects[p].completed_job_types \subseteq projects'[p].completed_job_types,
         KeepsData(projects[p], projects'[p]), NEW b, NEW i, NEW v, HeapKept(b, i, v)
  PROVE  ProgressOf(p)
<1>1. /\ projects[p].completed_steps = DOMAIN projects[p].data
      /\ projects'[p].completed_steps = DOMAIN projects'[p].data
      /\ \A s \in DOMAIN projects[p].data :
           projects[p].data[s] # Single => projects[p].data[s] \in DOMAIN heap
  BY DEF StoreInv, Fits
<1>2. projects[p].completed_steps \subseteq projects'[p].completed_steps
  BY <1>1 DEF KeepsData
<1>3. /\ Results(p) = View(projects[p], heap)
      /\ Results(p)' = View(projects'[p], heap')
  BY ResultsAreViews
<1>4. ASSUME NEW s \in DOMAIN View(projects[p], heap)
      PROVE  /\ s \in DOMAIN View(projects'[p], heap')
             /\ View(projects[p], heap)[s].kind = View(projects'[p], heap')[s].kind
             /\ DOMAIN View(projects[p], heap)[s].scenes
                  \subseteq DOMAIN View(projects'[p], heap')[s].scenes
  <2> DEFINE value == projects[p].data[s]
  <2>1. /\ s \in DOMAIN projects[p].data /\ s \in DOMAIN projects'[p].data
        /\ projects'[p].data[s] = value
    BY <1>4, ViewFields DEF KeepsData
  <2>2. CASE value = Single
    BY <2>1, <2>2, ViewFields
  <2>3. CASE value # Single
    <3>1. value \in DOMAIN heap /\ DOMAIN heap[value] \subseteq DOMAIN heap'[value]
      BY <1>1, <2>1, <2>3 DEF HeapKept
    <3>2. QED
      BY <2>1, <2>3, <3>1, ViewFields
  <2>4. QED
    BY <2>2, <2>3
<1>5. QED
  BY <1>2, <1>3, <1>4 DEF ProgressOf

\* A replaced result is the entry of the heap that changed.
LEMMA ReplacedEntry ==
  ASSUME StoreInv, NEW p, NEW s, NEW j, Replaces(p, s, j),
         \A q \in Ids \intersect Ids' : KeepsData(projects[q], projects'[q]),
         NEW b, NEW i, NEW v, HeapKept(b, i, v)
  PROVE  /\ p \in Ids /\ s \in DOMAIN projects[p].data
         /\ projects[p].data[s] # Single /\ projects[p].data[s] = b
         /\ j = i
         /\ Results(p)'[s].scenes[j] = v
<1> DEFINE value == projects[p].data[s]
<1>1. /\ p \in Ids \intersect Ids'
      /\ s \in DOMAIN View(projects[p], heap)
      /\ j \in DOMAIN View(projects[p], heap)[s].scenes
      /\ Results(p)'[s].scenes[j] # View(projects[p], heap)[s].scenes[j]
  BY ResultsAreViews DEF Replaces
<1>2. /\ s \in DOMAIN projects[p].data
      /\ s \in DOMAIN projects'[p].data /\ projects'[p].data[s] = value
  BY <1>1, ViewFields DEF KeepsData
<1>3. value # Single
  <2>1. DOMAIN Empty = {}
    BY DEF Empty
  <2>2. QED
    BY <1>1, <1>2, <2>1, ViewFields
<1>4. value \in DOMAIN heap
  BY <1>1, <1>2, <1>3 DEF StoreInv, Fits
<1>5. /\ View(projects[p], heap)[s].scenes = heap[value]
      /\ Results(p)'[s].scenes = heap'[value]
  BY <1>2, <1>3, ViewFields, ResultsAreViews
<1>6. j \in DOMAIN heap[value] /\ heap'[value][j] # heap[value][j]
  BY <1>1, <1>5
<1>7. value = b /\ j = i /\ heap'[value][j] = v
  BY <1>4, <1>6 DEF HeapKept
<1>8. QED
  BY <1>1, <1>2, <1>3, <1>5, <1>7

\* What ProgressIsKept asks of two replaced results.
OneReplaced(p, s, i, q, t, j) ==
  Replaces(p, s, i) /\ Replaces(q, t, j) =>
    s = t /\ i = j /\ Results(p)'[s].scenes[i] = Results(q)'[t].scenes[j]

LEMMA ProgressStep ==
  ASSUME StoreInv, [Next]_vars
  PROVE  /\ \A p \in Ids \intersect Ids' : ProgressOf(p)
         /\ \A p, s, i, q, t, j : OneReplaced(p, s, i, q, t, j)
         /\ jobs \subseteq jobs'
<1>1. StoreInv'
  BY StoreStep
<1>2. PICK b, k, v : HeapKept(b, k, v)
  BY HeapStep
<1>3. /\ \A p \in Ids \intersect Ids' :
           /\ KeepsData(projects[p], projects'[p])
           /\ projects[p].completed_job_types \subseteq projects'[p].completed_job_types
      /\ jobs \subseteq jobs'
  BY DataStep
<1>4. \A p \in Ids \intersect Ids' : ProgressOf(p)
  BY <1>1, <1>2, <1>3, KeepsProgress
<1>5. ASSUME NEW p, NEW s, NEW i, NEW q, NEW t, NEW j, Replaces(p, s, i), Replaces(q, t, j)
      PROVE  s = t /\ i = j /\ Results(p)'[s].scenes[i] = Results(q)'[t].scenes[j]
  <2>1. /\ p \in Ids /\ s \in DOMAIN projects[p].data
        /\ projects[p].data[s] # Single /\ projects[p].data[s] = b
        /\ i = k /\ Results(p)'[s].scenes[i] = v
    BY <1>2, <1>3, <1>5, ReplacedEntry
  <2>2. /\ q \in Ids /\ t \in DOMAIN projects[q].data /\ projects[q].data[t] = b
        /\ j = k /\ Results(q)'[t].scenes[j] = v
    BY <1>2, <1>3, <1>5, ReplacedEntry
  <2>3. SameStep(projects[p], projects[q])
    BY <2>1, <2>2 DEF StoreInv, OneStep
  <2>4. s = t
    BY <2>1, <2>2, <2>3 DEF SameStep
  <2>5. QED
    BY <2>1, <2>2, <2>4
<1>6. QED
  BY <1>3, <1>4, <1>5 DEF OneReplaced

\* While a project exists no step, scene or asset of it loses its result, and a
\* call replaces the result of at most one scene of one step: the one it saves,
\* in every copy that shares the bucket.  For any users, copies and scenes.
THEOREM ProgressAlwaysKept == Spec => ProgressIsKept
<1>1. StoreInv /\ [Next]_vars =>
        /\ \A p \in Ids \intersect Ids' :
             /\ projects[p].completed_steps \subseteq projects'[p].completed_steps
             /\ projects[p].completed_job_types \subseteq projects'[p].completed_job_types
             /\ \A s \in DOMAIN Results(p) :
                  /\ s \in DOMAIN Results(p)'
                  /\ Results(p)[s].kind = Results(p)'[s].kind
                  /\ DOMAIN Results(p)[s].scenes \subseteq DOMAIN Results(p)'[s].scenes
        /\ \A p \in Ids, s \in PromptNames, i \in 0..MaxScene : Replaces(p, s, i) =>
             \A q \in Ids, t \in PromptNames, j \in 0..MaxScene : Replaces(q, t, j) =>
               /\ s = t /\ i = j
               /\ Results(p)'[s].scenes[i] = Results(q)'[t].scenes[j]
        /\ jobs \subseteq jobs'
  BY ProgressStep DEF ProgressOf, OneReplaced
<1>2. QED
  BY <1>1, StoreInvariant, PTL DEF Spec, ProgressIsKept

-----------------------------------------------------------------------------
(***************************************************************************)
(* What a step does to the other users.                                    *)
(***************************************************************************)

\* What OthersUnaffected asks of one project.
Untouched(p) ==
  /\ p \in Ids'
  /\ projects'[p] = projects[p]
  /\ Results(p)' = Results(p)

PromptsUntouched ==
  \A key \in DOMAIN custom_prompts : key[1] # actor' =>
    key \in DOMAIN custom_prompts' /\ custom_prompts'[key] = custom_prompts[key]

LEMMA SameView ==
  ASSUME NEW st, NEW h, NEW g,
         \A s \in DOMAIN st.data : st.data[s] # Single => g[st.data[s]] = h[st.data[s]]
  PROVE  View(st, g) = View(st, h)
  BY DEF View

LEMMA UntouchedWhole ==
  ASSUME NEW p \in Ids, p \in Ids', projects'[p] = projects[p],
         \A s \in DOMAIN projects[p].data :
           projects[p].data[s] # Single =>
             heap'[projects[p].data[s]] = heap[projects[p].data[s]]
  PROVE  Untouched(p)
<1>1. View(projects[p], heap') = View(projects[p], heap)
  BY SameView
<1>2. Results(p) = View(projects[p], heap) /\ Results(p)' = View(projects'[p], heap')
  BY ResultsAreViews
<1>3. QED
  BY <1>1, <1>2 DEF Untouched

LEMMA OthersStep ==
  ASSUME StoreInv, [Next]_vars
  PROVE  /\ \A p \in Ids : projects[p].owner # actor' => Untouched(p)
         /\ PromptsUntouched
<1> DEFINE Goal == /\ \A p \in Ids : projects[p].owner # actor' => Untouched(p)
                   /\ PromptsUntouched
<1>1. ASSUME NEW u \in Users, NEW new, Adds(u, new) PROVE Goal
  <2>1. NextId \notin Ids
    BY DEF NextId, StoreInv, IdsOK
  <2>2. \A p \in Ids : p \in Ids' /\ projects'[p] = projects[p]
    BY <1>1, <2>1 DEF Adds, Ids, Put
  <2>3. UNCHANGED <<heap, custom_prompts>>
    BY <1>1 DEF Adds
  <2>4. QED
    BY <2>2, <2>3, UntouchedWhole DEF PromptsUntouched
<1>2. ASSUME NEW u \in Users, NEW p \in Ids, NEW new, Changes(u, p, new) PROVE Goal
  <2>1. /\ Ids' = Ids /\ actor' = u /\ projects[p].owner = u
        /\ \A q \in Ids : q # p => projects'[q] = projects[q]
        /\ UNCHANGED <<heap, custom_prompts>>
    BY <1>2 DEF Changes, Ids, Owned
  <2>2. QED
    BY <2>1, UntouchedWhole DEF PromptsUntouched
<1>3. ASSUME NEW u \in Users, NEW p \in 1..MaxProjects, Delete(u, p) PROVE Goal
  <2>1. /\ Ids' = Ids \ (Owned(u) \intersect {p})
        /\ \A q \in Ids' : projects'[q] = projects[q]
        /\ actor' = u
        /\ UNCHANGED <<heap, custom_prompts>>
    BY <1>3 DEF Delete, Ids
  <2>2. \A q \in Ids : projects[q].owner # actor' => q \in Ids'
    BY <2>1 DEF Owned
  <2>3. QED
    BY <2>1, <2>2, UntouchedWhole DEF PromptsUntouched
<1>4. ASSUME NEW u \in Users, NEW p \in Ids, NEW s \in PromptNames, NEW i \in 0..MaxScene,
             NEW result, SaveSceneStep(u, p, s, i, result)
      PROVE  Goal
  <2>0. PICK b, new : SavedIn(u, p, s, b, new) /\ SavedAt(b, i, result)
    BY <1>4, SaveSceneShape
  <2>1. SavedIn(u, p, s, b, new) /\ \A c \in DOMAIN heap : c # b => heap'[c] = heap[c]
    BY <2>0 DEF SavedAt
  <2>2. /\ Ids' = Ids /\ projects[p].owner = u
        /\ \A q \in Ids : q # p => projects'[q] = projects[q]
    BY <2>1 DEF SavedIn, Ids, Owned
  <2>3. actor' = u /\ UNCHANGED custom_prompts
    BY <1>4 DEF SaveSceneStep
  <2>4. ASSUME NEW q \in Ids, projects[q].owner # u PROVE Untouched(q)
    <3>1. \A t \in DOMAIN projects[q].data : projects[q].data[t] # Single =>
            projects[q].data[t] \in DOMAIN heap /\ projects[q].data[t] \in Buckets(projects[q])
      BY DEF StoreInv, Fits, Buckets
    <3>2. b \in DOMAIN heap => b \notin Buckets(projects[q])
      BY <2>1, <2>2, <2>4 DEF SavedIn, StoreInv, BucketsPrivate
    <3>3. \A t \in DOMAIN projects[q].data : projects[q].data[t] # Single =>
            heap'[projects[q].data[t]] = heap[projects[q].data[t]]
      BY <2>1, <3>1, <3>2
    <3>4. q # p
      BY <2>2, <2>4
    <3>5. QED
      BY <2>2, <3>3, <3>4, UntouchedWhole
  <2>5. QED
    BY <2>3, <2>4 DEF PromptsUntouched
<1>5. ASSUME Leaves PROVE Goal
  <2>1. UNCHANGED <<projects, heap>> /\ Ids' = Ids /\ PromptsUntouched
    BY <1>5 DEF Leaves, PromptsUntouched, Ids
  <2>2. QED
    BY <2>1, UntouchedWhole
<1> HIDE DEF Goal
<1>6. Goal
  BY <1>1, <1>2, <1>3, <1>4, <1>5, Shapes
<1>7. QED
  BY <1>6 DEF Goal

\* However copies share their results, no call of one user reaches what
\* another one reads.
THEOREM OthersNeverAffected == Spec => OthersUnaffected
<1>1. StoreInv /\ [Next]_vars =>
        /\ \A p \in Ids : projects[p].owner # actor' =>
             /\ p \in Ids'
             /\ projects'[p] = projects[p]
             /\ Results(p)' = Results(p)
        /\ \A key \in DOMAIN custom_prompts : key[1] # actor' =>
             key \in DOMAIN custom_prompts' /\ custom_prompts'[key] = custom_prompts[key]
  BY OthersStep DEF Untouched, PromptsUntouched
<1>2. QED
  BY <1>1, StoreInvariant, PTL DEF Spec, OthersUnaffected

-----------------------------------------------------------------------------
(***************************************************************************)
(* The compile gate.  A compile call that has passed its check still finds *)
(* the assets when it submits: rendered assets stay, and an id that is     *)
(* still in use is still the same project.                                 *)
(***************************************************************************)

StillReady(c) ==
  /\ c.project \in 1..counter
  /\ c.project \in Ids => Missing(projects[c.project]) \subseteq c.skipped

GateInv == (\A c \in compiling : StillReady(c)) /\ CompileHasLayers

\* No step takes an asset from a project or gives an id in use to another one.
LEMMA GateShape ==
  ASSUME StoreInv, [Next]_vars
  PROVE  \A c : StillReady(c) => StillReady(c)'
<1> SUFFICES ASSUME NEW c, StillReady(c) PROVE StillReady(c)'
  OBVIOUS
<1>1. (\A p \in Ids' : p \in Ids \/ p = counter + 1) /\ counter' \in {counter, counter + 1}
  <2>1. ASSUME NEW u \in Users, NEW new, Adds(u, new)
        PROVE  Ids' \subseteq Ids \union {counter + 1} /\ counter' = counter + 1
    BY <2>1 DEF Adds, Ids, Put, NextId
  <2>2. ASSUME NEW u \in Users, NEW p \in Ids, NEW new, Changes(u, p, new)
        PROVE  Ids' \subseteq Ids /\ counter' = counter
    BY <2>2 DEF Changes, Ids
  <2>3. ASSUME NEW u \in Users, NEW p \in 1..MaxProjects, Delete(u, p)
        PROVE  Ids' \subseteq Ids /\ counter' = counter
    BY <2>3 DEF Delete, Ids
  <2>4. ASSUME NEW u \in Users, NEW p \in Ids, NEW s \in PromptNames, NEW i \in 0..MaxScene,
               NEW result, SaveSceneStep(u, p, s, i, result)
        PROVE  Ids' \subseteq Ids /\ counter' = counter
    BY <2>4 DEF SaveSceneStep, Set, Ids
  <2>5. ASSUME Leaves PROVE Ids' \subseteq Ids /\ counter' = counter
    BY <2>5 DEF Leaves, Ids
  <2>6. QED
    BY <2>1, <2>2, <2>3, <2>4, <2>5, Shapes
<1>2. counter \in Nat /\ c.project \in 1..counter
  BY DEF StoreInv, IdsOK, StillReady
<1>3. c.project \in 1..counter' /\ c.project # counter + 1
  BY <1>1, <1>2
<1>4. ASSUME c.project \in Ids' PROVE Missing(projects'[c.project]) \subseteq c.skipped
  <2>1. c.project \in Ids \intersect Ids'
    BY <1>1, <1>3, <1>4
  <2>2. projects[c.project].completed_job_types \subseteq projects'[c.project].completed_job_types
    BY <2>1, ProgressStep DEF ProgressOf
  <2>3. QED
    BY <2>1, <2>2 DEF StillReady, Missing
<1>5. QED
  BY <1>3, <1>4 DEF StillReady

LEMMA GateStepKeeps == StoreInv /\ GateInv /\ [Next]_vars => GateInv'
<1> SUFFICES ASSUME StoreInv, GateInv, [Next]_vars PROVE GateInv'
  OBVIOUS
<1>1. \A c \in compiling : StillReady(c)'
  BY GateShape DEF GateInv
<1>2. ASSUME NEW u \in Users, NEW p \in Ids, NEW skipped, CheckCompile(u, p, skipped)
      PROVE  GateInv'
  <2>1. PICK c : /\ c = [user |-> u, project |-> p, skipped |-> skipped]
                 /\ compiling' = compiling \union {c}
                 /\ compiled' = compiled
    BY <1>2 DEF CheckCompile
  <2>2. p \in 1..counter /\ Missing(projects[p]) \subseteq skipped
    BY <1>2 DEF CheckCompile, Blocked, StoreInv, IdsOK
  <2>3. StillReady(c)
    BY <2>1, <2>2 DEF StillReady
  <2>4. StillReady(c)'
    BY <2>3, GateShape
  <2>5. QED
    BY <1>1, <2>1, <2>4 DEF GateInv, CompileHasLayers
<1>3. ASSUME NEW c \in compiling, SubmitCompile(c) PROVE GateInv'
  <2>1. PICK job : /\ job.missing = Missing(projects[c.project]) /\ job.skipped = c.skipped
                   /\ compiled' = {job}
                   /\ compiling' \subseteq compiling
    BY <1>3 DEF SubmitCompile
  <2>2. c.project \in Ids
    BY <1>3 DEF SubmitCompile, Owned
  <2>3. job.missing \subseteq job.skipped
    BY <2>1, <2>2 DEF GateInv, StillReady
  <2>4. QED
    BY <1>1, <2>1, <2>3 DEF GateInv, CompileHasLayers
<1>4. ASSUME NEW c \in compiling, AbandonCompile(c) PROVE GateInv'
  BY <1>1, <1>4 DEF AbandonCompile, GateInv, CompileHasLayers
<1>5. ASSUME UNCHANGED <<compiling, compiled>> PROVE GateInv'
  BY <1>1, <1>5 DEF GateInv, CompileHasLayers
<1>6. QED
  BY <1>2, <1>3, <1>4, <1>5 DEF Next, vars, Create, Delete, Duplicate, SaveStep,
     SaveSceneStep, SetCustomPrompt, Generate, SelectMusic, AddScene, RemoveScene, UpdateScene

\* A compile job never starts without a layer that was not waived, whatever
\* other calls do between the check and the submission.
THEOREM CompilesHaveLayers == Spec => []CompileHasLayers
<1>1. Init => GateInv
  BY DEF Init, GateInv, CompileHasLayers
<1>2. GateInv => CompileHasLayers
  BY DEF GateInv
<1>3. QED
  BY <1>1, <1>2, GateStepKeeps, StoreInvariant, PTL DEF Spec

-----------------------------------------------------------------------------
(***************************************************************************)
(* The video that get_project shows.  Jobs are never forgotten, so that it *)
(* matters that no new project gets the id of an old one.                  *)
(***************************************************************************)

JobsOfKnownProjects == \A j \in jobs : j.project \in 1..counter

ReadyMeansCompiled == \A p \in Ids : projects[p].ready <=> CompileJob(p) \in jobs

VideoInv == JobsOfKnownProjects /\ ReadyMeansCompiled

LEMMA NewProjectVideo ==
  ASSUME NEW u
  PROVE  ~NewProject(u).ready
  BY DEF NewProject

LEMMA CopyVideo ==
  ASSUME NEW st, IsProject(st), NEW u, NEW name, NEW new, new = CopyOf(st, u, name)
  PROVE  ~new.ready
  BY DEF CopyOf, IsProject

LEMMA ResultVideo ==
  ASSUME NEW st, IsProject(st), NEW s, NEW value, NEW new, new = WithResult(st, s, value)
  PROVE  new.ready = st.ready
  BY DEF WithResult, IsProject

LEMMA JobVideo ==
  ASSUME NEW st, IsProject(st), NEW type, NEW new, new = WithJob(st, type)
  PROVE  new.ready = (st.ready \/ type = "compile_video")
  BY DEF WithJob, IsProject

LEMMA SceneVideo ==
  ASSUME NEW st, IsProject(st), NEW scenes, NEW new, new = [st EXCEPT !.scenes = scenes]
  PROVE  new.ready = st.ready
  BY DEF IsProject

LEMMA MoodVideo ==
  ASSUME NEW st, IsProject(st), NEW mood, NEW new, new = [st EXCEPT !.music_mood = mood]
  PROVE  new.ready = st.ready
  BY DEF IsProject

\* A new project has no video, and no job runs for it yet.
LEMMA AddedVideo ==
  ASSUME StoreInv, VideoInv, NEW new, ~new.ready,
         projects' = Put(projects, NextId, new), counter' = counter + 1, jobs' = jobs
  PROVE  VideoInv'
<1>1. counter \in Nat /\ Ids \subseteq 1..counter
  BY DEF StoreInv, IdsOK
<1>2. /\ Ids' = Ids \union {counter + 1}
      /\ projects'[counter + 1] = new
      /\ \A q \in Ids : q # counter + 1 => projects'[q] = projects[q]
  BY DEF Ids, NextId, Put
<1>3. counter + 1 \notin 1..counter /\ 1..counter \subseteq 1..(counter + 1)
  BY <1>1
<1>4. JobsOfKnownProjects'
  BY <1>3 DEF VideoInv, JobsOfKnownProjects
<1>5. CompileJob(counter + 1) \notin jobs
  BY <1>3 DEF VideoInv, JobsOfKnownProjects, CompileJob
<1>6. ASSUME NEW q \in Ids' PROVE projects'[q].ready <=> CompileJob(q) \in jobs'
  <2>1. CASE q = counter + 1
    BY <1>2, <1>5, <2>1
  <2>2. CASE q \in Ids /\ q # counter + 1
    BY <1>2, <2>2 DEF VideoInv, ReadyMeansCompiled
  <2>3. QED
    BY <1>2, <2>1, <2>2
<1>7. ReadyMeansCompiled'
  BY <1>6 DEF ReadyMeansCompiled, CompileJob
<1>8. QED
  BY <1>4, <1>7 DEF VideoInv

\* A call that submits no job leaves the video of its project alone.
LEMMA ChangedVideo ==
  ASSUME StoreInv, VideoInv, NEW p \in Ids, NEW new, new.ready = projects[p].ready,
         projects' = [projects EXCEPT ![p] = new], UNCHANGED <<counter, jobs>>
  PROVE  VideoInv'
<1>1. Ids' = Ids /\ \A q \in Ids : projects'[q].ready = projects[q].ready
  BY DEF Ids
<1>2. QED
  BY <1>1 DEF VideoInv, JobsOfKnownProjects, ReadyMeansCompiled, CompileJob

\* submit_job
LEMMA SubmittedVideo ==
  ASSUME StoreInv, VideoInv, NEW p \in Ids, NEW type,
         Set(p, WithJob(projects[p], type)), StoreJob(p, type), counter' = counter
  PROVE  VideoInv'
<1>1. PICK new : new = WithJob(projects[p], type) /\ projects' = [projects EXCEPT ![p] = new]
  BY DEF Set
<1>2. IsProject(projects[p]) /\ p \in 1..counter
  BY DEF StoreInv, IdsOK, Fits
<1>3. new.ready = (projects[p].ready \/ type = "compile_video")
  BY <1>1, <1>2, JobVideo
<1>4. /\ Ids' = Ids
      /\ projects'[p] = new
      /\ \A q \in Ids : q # p => projects'[q] = projects[q]
  BY <1>1 DEF Ids
<1>5. jobs' = jobs \union {[project |-> p, job_type |-> type]}
  BY DEF StoreJob
<1>6. JobsOfKnownProjects'
  BY <1>2, <1>5 DEF VideoInv, JobsOfKnownProjects
<1>7. \A q : CompileJob(q) \in jobs' <=>
        CompileJob(q) \in jobs \/ (q = p /\ type = "compile_video")
  BY <1>5 DEF CompileJob
<1>8. ASSUME NEW q \in Ids PROVE projects'[q].ready <=> CompileJob(q) \in jobs'
  <2>1. projects[q].ready <=> CompileJob(q) \in jobs
    BY DEF VideoInv, ReadyMeansCompiled
  <2>2. CASE q = p
    BY <1>3, <1>4, <1>7, <2>1, <2>2
  <2>3. CASE q # p
    BY <1>4, <1>7, <2>1, <2>3
  <2>4. QED
    BY <2>2, <2>3
<1>9. QED
  BY <1>4, <1>6, <1>8 DEF VideoInv, ReadyMeansCompiled, CompileJob

\* add_scene, remove_scene and update_scene
LEMMA ScenesVideo ==
  ASSUME StoreInv, VideoInv, NEW p \in Ids, NEW scenes,
         Set(p, [projects[p] EXCEPT !.scenes = scenes]), UNCHANGED <<counter, jobs>>
  PROVE  VideoInv'
<1>1. PICK new : /\ new = [projects[p] EXCEPT !.scenes = scenes]
                 /\ projects' = [projects EXCEPT ![p] = new]
  BY DEF Set
<1>2. IsProject(projects[p])
  BY DEF StoreInv, Fits
<1>3. new.ready = projects[p].ready
  BY <1>1, <1>2, SceneVideo
<1>4. QED
  BY <1>1, <1>3, ChangedVideo

\* save_step_result, with or without a scene index
LEMMA SavedVideo ==
  ASSUME StoreInv, VideoInv, NEW p \in Ids, NEW s, NEW value,
         Set(p, WithResult(projects[p], s, value)), UNCHANGED <<counter, jobs>>
  PROVE  VideoInv'
<1>1. PICK new : /\ new = WithResult(projects[p], s, value)
                 /\ projects' = [projects EXCEPT ![p] = new]
  BY DEF Set
<1>2. IsProject(projects[p])
  BY DEF StoreInv, Fits
<1>3. new.ready = projects[p].ready
  BY <1>1, <1>2, ResultVideo
<1>4. QED
  BY <1>1, <1>3, ChangedVideo

LEMMA VideoStep == StoreInv /\ VideoInv /\ [Next]_vars => VideoInv'
<1> SUFFICES ASSUME StoreInv, VideoInv, [Next]_vars PROVE VideoInv'
  OBVIOUS
<1>1. ASSUME NEW u \in Users, Create(u) PROVE VideoInv'
  <2>1. PICK new : new = NewProject(u) /\ projects' = Put(projects, NextId, new)
    BY <1>1 DEF Create
  <2>2. ~new.ready
    BY <2>1, NewProjectVideo
  <2>3. counter' = counter + 1 /\ jobs' = jobs
    BY <1>1 DEF Create
  <2>4. QED
    BY <2>1, <2>2, <2>3, AddedVideo
<1>2. ASSUME NEW u \in Users, NEW p \in Ids, NEW given, Duplicate(u, p, given) PROVE VideoInv'
  <2>1. PICK name, new : new = CopyOf(projects[p], u, name) /\ projects' = Put(projects, NextId, new)
    BY <1>2 DEF Duplicate
  <2>2. IsProject(projects[p])
    BY DEF StoreInv, Fits
  <2>3. ~new.ready
    BY <2>1, <2>2, CopyVideo
  <2>4. counter' = counter + 1 /\ jobs' = jobs
    BY <1>2 DEF Duplicate
  <2>5. QED
    BY <2>1, <2>3, <2>4, AddedVideo
<1>3. ASSUME NEW u \in Users, NEW p, Delete(u, p) PROVE VideoInv'
  <2>1. Ids' \subseteq Ids /\ \A q \in Ids' : projects'[q] = projects[q]
    BY <1>3 DEF Delete, Ids
  <2>2. UNCHANGED <<counter, jobs>>
    BY <1>3 DEF Delete
  <2>3. QED
    BY <2>1, <2>2 DEF VideoInv, JobsOfKnownProjects, ReadyMeansCompiled, CompileJob
<1>4. ASSUME NEW u \in Users, NEW p \in Ids, NEW s, SaveStep(u, p, s) PROVE VideoInv'
  BY <1>4, SavedVideo DEF SaveStep
<1>5. ASSUME NEW u \in Users, NEW p \in Ids, NEW s, NEW i, NEW result,
             SaveSceneStep(u, p, s, i, result)
      PROVE  VideoInv'
  BY <1>5, SavedVideo DEF SaveSceneStep
<1>6. ASSUME NEW u \in Users, NEW p \in Ids, NEW type, Generate(u, p, type) PROVE VideoInv'
  BY <1>6, SubmittedVideo DEF Generate
<1>7. ASSUME NEW u \in Users, NEW p \in Ids, NEW mood, SelectMusic(u, p, mood) PROVE VideoInv'
  <2>1. PICK new : /\ new = [projects[p] EXCEPT !.music_mood = mood]
                   /\ projects' = [projects EXCEPT ![p] = new]
    BY <1>7 DEF SelectMusic, Set
  <2>2. IsProject(projects[p])
    BY DEF StoreInv, Fits
  <2>3. new.ready = projects[p].ready
    BY <2>1, <2>2, MoodVideo
  <2>4. UNCHANGED <<counter, jobs>>
    BY <1>7 DEF SelectMusic
  <2>5. QED
    BY <2>1, <2>3, <2>4, ChangedVideo
<1>8. ASSUME NEW c \in compiling, SubmitCompile(c) PROVE VideoInv'
  <2>1. c.project \in Ids
    BY <1>8 DEF SubmitCompile, Owned
  <2>2. /\ Set(c.project, WithJob(projects[c.project], "compile_video"))
        /\ StoreJob(c.project, "compile_video")
        /\ counter' = counter
    BY <1>8 DEF SubmitCompile
  <2>3. QED
    BY <2>1, <2>2, SubmittedVideo
<1>9. ASSUME NEW u \in Users, NEW p \in Ids, NEW text, AddScene(u, p, text) PROVE VideoInv'
  <2>1. PICK scenes : Set(p, [projects[p] EXCEPT !.scenes = scenes])
    BY <1>9 DEF AddScene
  <2>2. UNCHANGED <<counter, jobs>>
    BY <1>9 DEF AddScene
  <2>3. QED
    BY <2>1, <2>2, ScenesVideo
<1>10. ASSUME NEW u \in Users, NEW p \in Ids, NEW i, RemoveScene(u, p, i) PROVE VideoInv'
  <2>1. PICK scenes : Set(p, [projects[p] EXCEPT !.scenes = scenes])
    BY <1>10 DEF RemoveScene
  <2>2. UNCHANGED <<counter, jobs>>
    BY <1>10 DEF RemoveScene
  <2>3. QED
    BY <2>1, <2>2, ScenesVideo
<1>11. ASSUME NEW u \in Users, NEW p \in Ids, NEW i, NEW text, UpdateScene(u, p, i, text)
       PROVE  VideoInv'
  <2>1. PICK scenes : Set(p, [projects[p] EXCEPT !.scenes = scenes])
    BY <1>11 DEF UpdateScene
  <2>2. UNCHANGED <<counter, jobs>>
    BY <1>11 DEF UpdateScene
  <2>3. QED
    BY <2>1, <2>2, ScenesVideo
<1>12. ASSUME UNCHANGED <<counter, projects, jobs>> PROVE VideoInv'
  BY <1>12 DEF VideoInv, JobsOfKnownProjects, ReadyMeansCompiled, CompileJob, Ids
<1>13. QED
  BY <1>1, <1>2, <1>3, <1>4, <1>5, <1>6, <1>7, <1>8, <1>9, <1>10, <1>11, <1>12
     DEF Next, vars, SetCustomPrompt, CheckCompile, AbandonCompile

\* A project is shown as ready if it was compiled itself, and as complete if
\* the gate lets it compile without a skip.
THEOREM VideoShownIsAlwaysReal == Spec => []VideoShownIsReal
<1>1. Init => VideoInv
  <2> SUFFICES ASSUME Init PROVE VideoInv
    OBVIOUS
  <2>1. jobs = {} /\ Ids = {}
    BY DEF Init, Ids, Empty
  <2>2. QED
    BY <2>1 DEF VideoInv, JobsOfKnownProjects, ReadyMeansCompiled
<1>2. VideoInv => VideoShownIsReal
  <2>1. \A st : Completeness(st) = "complete" <=> Missing(st) = {}
    BY DEF Completeness, Missing, Required, RollupKeys
  <2>2. QED
    BY <2>1 DEF VideoInv, ReadyMeansCompiled, VideoShownIsReal
<1>3. QED
  BY <1>1, <1>2, VideoStep, StoreInvariant, PTL DEF Spec
-----------------------------------------------------------------------------
(***************************************************************************)
(* Scene lists.  Indices ascend because a new scene gets an index above    *)
(* all others, so that the sort has nothing to do, and because removing    *)
(* and changing scenes keep their order.                                   *)
(***************************************************************************)

Ascending(scenes) ==
  \A m, n \in DOMAIN scenes : m < n => scenes[m].index < scenes[n].index

LEMMA NewIndexIsAbove ==
  ASSUME NEW st, st.scenes \in Seq(Scene), Ascending(st.scenes)
  PROVE  /\ NewIndex(st) \in Nat
         /\ \A n \in DOMAIN st.scenes : st.scenes[n].index < NewIndex(st)
<1> DEFINE scenes == st.scenes
<1> DEFINE last == scenes[Len(scenes)].index
<1>1. \A n \in DOMAIN scenes : scenes[n].index \in Nat
  <2>1. \A n \in DOMAIN scenes : scenes[n] \in Scene
    OBVIOUS
  <2>2. QED
    BY <2>1 DEF Scene
<1>2. CASE scenes = <<>>
  BY <1>2 DEF NewIndex
<1>3. CASE scenes # <<>>
  <2>1. Len(scenes) \in DOMAIN scenes /\ \A n \in DOMAIN scenes : n = Len(scenes) \/ n < Len(scenes)
    <3>1. DOMAIN scenes = 1..Len(scenes) /\ Len(scenes) \in Nat /\ Len(scenes) # 0
      BY <1>3, EmptySeq
    <3> DEFINE len == Len(scenes)
    <3> HIDE DEF len
    <3>2. len \in 1..len /\ \A n \in 1..len : n = len \/ n < len
      BY <3>1 DEF len
    <3>3. QED
      BY <3>1, <3>2 DEF len
  <2>2. last \in SceneIndices(st)
    BY <2>1 DEF SceneIndices
  <2>3. \A n \in DOMAIN scenes : scenes[n].index <= last
    BY <1>1, <2>1 DEF Ascending
  <2>4. \A j \in SceneIndices(st) : j <= last
    BY <2>3 DEF SceneIndices
  <2> DEFINE top == CHOOSE i \in SceneIndices(st) : \A j \in SceneIndices(st) : j <= i
  <2>5. top \in SceneIndices(st) /\ \A j \in SceneIndices(st) : j <= top
    BY <2>2, <2>4
  <2>6. \A n \in DOMAIN scenes : scenes[n].index <= top
    BY <2>5 DEF SceneIndices
  <2>7. top \in Nat
    BY <1>1, <2>5 DEF SceneIndices
  <2>8. NewIndex(st) = 1 + top
    BY <1>3 DEF NewIndex
  <2> HIDE DEF top
  <2>9. QED
    BY <1>1, <2>6, <2>7, <2>8
<1>4. QED
  BY <1>2, <1>3

LEMMA AddedKeepsOrder ==
  ASSUME NEW scenes \in Seq(Scene), Ascending(scenes), NEW scene \in Scene,
         \A n \in DOMAIN scenes : scenes[n].index < scene.index
  PROVE  Added(scenes, scene) \in Seq(Scene) /\ Ascending(Added(scenes, scene))
<1> DEFINE grown == Append(scenes, scene)
<1> DEFINE key == [n \in DOMAIN grown |-> grown[n].index]
<1> DEFINE len == Len(scenes)
<1>1. /\ grown \in Seq(Scene)
      /\ len \in Nat
      /\ DOMAIN scenes = 1..len
      /\ DOMAIN grown = 1..(len + 1)
      /\ grown[len + 1] = scene
      /\ \A n \in 1..len : grown[n] = scenes[n]
  BY AppendProperties
<1> HIDE DEF grown, len
<1>2. \A n \in 1..(len + 1) : n = len + 1 \/ n \in 1..len
  BY <1>1
<1>3. ASSUME NEW m \in 1..(len + 1), NEW n \in 1..(len + 1), m < n
      PROVE  grown[m].index < grown[n].index
  <2>1. m \in 1..len
    BY <1>1, <1>3
  <2>2. CASE n = len + 1
    BY <1>1, <2>1, <2>2
  <2>3. CASE n \in 1..len
    BY <1>1, <1>3, <2>1, <2>3 DEF Ascending
  <2>4. QED
    BY <1>2, <2>2, <2>3
<1>4. Ascending(grown)
  BY <1>1, <1>3 DEF Ascending
<1>5. key \in [DOMAIN grown -> Nat]
  <2>1. \A n \in DOMAIN grown : grown[n] \in Scene
    BY <1>1
  <2>2. QED
    BY <2>1 DEF Scene
<1>6. Sorted(grown, key) = grown
  <2>1. \A m, n \in DOMAIN grown : m < n => key[m] < key[n]
    BY <1>4 DEF Ascending
  <2> HIDE DEF key
  <2>2. QED
    BY <1>1, <1>5, <2>1, SortedAlready
<1>7. Added(scenes, scene) = grown
  BY <1>6 DEF Added, grown
<1>8. QED
  BY <1>1, <1>4, <1>7

LEMMA WithoutKeepsOrder ==
  ASSUME NEW scenes \in Seq(Scene), Ascending(scenes), NEW i
  PROVE  Without(scenes, i) \in Seq(Scene) /\ Ascending(Without(scenes, i))
<1> DEFINE keep == {n \in DOMAIN scenes : scenes[n].index # i}
<1> DEFINE kept == (1..Len(scenes)) \intersect keep
<1> DEFINE left == Selected(scenes, keep)
<1>1. left \in Seq(Scene) /\ \E place : Picks(place, left, scenes, kept)
  BY SelectedProperties
<1>2. PICK place : Picks(place, left, scenes, kept)
  BY <1>1
<1>3. kept \in SUBSET DOMAIN scenes
  OBVIOUS
<1> HIDE DEF left, kept
<1>4. DOMAIN left = 1..Len(left)
  BY <1>1
<1>5. ASSUME NEW m \in DOMAIN left, NEW n \in DOMAIN left, m < n
      PROVE  left[m].index < left[n].index
  <2>1. place[m] < place[n] /\ left[m] = scenes[place[m]] /\ left[n] = scenes[place[n]]
    BY <1>2, <1>4, <1>5 DEF Picks
  <2>2. place[m] \in DOMAIN scenes /\ place[n] \in DOMAIN scenes
    BY <1>2, <1>3, <1>4 DEF Picks
  <2>3. QED
    BY <2>1, <2>2 DEF Ascending
<1>6. Ascending(left)
  BY <1>5 DEF Ascending
<1>7. QED
  BY <1>1, <1>6 DEF Without, left

LEMMA UpdatedKeepsOrder ==
  ASSUME NEW scenes \in Seq(Scene), Ascending(scenes), NEW i, NEW text \in Texts
  PROVE  Updated(scenes, i, text) \in Seq(Scene) /\ Ascending(Updated(scenes, i, text))
<1>1. PICK first : Updated(scenes, i, text) = [scenes EXCEPT ![first].text = text]
  BY DEF Updated
<1> DEFINE new == [scenes EXCEPT ![first].text = text]
<1>2. /\ DOMAIN new = DOMAIN scenes
      /\ \A n \in DOMAIN scenes : new[n] \in Scene /\ new[n].index = scenes[n].index
  <2> SUFFICES ASSUME NEW n \in DOMAIN scenes
               PROVE  new[n] \in Scene /\ new[n].index = scenes[n].index
    OBVIOUS
  <2>1. scenes[n] \in Scene
    OBVIOUS
  <2>2. new[n] = IF n = first THEN [scenes[n] EXCEPT !.text = text] ELSE scenes[n]
    OBVIOUS
  <2> HIDE DEF new
  <2>3. QED
    BY <2>1, <2>2 DEF Scene
<1>3. new \in Seq(Scene)
  <2>1. DOMAIN scenes = 1..Len(scenes) /\ Len(scenes) \in Nat
    OBVIOUS
  <2>2. new \in [1..Len(scenes) -> Scene]
    BY <1>2, <2>1
  <2>3. QED
    BY <2>1, <2>2, SeqDef
<1>4. Ascending(new)
  BY <1>2 DEF Ascending
<1>5. QED
  BY <1>1, <1>3, <1>4
-----------------------------------------------------------------------------
(***************************************************************************)
(* Types, and the order of the scenes.  The two are one invariant: only a  *)
(* list of scenes with indices in order has a greatest index to go above.  *)
(***************************************************************************)

\* A well-formed project with its scenes in order.
Proper(st) == ProjectOK(st) /\ Ascending(st.scenes)

SceneInv == TypeOK /\ \A p \in Ids : Ascending(projects[p].scenes)

LEMMA NewProjectProper ==
  ASSUME NEW u \in Users
  PROVE  Proper(NewProject(u))
<1>1. <<>> \in Seq(Scene) /\ Ascending(<<>>)
  BY DEF Ascending
<1>2. DOMAIN Empty = {}
  BY DEF Empty
<1>3. QED
  BY <1>1, <1>2 DEF Proper, ProjectOK, NewProject

LEMMA CopyProper ==
  ASSUME NEW st, IsProject(st), Proper(st), NEW u \in Users, NEW name \in Nat
  PROVE  Proper(CopyOf(st, u, name))
<1> DEFINE new == CopyOf(st, u, name)
<1>1. /\ new.owner = u /\ new.name = name /\ new.music_mood = st.music_mood
      /\ SameProgress(st, new) /\ new.scenes = st.scenes /\ new.ready = FALSE
  BY DEF CopyOf, IsProject, SameProgress
<1> HIDE DEF new
<1>2. Proper(new)
  BY <1>1 DEF Proper, ProjectOK, SameProgress
<1>3. QED
  BY <1>2 DEF new

LEMMA ResultProper ==
  ASSUME NEW st, IsProject(st), Proper(st), NEW s \in PromptNames, NEW value
  PROVE  Proper(WithResult(st, s, value))
<1> DEFINE new == WithResult(st, s, value)
<1>1. /\ SameMedia(st, new)
      /\ new.completed_steps = st.completed_steps \union {s}
      /\ new.data = Put(st.data, s, value)
  BY ResultFields
<1>2. /\ new.name = st.name /\ new.music_mood = st.music_mood
      /\ new.scenes = st.scenes /\ new.ready = st.ready
  BY DEF WithResult, IsProject
<1> HIDE DEF new
<1>3. DOMAIN new.data = DOMAIN st.data \union {s}
  BY <1>1 DEF Put
<1>4. Proper(new)
  BY <1>1, <1>2, <1>3 DEF Proper, ProjectOK, SameMedia
<1>5. QED
  BY <1>4 DEF new

LEMMA JobProper ==
  ASSUME NEW st, IsProject(st), Proper(st), NEW type \in Generators \union {"compile_video"}
  PROVE  Proper(WithJob(st, type))
<1> DEFINE new == WithJob(st, type)
<1>1. /\ new.owner = st.owner /\ new.name = st.name /\ new.music_mood = st.music_mood
      /\ new.completed_steps = st.completed_steps /\ new.data = st.data
      /\ new.scenes = st.scenes
      /\ new.completed_job_types = st.completed_job_types \union {type}
      /\ new.scenes_with_sfx =
           IF type = "generate_sfx" THEN st.scenes_with_sfx \union SceneIndices(st)
                                    ELSE st.scenes_with_sfx
      /\ new.ready = (st.ready \/ type = "compile_video")
  BY DEF WithJob, IsProject
<1>2. SceneIndices(st) \subseteq 0..MaxScene
  <2>1. \A n \in DOMAIN st.scenes : st.scenes[n] \in Scene
    BY DEF Proper, ProjectOK
  <2>2. QED
    BY <2>1 DEF SceneIndices, Scene
<1>3. new.ready \in BOOLEAN
  BY <1>1
<1> HIDE DEF new
<1>4. Proper(new)
  BY <1>1, <1>2, <1>3 DEF Proper, ProjectOK
<1>5. QED
  BY <1>4 DEF new

LEMMA MoodProper ==
  ASSUME NEW st, IsProject(st), Proper(st), NEW mood \in Moods
  PROVE  Proper([st EXCEPT !.music_mood = mood])
<1> DEFINE new == [st EXCEPT !.music_mood = mood]
<1>1. /\ new.owner = st.owner /\ new.name = st.name /\ new.music_mood = mood
      /\ SameProgress(st, new) /\ new.scenes = st.scenes /\ new.ready = st.ready
  BY DEF IsProject, SameProgress
<1> HIDE DEF new
<1>2. Proper(new)
  BY <1>1 DEF Proper, ProjectOK, SameProgress
<1>3. QED
  BY <1>2 DEF new

LEMMA ScenesProper ==
  ASSUME NEW st, IsProject(st), Proper(st), NEW scenes \in Seq(Scene), Ascending(scenes)
  PROVE  Proper([st EXCEPT !.scenes = scenes])
<1> DEFINE new == [st EXCEPT !.scenes = scenes]
<1>1. /\ new.owner = st.owner /\ new.name = st.name /\ new.music_mood = st.music_mood
      /\ SameProgress(st, new) /\ new.scenes = scenes /\ new.ready = st.ready
  BY DEF IsProject, SameProgress
<1> HIDE DEF new
<1>2. Proper(new)
  BY <1>1 DEF Proper, ProjectOK, SameProgress
<1>3. QED
  BY <1>2 DEF new
\* The part of TypeOK that is about projects.
ProjectsTyped ==
  /\ counter \in 0..MaxProjects
  /\ Ids \subseteq 1..counter
  /\ \A p \in Ids : Proper(projects[p])

BucketTyped(bucket) ==
  DOMAIN bucket \subseteq 0..MaxScene /\ \A i \in DOMAIN bucket : bucket[i] \in ResultValues

RestTyped ==
  /\ \A b \in DOMAIN heap : BucketTyped(heap[b])
  /\ jobs \subseteq [project : 1..counter, job_type : Generators \union {"compile_video"}]
  /\ DOMAIN custom_prompts \subseteq Users \X PromptNames
  /\ \A key \in DOMAIN custom_prompts : custom_prompts[key] \in Templates
  /\ \A c \in compiling : c.user \in Users /\ c.skipped \subseteq Required
  /\ actor \in Users

LEMMA SceneInvParts == SceneInv <=> ProjectsTyped /\ RestTyped
  BY DEF SceneInv, TypeOK, ProjectsTyped, RestTyped, BucketTyped, Proper

LEMMA AddedTyped ==
  ASSUME ProjectsTyped, NEW new, Proper(new), counter < MaxProjects,
         projects' = Put(projects, NextId, new), counter' = counter + 1
  PROVE  ProjectsTyped'
<1>1. counter' \in 0..MaxProjects /\ 1..counter \subseteq 1..counter' /\ counter + 1 \in 1..counter'
  BY DEF ProjectsTyped
<1>2. /\ Ids' = Ids \union {counter + 1}
      /\ projects'[counter + 1] = new
      /\ \A q \in Ids : q # counter + 1 => projects'[q] = projects[q]
  BY DEF Ids, NextId, Put
<1>3. Ids' \subseteq 1..counter'
  BY <1>1, <1>2 DEF ProjectsTyped
<1>4. ASSUME NEW q \in Ids' PROVE Proper(projects'[q])
  BY <1>2 DEF ProjectsTyped
<1>5. ProjectsTyped' <=> /\ counter' \in 0..MaxProjects
                         /\ Ids' \subseteq 1..counter'
                         /\ \A q \in Ids' : Proper(projects'[q])
  BY DEF ProjectsTyped, Proper, ProjectOK, Ascending
<1>6. QED
  BY <1>1, <1>3, <1>4, <1>5

LEMMA ChangedTyped ==
  ASSUME ProjectsTyped, NEW p \in Ids, NEW new, Proper(new), Set(p, new), counter' = counter
  PROVE  ProjectsTyped'
<1>1. Ids' = Ids /\ projects'[p] = new /\ \A q \in Ids : q # p => projects'[q] = projects[q]
  BY DEF Ids, Set
<1>2. \A q \in Ids' : Proper(projects'[q])
  BY <1>1 DEF ProjectsTyped
<1>3. ProjectsTyped' <=> /\ counter' \in 0..MaxProjects
                         /\ Ids' \subseteq 1..counter'
                         /\ \A q \in Ids' : Proper(projects'[q])
  BY DEF ProjectsTyped, Proper, ProjectOK, Ascending
<1>4. QED
  BY <1>1, <1>2, <1>3 DEF ProjectsTyped

LEMMA ProjectsStep == StoreInv /\ ProjectsTyped /\ [Next]_vars => ProjectsTyped'
<1> SUFFICES ASSUME StoreInv, ProjectsTyped, [Next]_vars PROVE ProjectsTyped'
  OBVIOUS
<1>0. \A p \in Ids : IsProject(projects[p]) /\ Proper(projects[p])
  BY DEF StoreInv, Fits, ProjectsTyped
<1>1. ASSUME NEW u \in Users, Create(u) PROVE ProjectsTyped'
  BY <1>1, NewProjectProper, AddedTyped DEF Create
<1>2. ASSUME NEW u \in Users, NEW p \in Ids, NEW given \in GivenNames, Duplicate(u, p, given)
      PROVE  ProjectsTyped'
  <2> DEFINE name == IF given = 0 THEN projects[p].name + 5 ELSE given
  <2>1. projects[p].name \in Nat /\ given \in Nat
    BY <1>0 DEF Proper, ProjectOK
  <2>2. name \in Nat
    BY <2>1
  <2>3. /\ counter < MaxProjects /\ counter' = counter + 1
        /\ projects' = Put(projects, NextId, CopyOf(projects[p], u, name))
    BY <1>2 DEF Duplicate
  <2> HIDE DEF name
  <2>4. Proper(CopyOf(projects[p], u, name))
    BY <1>0, <2>2, CopyProper
  <2>5. QED
    BY <2>3, <2>4, AddedTyped
<1>3. ASSUME NEW u \in Users, NEW p, Delete(u, p) PROVE ProjectsTyped'
  <2>1. Ids' \subseteq Ids /\ (\A q \in Ids' : projects'[q] = projects[q]) /\ counter' = counter
    BY <1>3 DEF Delete, Ids
  <2>2. \A q \in Ids' : Proper(projects'[q])
    BY <2>1 DEF ProjectsTyped
  <2>3. ProjectsTyped' <=> /\ counter' \in 0..MaxProjects
                           /\ Ids' \subseteq 1..counter'
                           /\ \A q \in Ids' : Proper(projects'[q])
    BY DEF ProjectsTyped, Proper, ProjectOK, Ascending
  <2>4. QED
    BY <2>1, <2>2, <2>3 DEF ProjectsTyped
<1>4. ASSUME NEW u \in Users, NEW p \in Ids, NEW s \in PromptNames, SaveStep(u, p, s)
      PROVE  ProjectsTyped'
  BY <1>0, <1>4, ResultProper, ChangedTyped DEF SaveStep
<1>5. ASSUME NEW u \in Users, NEW p \in Ids, NEW s \in PromptNames, NEW i,
             NEW result, SaveSceneStep(u, p, s, i, result)
      PROVE  ProjectsTyped'
  BY <1>0, <1>5, ResultProper, ChangedTyped DEF SaveSceneStep
<1>6. ASSUME NEW u \in Users, NEW p \in Ids, NEW type \in Generators, Generate(u, p, type)
      PROVE  ProjectsTyped'
  BY <1>0, <1>6, JobProper, ChangedTyped DEF Generate
<1>7. ASSUME NEW u \in Users, NEW p \in Ids, NEW mood \in Moods, SelectMusic(u, p, mood)
      PROVE  ProjectsTyped'
  BY <1>0, <1>7, MoodProper, ChangedTyped DEF SelectMusic
<1>8. ASSUME NEW c \in compiling, SubmitCompile(c) PROVE ProjectsTyped'
  <2>1. c.project \in Ids
    BY <1>8 DEF SubmitCompile, Owned
  <2>2. Proper(WithJob(projects[c.project], "compile_video"))
    BY <1>0, <2>1, JobProper
  <2>3. QED
    BY <1>8, <2>1, <2>2, ChangedTyped DEF SubmitCompile
<1>9. ASSUME NEW u \in Users, NEW p \in Ids, NEW text \in Texts, AddScene(u, p, text)
      PROVE  ProjectsTyped'
  <2> DEFINE st == projects[p]
  <2> DEFINE scene == [index |-> NewIndex(st), text |-> text]
  <2>1. /\ NewIndex(st) <= MaxScene
        /\ Set(p, [st EXCEPT !.scenes = Added(st.scenes, scene)])
        /\ counter' = counter
    BY <1>9 DEF AddScene
  <2>2. IsProject(st) /\ Proper(st) /\ st.scenes \in Seq(Scene) /\ Ascending(st.scenes)
    BY <1>0 DEF Proper, ProjectOK
  <2> HIDE DEF st
  <2>3. NewIndex(st) \in Nat /\ \A n \in DOMAIN st.scenes : st.scenes[n].index < NewIndex(st)
    BY <2>2, NewIndexIsAbove
  <2>4. scene \in Scene /\ scene.index = NewIndex(st)
    BY <2>1, <2>3 DEF Scene
  <2> HIDE DEF scene
  <2>5. Added(st.scenes, scene) \in Seq(Scene) /\ Ascending(Added(st.scenes, scene))
    BY <2>2, <2>3, <2>4, AddedKeepsOrder
  <2>6. QED
    BY <2>1, <2>2, <2>5, ScenesProper, ChangedTyped
<1>10. ASSUME NEW u \in Users, NEW p \in Ids, NEW i, RemoveScene(u, p, i) PROVE ProjectsTyped'
  <2> DEFINE st == projects[p]
  <2>1. Set(p, [st EXCEPT !.scenes = Without(st.scenes, i)]) /\ counter' = counter
    BY <1>10 DEF RemoveScene
  <2>2. IsProject(st) /\ Proper(st) /\ st.scenes \in Seq(Scene) /\ Ascending(st.scenes)
    BY <1>0 DEF Proper, ProjectOK
  <2> HIDE DEF st
  <2>3. Without(st.scenes, i) \in Seq(Scene) /\ Ascending(Without(st.scenes, i))
    BY <2>2, WithoutKeepsOrder
  <2>4. QED
    BY <2>1, <2>2, <2>3, ScenesProper, ChangedTyped
<1>11. ASSUME NEW u \in Users, NEW p \in Ids, NEW i, NEW text \in Texts, UpdateScene(u, p, i, text)
       PROVE  ProjectsTyped'
  <2> DEFINE st == projects[p]
  <2>1. Set(p, [st EXCEPT !.scenes = Updated(st.scenes, i, text)]) /\ counter' = counter
    BY <1>11 DEF UpdateScene
  <2>2. IsProject(st) /\ Proper(st) /\ st.scenes \in Seq(Scene) /\ Ascending(st.scenes)
    BY <1>0 DEF Proper, ProjectOK
  <2> HIDE DEF st
  <2>3. Updated(st.scenes, i, text) \in Seq(Scene) /\ Ascending(Updated(st.scenes, i, text))
    BY <2>2, UpdatedKeepsOrder
  <2>4. QED
    BY <2>1, <2>2, <2>3, ScenesProper, ChangedTyped
<1>12. ASSUME UNCHANGED <<counter, projects>> PROVE ProjectsTyped'
  BY <1>12 DEF ProjectsTyped, Proper, ProjectOK, Ascending, Ids
<1>13. QED
  BY <1>1, <1>2, <1>3, <1>4, <1>5, <1>6, <1>7, <1>8, <1>9, <1>10, <1>11, <1>12
     DEF Next, vars, SetCustomPrompt, CheckCompile, AbandonCompile
LEMMA RestStep == StoreInv /\ ProjectsTyped /\ RestTyped /\ [Next]_vars => RestTyped'
<1> SUFFICES ASSUME StoreInv, ProjectsTyped, RestTyped, [Next]_vars PROVE RestTyped'
  OBVIOUS
<1>1. counter \in Nat /\ Ids \subseteq 1..counter
  BY DEF StoreInv, IdsOK
<1>2. counter' = counter \/ counter' = counter + 1
  BY DEF Next, vars, Create, Delete, Duplicate, SaveStep, SaveSceneStep, SetCustomPrompt,
     Generate, SelectMusic, CheckCompile, SubmitCompile, AbandonCompile, AddScene,
     RemoveScene, UpdateScene
<1>3. 1..counter \subseteq 1..counter'
  BY <1>1, <1>2
<1>4. jobs \subseteq [project : 1..counter', job_type : Generators \union {"compile_video"}]
  BY <1>3 DEF RestTyped
<1>5. ASSUME UNCHANGED <<heap, jobs, custom_prompts, compiling>>, actor' \in Users
      PROVE  RestTyped'
  BY <1>4, <1>5 DEF RestTyped
<1>6. ASSUME NEW u \in Users, NEW p \in Ids, NEW s \in PromptNames, NEW i \in 0..MaxScene,
             NEW result \in ResultValues, SaveSceneStep(u, p, s, i, result)
      PROVE  RestTyped'
  <2>1. PICK b, old : /\ old = IF b \in DOMAIN heap THEN heap[b] ELSE Empty
                      /\ heap' = Put(heap, b, Accumulate(old, i, result))
    BY <1>6 DEF SaveSceneStep
  <2>2. BucketTyped(old)
    <3>1. BucketTyped(Empty)
      BY DEF BucketTyped, Empty
    <3>2. QED
      BY <2>1, <3>1 DEF RestTyped
  <2>3. BucketTyped(Accumulate(old, i, result))
    BY <2>2 DEF BucketTyped, Accumulate, Put
  <2>4. ASSUME NEW c \in DOMAIN heap' PROVE BucketTyped(heap'[c])
    <3>1. CASE c = b
      BY <2>1, <2>3, <3>1 DEF Put
    <3>2. CASE c # b
      BY <2>1, <2>4, <3>2 DEF RestTyped, Put
    <3>3. QED
      BY <3>1, <3>2
  <2>5. actor' = u /\ UNCHANGED <<jobs, custom_prompts, compiling>>
    BY <1>6 DEF SaveSceneStep
  <2>6. QED
    BY <1>4, <2>4, <2>5 DEF RestTyped
<1>7. ASSUME NEW u \in Users, NEW s \in PromptNames, NEW template \in Templates,
             SetCustomPrompt(u, s, template)
      PROVE  RestTyped'
  <2>1. /\ custom_prompts' = Put(custom_prompts, <<u, s>>, template)
        /\ actor' = u /\ UNCHANGED <<heap, jobs, compiling>>
    BY <1>7 DEF SetCustomPrompt
  <2>2. DOMAIN custom_prompts' \subseteq Users \X PromptNames
    BY <2>1 DEF RestTyped, Put
  <2>3. \A key \in DOMAIN custom_prompts' : custom_prompts'[key] \in Templates
    BY <2>1 DEF RestTyped, Put
  <2>4. QED
    BY <1>4, <2>1, <2>2, <2>3 DEF RestTyped
<1>8. ASSUME NEW p \in Ids, NEW type \in Generators \union {"compile_video"},
             StoreJob(p, type), actor' \in Users, UNCHANGED <<heap, custom_prompts>>,
             compiling' \subseteq compiling
      PROVE  RestTyped'
  <2>1. p \in 1..counter'
    BY <1>1, <1>3
  <2>2. jobs' \subseteq [project : 1..counter', job_type : Generators \union {"compile_video"}]
    BY <1>4, <1>8, <2>1 DEF StoreJob
  <2>3. QED
    BY <1>8, <2>2 DEF RestTyped
<1>9. ASSUME NEW u \in Users, NEW p \in Ids, NEW type \in Generators, Generate(u, p, type)
      PROVE  RestTyped'
  BY <1>8, <1>9 DEF Generate
<1>10. ASSUME NEW c \in compiling, SubmitCompile(c) PROVE RestTyped'
  <2>1. c.project \in Ids /\ c.user \in Users
    BY <1>10 DEF SubmitCompile, Owned, RestTyped
  <2>2. QED
    BY <1>8, <1>10, <2>1 DEF SubmitCompile
<1>11. ASSUME NEW u \in Users, NEW p \in Ids, NEW skipped \in Skips, CheckCompile(u, p, skipped)
       PROVE  RestTyped'
  <2>1. PICK c : /\ c = [user |-> u, project |-> p, skipped |-> skipped]
                 /\ compiling' = compiling \union {c}
    BY <1>11 DEF CheckCompile
  <2>2. c.user \in Users /\ c.skipped \subseteq Required
    BY <2>1
  <2>3. actor' = u /\ UNCHANGED <<heap, jobs, custom_prompts>>
    BY <1>11 DEF CheckCompile
  <2>4. QED
    BY <1>4, <2>1, <2>2, <2>3 DEF RestTyped
<1>12. ASSUME NEW c \in compiling, AbandonCompile(c) PROVE RestTyped'
  <2>1. compiling' \subseteq compiling /\ UNCHANGED <<heap, jobs, custom_prompts, actor>>
    BY <1>12 DEF AbandonCompile
  <2>2. QED
    BY <1>4, <2>1 DEF RestTyped
<1>13. actor \in Users
  BY DEF RestTyped
<1>14. QED
  BY <1>5, <1>6, <1>7, <1>9, <1>10, <1>11, <1>12, <1>13
     DEF Next, vars, Create, Delete, Duplicate, SaveStep, SelectMusic, AddScene,
     RemoveScene, UpdateScene

THEOREM SceneInvariant == Spec => []SceneInv
<1>1. Init => SceneInv
  <2> SUFFICES ASSUME Init PROVE SceneInv
    OBVIOUS
  <2>1. Ids = {} /\ DOMAIN heap = {} /\ DOMAIN custom_prompts = {}
    BY DEF Init, Ids, Empty
  <2>2. counter = 0 /\ jobs = {} /\ compiling = {} /\ actor \in Users
    BY DEF Init
  <2>3. QED
    BY <2>1, <2>2 DEF SceneInv, TypeOK
<1>2. StoreInv /\ SceneInv /\ [Next]_vars => SceneInv'
  <2> SUFFICES ASSUME StoreInv, SceneInv, [Next]_vars PROVE SceneInv'
    OBVIOUS
  <2>1. ProjectsTyped /\ RestTyped
    BY SceneInvParts
  <2>2. ProjectsTyped' /\ RestTyped'
    BY <2>1, ProjectsStep, RestStep
  <2>3. QED
    BY <2>2 DEF SceneInv, TypeOK, ProjectsTyped, RestTyped, BucketTyped, Proper
<1>3. QED
  BY <1>1, <1>2, StoreInvariant, PTL DEF Spec

\* Every project, bucket, job, prompt and call in flight is of the kind the
\* backend stores, for any numbers of users, projects and scenes.
THEOREM BackendTypeCorrect == Spec => []TypeOK
<1>1. SceneInv => TypeOK
  BY DEF SceneInv
<1>2. QED
  BY <1>1, SceneInvariant, PTL

\* However scenes are added, removed and changed, in copies as well, an index
\* names one scene and the scenes are in the order of their indices.
THEOREM SceneIndicesAlwaysAscend == Spec => []SceneIndicesAscend
<1>1. SceneInv => SceneIndicesAscend
  BY DEF SceneInv, SceneIndicesAscend, Ascending
<1>2. QED
  BY <1>1, SceneInvariant, PTL
=============================================================================
