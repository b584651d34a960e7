----------------------------- MODULE ComfyNodes -----------------------------
(***************************************************************************)
(* The save and load nodes of ComfyUI (nodes.py).  A save writes its files *)
(* and registers them, one call of the SDK after the other: project, space *)
(* and item, a revision, its artifacts, a tag, and for every model or input*)
(* that the workflow loads an edge to the revision that holds it, which is *)
(* found by its path or registered first.  Every call may fail, before or  *)
(* after it took effect, several ComfyUI processes of a tenant save at the *)
(* same time, and a revision may be published, which closes it.            *)
(***************************************************************************)
EXTENDS Naturals, Sequences, FiniteSets

CONSTANTS
    Comfy,          \* ComfyUI processes, each of which runs one prompt at a time
    Workflows,      \* the prompts: sequences of nodes [type, value]
    Linked,         \* the value of an input that another node is wired to
    MaxBatch,       \* bound: images of a save
    MaxSaves,       \* bound: saves
    MaxFaults       \* bound: calls that fail, publications and stops

VARIABLES
    existing,       \* external: the owners that have an item, in project and space
    revisions,      \* external: the revisions in the order of their creation
    tagged,         \* external: the output's revision with the tag, 0 for none
    doing,          \* the next call of each process
    job,            \* what it registers
    owner,          \* for whom: the output, or the dependency at hand
    todo,           \* the artifacts still to create
    again,          \* retried_revision
    target,         \* the revision of the output
    deps, missed,   \* the nodes whose files are still to link; files given up
    held,         \* the revision of the dependency at hand
    returned,       \* the registrations that came to their end
    written, faults

comfyVars == <<existing, revisions, tagged, doing, job, owner, todo,
               again, target, deps, missed, held, returned, written, faults>>

-----------------------------------------------------------------------------
(* WorkflowParser                                                          *)

(* NODE_ASSET_MAP: the nodes that load a file.                             *)
Loaders == {"checkpoint", "lora", "image"}

(* _extract_dependencies: each loader with a value of its own.             *)
Dependencies(w) == {i \in DOMAIN w : w[i].type \in Loaders /\ w[i].value # Linked}
Files == UNION {{w[i].value : i \in Dependencies(w)} : w \in Workflows}

(* Workflows are given with their API nodes; Linked is no value of a user, *)
(* and "out", here, no name of a file.                                     *)
ComfyAssumption ==
    /\ {MaxBatch, MaxSaves, MaxFaults} \subseteq Nat
    /\ \A w \in Workflows : w \in Seq([type : STRING, value : STRING \cup {Linked}])
    /\ "out" \notin Files

(* extract_generation_settings: the first that is given, and every LoRA.   *)
Given(w, type) == SelectSeq(w, LAMBDA n : n.type = type /\ n.value # Linked)
Leading(w, type) == IF Given(w, type) = <<>> THEN "none" ELSE Given(w, type)[1].value
Settings(w) ==
    [seed |-> Leading(w, "sampler"), prompt |-> Leading(w, "prompt"),
     negative |-> Leading(w, "negative"), model |-> Leading(w, "checkpoint"),
     loras |-> Given(w, "lora")]

(* The metadata of a revision: the settings of an image, the workflow of a *)
(* video.                                                                  *)
Metadata(j) ==
    IF j.kind = "image" THEN [settings |-> Settings(j.workflow), workflow |-> <<>>]
    ELSE [settings |-> Settings(<<>>), workflow |-> j.workflow]

-----------------------------------------------------------------------------
(* Artifact names: a batch of images is numbered, a video has a preview    *)
(* unless ffmpeg was not there (a GIF instead) or the preview failed.      *)
Batches(kind) ==
    IF kind = "image" THEN {b \in {<<"image">>, <<"image_0", "image_1">>} : Len(b) <= MaxBatch}
    ELSE {<<"video">>, <<"video", "preview">>}

(* Where a file lies: in the output directory under the time of its save,  *)
(* or where the workflow loads it from.                                    *)
OutputPath(n, name) == <<"out", n, name>>
InputPath(f) == <<f, 0, "file">>
Fallback == <<"fallback", 0, "none">>

Idle == [save |-> 0, kind |-> "none", names |-> <<>>, workflow |-> <<>>]

Init ==
    /\ existing = {} /\ revisions = <<>> /\ tagged = 0
    /\ doing = [c \in Comfy |-> "idle"] /\ job = [c \in Comfy |-> Idle]
    /\ owner = [c \in Comfy |-> "out"]
    /\ todo = [c \in Comfy |-> <<>>] /\ again = [c \in Comfy |-> FALSE]
    /\ target = [c \in Comfy |-> 0] /\ held = [c \in Comfy |-> 0]
    /\ deps = [c \in Comfy |-> {}] /\ missed = [c \in Comfy |-> {}]
    /\ returned = {} /\ written = 0 /\ faults = 0

Go(c, s) == doing' = [doing EXCEPT ![c] = s]

(* What a process forgets when its registration ends.                      *)
Forget(c) ==
    /\ Go(c, "idle") /\ job' = [job EXCEPT ![c] = Idle]
    /\ owner' = [owner EXCEPT ![c] = "out"]
    /\ todo' = [todo EXCEPT ![c] = <<>>] /\ again' = [again EXCEPT ![c] = FALSE]
    /\ target' = [target EXCEPT ![c] = 0] /\ held' = [held EXCEPT ![c] = 0]
    /\ deps' = [deps EXCEPT ![c] = {}] /\ missed' = [missed EXCEPT ![c] = {}]

Spend == faults < MaxFaults /\ faults' = faults + 1

Filling(c) == IF owner[c] = "out" THEN target[c] ELSE held[c]
Path(c) == IF owner[c] = "out" THEN OutputPath(job[c].save, Head(todo[c]))
           ELSE InputPath(owner[c])

NewRevision(c) ==
    [owner |-> owner[c], arts |-> {}, edges |-> {}, closed |-> FALSE, save |-> job[c].save,
     about |-> IF owner[c] = "out" THEN Metadata(job[c]) ELSE Metadata(Idle)]

(* External: what the service does with the call that a process is at.     *)
Effect(c) ==
    CASE doing[c] = "make" ->
            existing' = existing \cup {owner[c]} /\ UNCHANGED <<revisions, tagged>>
      [] doing[c] = "revision" ->
            revisions' = Append(revisions, NewRevision(c)) /\ UNCHANGED <<existing, tagged>>
      [] doing[c] = "artifact" ->
            /\ ~revisions[Filling(c)].closed
            /\ revisions' = [revisions EXCEPT ![Filling(c)].arts = @ \cup {Path(c)}]
            /\ UNCHANGED <<existing, tagged>>
      [] doing[c] = "tag" -> tagged' = target[c] /\ UNCHANGED <<existing, revisions>>
      [] doing[c] = "edge" ->
            /\ revisions' = [revisions EXCEPT ![target[c]].edges = @ \cup {held[c]}]
            /\ UNCHANGED <<existing, tagged>>

service == <<existing, revisions, tagged>>
jobVars == <<job, again, target, returned>>

-----------------------------------------------------------------------------
(* The files are on the disk before anything is registered.  Without       *)
(* create_lineage a save is one of a workflow that loads nothing.          *)
Save(c, kind) ==
    /\ doing[c] = "idle" /\ written < MaxSaves
    /\ written' = written + 1
    /\ \E w \in Workflows, names \in Batches(kind) :
          /\ job' = [job EXCEPT ![c] = [save |-> written', kind |-> kind, names |-> names,
                                        workflow |-> w]]
          /\ todo' = [todo EXCEPT ![c] = names]
          /\ deps' = [deps EXCEPT ![c] = Dependencies(w)]
    /\ Go(c, "look")
    /\ UNCHANGED <<service, owner, again, target, missed, held, returned, faults>>

(* register() of KumihoSaveImage and of KumihoSaveVideo                    *)
SaveImage(c) == Save(c, "image")
SaveVideo(c) == Save(c, "video")

(* get_project(), get_space() from the root on, get_item()                 *)
Look(c) ==
    /\ doing[c] = "look"
    /\ Go(c, IF owner[c] \in existing THEN "revision" ELSE "make")
    /\ UNCHANGED <<service, jobVars, owner, todo, deps, missed, held, written, faults>>

(* create_project(), create_space(), create_item() and set_metadata(): of  *)
(* two that both looked in vain the second is refused.                     *)
Make(c) ==
    /\ doing[c] = "make" /\ owner[c] \notin existing
    /\ Effect(c)
    /\ Go(c, "revision")
    /\ UNCHANGED <<jobVars, owner, todo, deps, missed, held, faults, written>>

CreateRevision(c) ==
    /\ doing[c] = "revision"
    /\ Effect(c)
    /\ IF owner[c] = "out"
       THEN target' = [target EXCEPT ![c] = Len(revisions')] /\ UNCHANGED held
       ELSE held' = [held EXCEPT ![c] = Len(revisions')] /\ UNCHANGED target
    /\ Go(c, "artifact")
    /\ UNCHANGED <<job, again, returned, owner, todo, deps, missed, faults, written>>

CreateArtifact(c) ==
    /\ doing[c] = "artifact"
    /\ Effect(c)
    /\ todo' = [todo EXCEPT ![c] = Tail(@)]
    /\ Go(c, IF Len(todo[c]) > 1 THEN "artifact"
             ELSE IF owner[c] = "out" THEN "tag" ELSE "edge")
    /\ UNCHANGED <<jobVars, owner, deps, missed, held, faults, written>>

(* Mutant: only the artifact that was refused is created again.            *)
RetryOne(c) ==
    /\ doing[c] = "artifact" /\ owner[c] = "out" /\ ~again[c]
    /\ \/ revisions[target[c]].closed /\ UNCHANGED faults
       \/ Spend
    /\ again' = [again EXCEPT ![c] = TRUE]
    /\ Go(c, "revision")
    /\ UNCHANGED <<service, job, target, returned, owner, todo, deps, missed, held,
                   written>>

(* _is_revision_invalid_error(): the revision is published, or permission  *)
(* is denied; once, a new revision gets all the artifacts.                 *)
Retry(c) ==
    /\ doing[c] = "artifact" /\ owner[c] = "out" /\ ~again[c]
    /\ \/ revisions[target[c]].closed /\ UNCHANGED faults
       \/ Spend
    /\ again' = [again EXCEPT ![c] = TRUE]
    /\ todo' = [todo EXCEPT ![c] = job[c].names]
    /\ Go(c, "revision")
    /\ UNCHANGED <<service, job, target, returned, owner, deps, missed, held,
                   written>>

(* The dependency that is next, and its file.                              *)
First(c) == CHOOSE i \in deps[c] : \A j \in deps[c] : i <= j
FileOf(c) == job[c].workflow[First(c)].value

(* On to the next dependency, or to the end.                               *)
NextDep(c, rest) ==
    /\ deps' = [deps EXCEPT ![c] = rest]
    /\ owner' = [owner EXCEPT ![c] = "out"]
    /\ Go(c, IF rest = {} THEN "finish" ELSE "find")

(* "Tag if requested"                                                      *)
Tag(c) ==
    /\ doing[c] = "tag"
    /\ Effect(c)
    /\ NextDep(c, deps[c])
    /\ UNCHANGED <<jobVars, todo, missed, held, faults, written>>

(* get_artifacts_by_location(): the first match is the file's revision,    *)
(* unless there is none or it is one of another project, of which nothing  *)
(* is known here.                                                          *)
Holders(f) == {i \in DOMAIN revisions : InputPath(f) \in revisions[i].arts}

(* Mutant: a revision that is not known to hold the file is taken.         *)
FindAny(c) ==
    /\ doing[c] = "find"
    /\ owner' = [owner EXCEPT ![c] = FileOf(c)]
    /\ \/ \E i \in DOMAIN revisions : held' = [held EXCEPT ![c] = i]
          /\ Go(c, "edge") /\ UNCHANGED todo
       \/ Go(c, "look") /\ todo' = [todo EXCEPT ![c] = <<"file">>] /\ UNCHANGED held
    /\ UNCHANGED <<service, jobVars, deps, missed, written, faults>>

Find(c) ==
    /\ doing[c] = "find"
    /\ owner' = [owner EXCEPT ![c] = FileOf(c)]
    /\ \/ \E i \in Holders(FileOf(c)) : held' = [held EXCEPT ![c] = i]
          /\ Go(c, "edge") /\ UNCHANGED todo
       \/ Go(c, "look") /\ todo' = [todo EXCEPT ![c] = <<"file">>] /\ UNCHANGED held
    /\ UNCHANGED <<service, jobVars, deps, missed, written, faults>>

(* create_edge(), from the output to the dependency                        *)
Edge(c) ==
    /\ doing[c] = "edge"
    /\ Effect(c)
    /\ NextDep(c, deps[c] \ {First(c)})
    /\ UNCHANGED <<jobVars, todo, missed, held, faults, written>>

(* "Successfully registered": the kref of the revision is returned.        *)
Finish(c) ==
    /\ doing[c] = "finish"
    /\ returned' = returned \cup {[job |-> job[c], rev |-> target[c], missed |-> missed[c]]}
    /\ Forget(c)
    /\ UNCHANGED <<service, written, faults>>

(* An exception: a dependency is given up, anything else gives up the      *)
(* registration, of which a kref without a revision is returned.           *)
GiveUp(c) ==
    IF owner[c] # "out" \/ doing[c] = "find"
    THEN /\ missed' = [missed EXCEPT ![c] = @ \cup {FileOf(c)}]
         /\ NextDep(c, deps[c] \ {First(c)})
         /\ todo' = [todo EXCEPT ![c] = <<>>]
         /\ UNCHANGED <<job, again, target, held>>
    ELSE Forget(c)

Refused(c) ==
    /\ \/ doing[c] = "make" /\ owner[c] \in existing
       \/ /\ doing[c] = "artifact" /\ revisions[Filling(c)].closed
          /\ (owner[c] # "out" \/ again[c])
    /\ GiveUp(c)
    /\ UNCHANGED <<service, returned, written, faults>>

Calls == {"look", "make", "revision", "artifact", "tag", "find", "edge"}

(* A call that is lost, or whose answer is.                                *)
CallFails(c) ==
    /\ doing[c] \in Calls /\ Spend
    /\ \/ doing[c] \notin {"look", "find"} /\ Effect(c)
       \/ UNCHANGED <<existing, revisions, tagged>>
    /\ GiveUp(c)
    /\ UNCHANGED <<returned, written>>

(* The user stops ComfyUI.                                                 *)
Stop(c) ==
    /\ doing[c] # "idle" /\ Spend
    /\ Forget(c)
    /\ UNCHANGED <<service, returned, written>>

(* External: somebody publishes a revision.                                *)
Publish(i) ==
    /\ ~revisions[i].closed /\ Spend
    /\ revisions' = [revisions EXCEPT ![i].closed = TRUE]
    /\ UNCHANGED <<existing, tagged, doing, jobVars, owner, todo, deps,
                   missed, held, written>>

-----------------------------------------------------------------------------
(* KumihoLoadAsset                                                         *)

Outputs == {i \in DOMAIN revisions : revisions[i].owner = "out"}
Latest == IF Outputs = {} THEN 0
          ELSE CHOOSE i \in Outputs : \A k \in Outputs : k <= i

(* _resolve_kref_to_path: 0 asks for the tag; a revision or a tag that     *)
(* does not exist is the latest instead.                                   *)
RevisionOf(want) ==
    IF want \in Outputs THEN want
    ELSE IF want = 0 /\ tagged # 0 THEN tagged ELSE Latest

(* The first artifact, but not the preview of another.                     *)
Foremost(i) ==
    LET all == IF i = 0 THEN {} ELSE revisions[i].arts
    IN  {p \in all : p[3] # "preview" \/ Cardinality(all) = 1}

(* Mutant: the preview counts as any other.                                *)
AnyArtifact(i, name) == IF i = 0 THEN {} ELSE revisions[i].arts

(* Its artifact: by name, and if there is none of the name or none is      *)
(* given, the first.                                                       *)
ArtifactsOf(i, name) ==
    LET all == IF i = 0 THEN {} ELSE revisions[i].arts
        named == {p \in all : p[3] = name}
    IN  IF name = "any" THEN Foremost(i) ELSE IF named = {} THEN all ELSE named

(* load_asset: what a load may return; without a path, the user's fallback.*)
LoadAsset(want, name) ==
    LET found == ArtifactsOf(RevisionOf(want), name)
    IN  IF found = {} THEN {Fallback} ELSE found

(* search_items: the file of the latest revision, if it has one.           *)
SearchItems == Foremost(Latest)

-----------------------------------------------------------------------------
Calling(c) ==
    \/ Look(c) \/ Make(c) \/ CreateRevision(c) \/ CreateArtifact(c) \/ Retry(c)
    \/ Tag(c) \/ Find(c) \/ Edge(c) \/ Finish(c) \/ Refused(c) \/ CallFails(c)

(* _register_with_kumiho, and its copy for videos: the output, and its     *)
(* dependencies.                                                           *)
RegisterImage(c) == job[c].kind = "image" /\ Calling(c)
RegisterVideo(c) == job[c].kind = "video" /\ owner[c] = "out" /\ Calling(c)
LinkVideo(c) == job[c].kind = "video" /\ owner[c] # "out" /\ Calling(c)

Next ==
    \/ \E c \in Comfy : SaveImage(c) \/ SaveVideo(c) \/ Stop(c)
                       \/ RegisterImage(c) \/ RegisterVideo(c) \/ LinkVideo(c)
    \/ \E i \in DOMAIN revisions : Publish(i)

Spec == Init /\ [][Next]_comfyVars

-----------------------------------------------------------------------------
Jobs == [save : 0..MaxSaves, kind : {"none", "image", "video"},
         names : {<<>>} \cup Batches("image") \cup Batches("video"),
         workflow : Workflows \cup {<<>>}]

(* Every variable has its type.                                            *)
TypeOK ==
    /\ existing \subseteq {"out"} \cup Files
    /\ \A i \in DOMAIN revisions :
          /\ revisions[i].owner \in {"out"} \cup Files
          /\ revisions[i].edges \subseteq DOMAIN revisions
    /\ tagged \in {0} \cup Outputs
    /\ doing \in [Comfy -> Calls \cup {"idle", "finish"}]
    /\ job \in [Comfy -> Jobs]
    /\ owner \in [Comfy -> {"out"} \cup Files]
    /\ \A c \in Comfy : missed[c] \subseteq Files
    /\ target \in [Comfy -> 0..Len(revisions)] /\ held \in [Comfy -> 0..Len(revisions)]
    /\ written \in 0..MaxSaves /\ faults \in 0..MaxFaults

(* A registration that reports success has every file of its save, and no  *)
(* other, on the revision that it returns, with the metadata of the        *)
(* workflow: also when the revision was published half-way                 *)
(* (_register_with_kumiho, "recreating revision and retrying artifacts").  *)
SavedIsWhole ==
    \A r \in returned :
        LET revision == revisions[r.rev]
        IN  /\ revision.arts = {OutputPath(r.job.save, r.job.names[k]) : k \in DOMAIN r.job.names}
            /\ revision.about = Metadata(r.job)

(* An edge leads from an output to a revision of this project that holds a *)
(* file which the workflow of that output loads, and a registration that   *)
(* reports success has one for every file that it did not give up.         *)
LineageIsTrue ==
    /\ \A i \in DOMAIN revisions : \A e \in revisions[i].edges :
          \E f \in Files : e \in Holders(f) /\ revisions[e].owner = f
    /\ \A r \in returned :
          LET edges == revisions[r.rev].edges
              loaded == {r.job.workflow[k].value : k \in Dependencies(r.job.workflow)}
          IN  /\ \A e \in edges : \E f \in loaded : e \in Holders(f)
              /\ \A f \in loaded \ r.missed : edges \cap Holders(f) # {}

(* A kref that a save returned is loaded from a file of that save, never   *)
(* from its preview unless that was asked for, and without the fallback,   *)
(* whatever was saved, published or given up since; a search shows no      *)
(* preview either.                                                         *)
KrefLoadsItsSave ==
    /\ \A r \in returned : \A name \in {"any", "preview"} : \A p \in LoadAsset(r.rev, name) :
          /\ p \in {OutputPath(r.job.save, r.job.names[k]) : k \in DOMAIN r.job.names}
          /\ name = "any" => p[3] # "preview"
    /\ \A p \in SearchItems : p[1] = "out" /\ p[3] # "preview"

(* What the nodes register is what was saved, and can be loaded again.     *)
AssetsAreTrue == SavedIsWhole /\ LineageIsTrue /\ KrefLoadsItsSave
=============================================================================
