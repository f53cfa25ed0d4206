------------------------------ MODULE ClusterPlan ------------------------------
(***************************************************************************)
(* Placement planning (internal/clusterplan): from one membership snapshot *)
(* and a policy to a route preview, and from a preview to an immutable     *)
(* deployment plan.  Pure functions; a failure is a reason.                *)
(*                                                                         *)
(* Names are numbers in their string order, 0 the empty string.  A member  *)
(* is a record                                                             *)
(*   node, name, hostname, urlHost   identity; urlHost: host of its APIURL *)
(*   valid, fresh                    Member.Valid, not Member.IsStale      *)
(*   memory, computes                capabilities the placement looks at   *)
(*   assigned, index, count, start, end   advertised runtime stage         *)
(*   facts                           the ten facts that all stages must    *)
(*                                   share, 0: one is missing or malformed *)
(*   engine, llamaRev, direct, endpoint, pipeline, idle, backend, cuda     *)
(* and a model profile [layers, memory, compute, pipeline, engines,        *)
(* artifact].  Display-only fields of a preview (placements, warnings) are *)
(* left out.                                                               *)
(***************************************************************************)
EXTENDS Integers, FiniteSets, SequencesExt

OK == "ok"    \* the empty Reason
LlamaCPP == 1 \* the engines and compute backends, in string order
Native == 2
CPU == 1
CUDA == 2
NilCompute == -1     \* PreferredCompute: nil, or a pointer to "" (0)
Prefers(model) == model.compute \notin {NilCompute, 0}

-----------------------------------------------------------------------------
(* validation.go *)

\* The reason of the first check <<failed, reason>> that failed.
FirstFailure(checks) ==
    LET failed == SelectSeq(checks, LAMBDA c : c[1])
    IN IF failed = <<>> THEN OK ELSE failed[1][2]

validatePlanningRequest(layers, requested) ==
    FirstFailure(<< <<layers <= 0, "invalid_layer_count">>,
                    <<requested < 0, "invalid_stage_count">>,
                    <<requested > layers, "stage_count_exceeds_layers">> >>)

policyStageCount(policy) ==
    IF policy.stageCount # 0 THEN policy.stageCount ELSE Len(policy.counts)

SumOf(counts) == FoldLeft(LAMBDA a, b : a + b, 0, counts)

validateStageLayerCounts(layers, stages, counts) ==
    IF \/ counts = <<>>
       \/ /\ stages = Len(counts)
          /\ \A i \in DOMAIN counts : counts[i] > 0
          /\ SumOf(counts) = layers
    THEN OK ELSE "invalid_stage_layer_counts"

\* expectedStart: where the layer range of item i has to begin
ExpectedStart(items, i) == IF i = 1 THEN 0 ELSE items[i - 1].end

\* The loop's checks in its order: for every stage its index, then its range.
validateStagePlan(stages, layers) ==
    LET IndexBad(i) == \/ stages[i].index # i - 1
                       \/ stages[i].count # Len(stages)
        RangeBad(i) == \/ stages[i].start # ExpectedStart(stages, i)
                       \/ stages[i].end <= stages[i].start
                       \/ stages[i].end > layers
        loop == FlattenSeq([i \in DOMAIN stages |->
                  << <<IndexBad(i), "invalid_stage_indices">>,
                     <<RangeBad(i), "invalid_layer_ranges">> >>])
    IN IF layers <= 0 THEN "invalid_layer_count"
       ELSE IF stages = <<>> THEN "invalid_stage_count"
       ELSE IF Len(stages) > layers THEN "stage_count_exceeds_layers"
       ELSE FirstFailure(Append(loop, <<Last(stages).end # layers, "invalid_layer_ranges">>))

\* The placement, as a sequence of length one, or <<>>.
verifiedFullModelReplica(candidates, layers) ==
    LET full == SelectSeq(candidates, LAMBDA c :
                  /\ c.assigned /\ c.index = 0 /\ c.count = 1
                  /\ c.start = 0 /\ c.end = layers)
    IN SubSeq(full, 1, IF full = <<>> THEN 0 ELSE 1)

-----------------------------------------------------------------------------
(* plan.go: candidates *)

PhysicalHostID(m) ==
    LET names == SelectSeq(<<m.hostname, m.urlHost, m.name, m.node>>,
                           LAMBDA h : h # 0)
    IN names[1]

runtimeAssignment(m) ==
    m.assigned /\ m.count > 0 /\ m.index >= 0 /\ m.index < m.count /\ m.end > m.start

memoryOK(model, m) == model.memory <= 0 \/ m.memory >= model.memory

computeOK(model, m) == ~Prefers(model) \/ model.compute \in m.computes

placementForMember(model, m) ==
    [node |-> m.node, host |-> PhysicalHostID(m),
     valid |-> memoryOK(model, m) /\ computeOK(model, m),
     assigned |-> runtimeAssignment(m),
     index |-> m.index, count |-> m.count, start |-> m.start, end |-> m.end]

\* The comparison of sortPlacements; node ids are unique in a snapshot.
PlacedBefore(a, b) ==
    IF a.assigned /\ b.assigned /\ a.count = b.count /\ a.index # b.index
    THEN a.index < b.index
    ELSE a.host < b.host \/ (a.host = b.host /\ a.node < b.node)

\* sort.SliceStable on fewer than 20 elements: insertion from the right.
sortPlacements(placements) ==
    LET Insert(sorted, p) ==
          LET stay == SelectLastInSeq(sorted, LAMBDA q : ~PlacedBefore(p, q))
          IN InsertAt(sorted, stay + 1, p)
    IN FoldLeft(Insert, <<>>, placements)

candidatePlacements(model, members) ==
    LET live   == SelectSeq(members, LAMBDA m : m.valid /\ m.fresh)
        placed == [i \in DOMAIN live |-> placementForMember(model, live[i])]
    IN sortPlacements(SelectSeq(placed, LAMBDA p : p.valid))

hasRuntimeAssignments(candidates) ==
    \E i \in DOMAIN candidates : candidates[i].assigned

runtimeRangesCoverModel(placements, layers) ==
    /\ \A i \in DOMAIN placements :
         /\ placements[i].start = ExpectedStart(placements, i)
         /\ placements[i].end > placements[i].start
    /\ layers <= 0 \/ Last(placements).end = layers

\* The lowest stage count whose advertised stages make a whole pipeline; <<>>
\* when there is none.
explicitPipelinePlacements(candidates, layers, requested) ==
    LET usable == SelectSeq(candidates, LAMBDA c :
                    /\ c.assigned /\ c.count >= 2
                    /\ requested > 0 => c.count = requested)
        Of(n, i)    == SelectSeq(usable, LAMBDA c : c.count = n /\ c.index = i)
        Complete(n) == \A i \in 0..(n - 1) : Of(n, i) # <<>>
        Ordered(n)  == [i \in 1..n |-> Of(n, i - 1)[1]]
        whole == {n \in {usable[i].count : i \in DOMAIN usable} :
                    Complete(n) /\ runtimeRangesCoverModel(Ordered(n), layers)}
    IN IF whole = {} THEN <<>> ELSE Ordered(CHOOSE n \in whole : \A k \in whole : n <= k)

\* The first candidate of every physical host, at most count of them.
selectDistinctPhysicalHosts(candidates, count) ==
    LET first == SelectSeq([i \in DOMAIN candidates |->
                              [c |-> candidates[i],
                               new |-> \A j \in 1..(i - 1) :
                                         candidates[j].host # candidates[i].host]],
                           LAMBDA e : e.new)
        n == IF Len(first) < count THEN Len(first) ELSE count
    IN [i \in 1..n |-> first[i].c]

-----------------------------------------------------------------------------
(* plan.go: layer ranges and stages *)

\* start and end of every stage, accumulated from the widths
RangesOf(widths) ==
    [i \in DOMAIN widths |-> [start |-> SumOf(SubSeq(widths, 1, i - 1)),
                              end   |-> SumOf(SubSeq(widths, 1, i))]]

AssignConfiguredLayerRanges(layers, counts) ==
    IF validateStageLayerCounts(layers, Len(counts), counts) = OK
    THEN RangesOf(counts) ELSE <<>>

AssignLayerRanges(layers, stages) ==
    IF layers <= 0 \/ stages <= 0 \/ stages > layers THEN <<>>
    ELSE RangesOf([i \in 1..stages |->
           (layers \div stages) + (IF i - 1 < layers % stages THEN 1 ELSE 0)])

\* An advertised assignment overrides the computed range, index and count.
buildStages(placements, layers, counts) ==
    LET ranges == IF counts # <<>> THEN AssignConfiguredLayerRanges(layers, counts)
                  ELSE AssignLayerRanges(layers, Len(placements))
        Stage(i) == LET p == placements[i] IN
          IF p.assigned
          THEN [node |-> p.node, host |-> p.host, index |-> p.index,
                count |-> p.count, start |-> p.start, end |-> p.end]
          ELSE [node |-> p.node, host |-> p.host, index |-> i - 1,
                count |-> Len(placements),
                start |-> ranges[i].start, end |-> ranges[i].end]
    IN IF Len(ranges) # Len(placements) THEN <<>>
       ELSE [i \in DOMAIN placements |-> Stage(i)]

\* topologyForStages and topologyForPlacements
Colocated(items) ==
    \/ \E i, j \in DOMAIN items : i # j /\ items[i].host = items[j].host
    \/ Len(items) <= 1

\* finalizeTopology: the counts a preview reports with its stages
RoutePreview(reason, mode, stages) ==
    [valid |-> reason = OK, reason |-> reason, mode |-> mode, stages |-> stages,
     nodes |-> Cardinality({stages[i].node : i \in DOMAIN stages}),
     hosts |-> Cardinality({stages[i].host : i \in DOMAIN stages}),
     topology |-> IF Colocated(stages) THEN "colocated" ELSE "distributed"]

dataParallelPreview(placement, layers) ==
    LET stages == buildStages(<<placement>>, layers, <<>>)
    IN RoutePreview(validateStagePlan(stages, layers), "data_parallel", stages)

\* Mutant: the colocation policy is not looked at.
pipelinePreviewAnyTopology(placements, policy, layers) ==
    LET stages == buildStages(placements, layers, policy.counts)
    IN RoutePreview(validateStagePlan(stages, layers), "pipeline_parallel", stages)

pipelinePreview(placements, policy, layers) ==
    LET stages == buildStages(placements, layers, policy.counts)
        valid  == validateStagePlan(stages, layers)
        reason == IF /\ valid = OK
                     /\ Colocated(placements) /\ Len(placements) > 1
                     /\ ~policy.colocated
                  THEN "colocated_stages_disallowed" ELSE valid
    IN RoutePreview(reason, "pipeline_parallel", stages)

Refused(reason) == RoutePreview(reason, "none", <<>>)

\* requested = 0 asks for every candidate, up to one per layer
Preview(model, members, policy) ==
    LET candidates == candidatePlacements(model, members)
        requested  == policyStageCount(policy)
        planning   == validatePlanningRequest(model.layers, requested)
        counts     == validateStageLayerCounts(model.layers, requested, policy.counts)
        explicit   == IF model.pipeline
                      THEN explicitPipelinePlacements(candidates, model.layers,
                                                      policy.stageCount)
                      ELSE <<>>
        replica    == verifiedFullModelReplica(candidates, model.layers)
        wanted     == IF requested # 0 THEN requested
                      ELSE IF Len(candidates) < model.layers
                           THEN Len(candidates) ELSE model.layers
        distinct   == selectDistinctPhysicalHosts(candidates, wanted)
    IN IF planning # OK THEN Refused(planning)
       ELSE IF counts # OK THEN Refused(counts)
       ELSE IF candidates = <<>> THEN Refused("no_eligible_members")
       ELSE IF explicit # <<>> THEN pipelinePreview(explicit, policy, model.layers)
       ELSE IF hasRuntimeAssignments(candidates) THEN
              IF replica # <<>> THEN dataParallelPreview(replica[1], model.layers)
              ELSE Refused("incomplete_runtime_assignments")
       ELSE IF ~model.pipeline \/ wanted <= 1 \/ Len(candidates) = 1 THEN
              dataParallelPreview(candidates[1], model.layers)
       ELSE IF wanted > Len(candidates) THEN Refused("insufficient_stages")
       ELSE pipelinePreview(IF Len(distinct) = wanted THEN distinct
                            ELSE SubSeq(candidates, 1, wanted),
                            policy, model.layers)

\* What PreviewPipeline makes of the preview of its arguments: a valid one-stage
\* route of a pipeline model is served as a pipeline.
PreviewPipeline(model, preview) ==
    IF preview.valid /\ Len(preview.stages) = 1 /\ model.pipeline
    THEN [preview EXCEPT !.mode = "pipeline_parallel"]
    ELSE preview

-----------------------------------------------------------------------------
(* deployment_builder.go: which members may share a deployment *)

\* engines: the supported engines, in string order the first is selected
selectDeploymentEngine(model) ==
    CHOOSE e \in model.engines : \A f \in model.engines : e <= f

requiredDeploymentStages(policy) ==
    IF policyStageCount(policy) > 0 THEN policyStageCount(policy) ELSE 1

\* facts = 0: a required text is empty, a limit is below 1, or the decode
\* batch is larger than the number of parallel sessions.
memberDeploymentCompatibility(model, engine, m) ==
    /\ m.facts # 0
    /\ m.direct => m.endpoint
    /\ m.engine = engine
    /\ m.pipeline
    /\ m.idle
    /\ engine = LlamaCPP => m.llamaRev
    /\ m.backend \in {CPU, CUDA}
    /\ Prefers(model) => /\ m.backend = model.compute
                         /\ m.backend = CUDA => m.cuda

\* Without a preferred compute the backends may be mixed.
compatibilityKey(model, m) ==
    IF model.compute # NilCompute
    THEN <<m.facts, m.backend, IF m.cuda THEN 1 ELSE 0>>
    ELSE <<m.facts, 0, 0>>

KeyAtMost(a, b) ==
    \/ a = b
    \/ \E i \in 1..3 : a[i] < b[i] /\ \A j \in 1..(i - 1) : a[j] = b[j]

\* The largest group of agreeing members that is large enough, the first in
\* key order among equals; <<>> when there is none.
compatibleDeploymentMembers(model, engine, members, required) ==
    LET able == SelectSeq(members, LAMBDA m :
                  m.valid /\ m.fresh /\ memberDeploymentCompatibility(model, engine, m))
        Group(k) == SelectSeq(able, LAMBDA m : compatibilityKey(model, m) = k)
        keys == {k \in {compatibilityKey(model, able[i]) : i \in DOMAIN able} :
                   Len(Group(k)) >= required}
        Preferred(k) == \A o \in keys :
                          \/ Len(Group(k)) > Len(Group(o))
                          \/ Len(Group(k)) = Len(Group(o)) /\ KeyAtMost(k, o)
    IN IF keys = {} THEN <<>> ELSE Group(CHOOSE k \in keys : Preferred(k))

-----------------------------------------------------------------------------
(* deployment.go and BuildDeploymentPlan *)

\* The stage checks of validateDeploymentPlan.
validateDeploymentPlan(stages, layers) ==
    /\ layers > 0
    /\ stages # <<>>
    /\ \A i \in DOMAIN stages :
         /\ stages[i].index = i - 1 /\ stages[i].count = Len(stages)
         /\ stages[i].node # 0
         /\ \A j \in 1..(i - 1) : stages[j].node # stages[i].node
         /\ stages[i].start = ExpectedStart(stages, i)
         /\ stages[i].end > stages[i].start
    /\ Last(stages).end = layers

NoPlan(error) == [ok |-> FALSE, error |-> error, stages |-> <<>>]

\* The members that BuildDeploymentPlan looks at.
DeploymentGroup(model, members, policy) ==
    compatibleDeploymentMembers(model, selectDeploymentEngine(model), members,
                                requiredDeploymentStages(policy))

\* From the group and its preview to the plan.  The model id, the digest and the
\* deployment identity are well formed here.
BuildDeploymentPlan(model, group, preview) ==
    IF model.layers <= 0 THEN NoPlan("layer_count")
    ELSE IF ~model.pipeline THEN NoPlan("pipeline unsupported")
    ELSE IF model.engines = {} THEN NoPlan("no engine")
    ELSE IF selectDeploymentEngine(model) = LlamaCPP /\ ~model.artifact THEN NoPlan("artifact_path")
    ELSE IF group = <<>> THEN NoPlan("incompatible")
    ELSE IF ~preview.valid THEN NoPlan(preview.reason)
    ELSE IF preview.mode # "pipeline_parallel" THEN NoPlan("mode")
    ELSE IF ~validateDeploymentPlan(preview.stages, model.layers)
         THEN NoPlan("invalid plan")
    ELSE [ok |-> TRUE, error |-> OK, stages |-> preview.stages]
=============================================================================
