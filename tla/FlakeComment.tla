---------------------------- MODULE FlakeComment ----------------------------
(***************************************************************************)
(* main of src/scripts/process_flake_log.py and of                        *)
(* src/scripts/post_flake_comment.py, run by several CI jobs of one pull  *)
(* request at once.  Both share get_pr_number and post_comment; only      *)
(* process_flake_log checks thresholds, post_flake_comment always         *)
(* returns 0.                                                              *)
(*                                                                         *)
(* Each job reads its own flakes file, loads the flake groups of          *)
(* .test_patterns.yml with yq, checks the error thresholds, then finds    *)
(* the PR's marker comment and PATCHes it, or creates one.  Every remote  *)
(* call (yq, gh) may fail; each is one step, so the jobs interleave       *)
(* between them.  A flake line is abstracted to its `group:` tag          *)
(* (NoGroup: none); a comment to the job whose body it holds.             *)
(***************************************************************************)
EXTENDS Integers, Sequences, SequencesExt, FiniteSets, TextNormalizer

CONSTANTS
  Jobs,          \* the CI jobs posting to the PR
  PostJobs,      \* those of them that run post_flake_comment.py
  Groups,        \* flake group ids
  NoGroup,       \* a flake line without `group:`
  MaxFlakes,     \* longest flakes file
  MaxThreshold   \* largest flake_error_threshold

(* A group's entry in flake_groups: absent, without a threshold, or its   *)
(* flake_error_threshold (the negative codes are no threshold).            *)
Absent      == -2
NoThreshold == -1

GroupConfigs == {Absent, NoThreshold} \cup 0..MaxThreshold

NoConfig == [g \in Groups |-> Absent]

VARIABLES
  config,    \* flake_groups of .test_patterns.yml (the repository file)
  flakes,    \* job -> read_flakes(flakes_file): group tag per line
  pc,        \* job -> where main is
  loaded,    \* job -> what load_flake_groups returned
  exceeded,  \* job -> groups of check_flake_thresholds
  postFlag,  \* job -> args.post_comment (post_flake_comment.py always posts)
  target,    \* job -> comment id found by get_comment_id (0: None)
  comments,  \* the PR's marker comments, oldest first: the job of each body
  exitCode   \* job -> main's return value (-1 while running)

vars == <<config, flakes, pc, loaded, exceeded, postFlag, target, comments, exitCode>>

(* Mutant: `flake_count > threshold`.                                      *)
CheckFlakeThresholdsStrict(cfg, byGroup) ==
  {g \in DOMAIN byGroup : cfg[g] \in Nat /\ Len(byGroup[g]) > cfg[g]}

(* check_flake_thresholds, lines 97-123: groups with a configured          *)
(* threshold that their flake count reaches.                               *)
CheckFlakeThresholds(cfg, byGroup) ==
  {g \in DOMAIN byGroup : cfg[g] \in Nat /\ Len(byGroup[g]) >= cfg[g]}

(* parse_flakes_by_group, lines 79-95: the grouped flakes (the ungrouped   *)
(* list is never used).                                                     *)
ParseFlakesByGroup(fl) ==
  LET add(acc, f) ==
        IF f = NoGroup THEN acc
        ELSE IF f \in DOMAIN acc THEN [acc EXCEPT ![f] = Append(@, f)]
        ELSE acc @@ (f :> <<f>>)
  IN  FoldLeft(add, [g \in {} |-> <<>>], fl)

Init ==
  /\ config \in [Groups -> GroupConfigs]
  /\ flakes \in [Jobs -> BoundedSeq(Groups \cup {NoGroup}, MaxFlakes)]
  /\ pc = [j \in Jobs |-> "start"]
  /\ loaded = [j \in Jobs |-> NoConfig]
  /\ exceeded = [j \in Jobs |-> {}]
  /\ postFlag \in {f \in [Jobs -> BOOLEAN] : \A j \in PostJobs : f[j]}
  /\ target = [j \in Jobs |-> 0]
  /\ comments = <<>>
  /\ exitCode = [j \in Jobs |-> -1]

(* Lines 156-159: no flakes, nothing to do.                                *)
NoFlakes(j) ==
  /\ pc[j] = "start" /\ flakes[j] = <<>>
  /\ pc' = [pc EXCEPT ![j] = "done"]
  /\ exitCode' = [exitCode EXCEPT ![j] = 0]
  /\ UNCHANGED <<config, flakes, postFlag, loaded, exceeded, target, comments>>

(* Lines 163-169 with load_flake_groups (65-77): a failed yq call, or no   *)
(* flake_groups, gives {}.                                                  *)
CheckThresholds(j) ==
  /\ j \notin PostJobs
  /\ pc[j] = "start" /\ flakes[j] /= <<>>
  /\ \E ok \in BOOLEAN :
       LET cfg == IF ok THEN config ELSE NoConfig IN
       /\ loaded' = [loaded EXCEPT ![j] = cfg]
       /\ exceeded' = [exceeded EXCEPT ![j] =
                         CheckFlakeThresholds(cfg, ParseFlakesByGroup(flakes[j]))]
  /\ pc' = [pc EXCEPT ![j] = "pr"]
  /\ UNCHANGED <<config, flakes, postFlag, target, comments, exitCode>>

(* post_flake_comment.main, lines 85-93: no thresholds; exceeded stays    *)
(* {}, so the job returns 0 whatever happens next.                         *)
PostStart(j) ==
  /\ j \in PostJobs
  /\ pc[j] = "start" /\ flakes[j] /= <<>>
  /\ pc' = [pc EXCEPT ![j] = "pr"]
  /\ UNCHANGED <<config, flakes, postFlag, loaded, exceeded, target, comments, exitCode>>

(* Mutant: the number of exceeded groups returned as the exit code.       *)
ExitForCount(j) == Cardinality(exceeded[j])

(* Lines 183-189: fail the build if a threshold was reached.               *)
ExitFor(j) == IF exceeded[j] /= {} THEN 1 ELSE 0

(* Lines 172-174 with get_pr_number (20-32): the PR may not be found.     *)
ResolvePR(j) ==
  /\ pc[j] = "pr" /\ postFlag[j]
  /\ \/ pc' = [pc EXCEPT ![j] = "lookup"] /\ UNCHANGED exitCode
     \/ /\ pc' = [pc EXCEPT ![j] = "done"]
        /\ exitCode' = [exitCode EXCEPT ![j] = ExitFor(j)]
  /\ UNCHANGED <<config, flakes, postFlag, loaded, exceeded, target, comments>>

(* Lines 172 and 182-189: without --post-comment the job only reports   *)
(* the thresholds.                                                         *)
SkipComment(j) ==
  /\ pc[j] = "pr" /\ ~postFlag[j]
  /\ pc' = [pc EXCEPT ![j] = "done"]
  /\ exitCode' = [exitCode EXCEPT ![j] = ExitFor(j)]
  /\ UNCHANGED <<config, flakes, postFlag, loaded, exceeded, target, comments>>

(* get_comment_id, lines 43-49: the first marker comment, or None when    *)
(* there is none or the gh call fails.                                     *)
LookupComment(j) ==
  /\ pc[j] = "lookup"
  /\ \E ok \in BOOLEAN :
       target' = [target EXCEPT ![j] = IF ok /\ comments /= <<>> THEN 1 ELSE 0]
  /\ pc' = [pc EXCEPT ![j] = "write"]
  /\ UNCHANGED <<config, flakes, postFlag, loaded, exceeded, comments, exitCode>>

(* post_comment, lines 53-58: PATCH the comment found; the call may fail. *)
PatchComment(j) ==
  /\ pc[j] = "write" /\ target[j] /= 0
  /\ \/ comments' = [comments EXCEPT ![target[j]] = j]
     \/ UNCHANGED comments
  /\ pc' = [pc EXCEPT ![j] = "done"]
  /\ exitCode' = [exitCode EXCEPT ![j] = ExitFor(j)]
  /\ UNCHANGED <<config, flakes, postFlag, loaded, exceeded, target>>

(* post_comment, lines 59-63: create a comment; the call may fail.        *)
CreateComment(j) ==
  /\ pc[j] = "write" /\ target[j] = 0
  /\ \/ comments' = Append(comments, j)
     \/ UNCHANGED comments
  /\ pc' = [pc EXCEPT ![j] = "done"]
  /\ exitCode' = [exitCode EXCEPT ![j] = ExitFor(j)]
  /\ UNCHANGED <<config, flakes, postFlag, loaded, exceeded, target>>

Step(j) ==
  \/ NoFlakes(j)
  \/ CheckThresholds(j)
  \/ PostStart(j)
  \/ ResolvePR(j)
  \/ SkipComment(j)
  \/ LookupComment(j)
  \/ PatchComment(j)
  \/ CreateComment(j)

Next == \E j \in Jobs : Step(j)

(* Each job is its own process on its own runner: it keeps running until *)
(* main returns.                                                           *)
Spec == Init /\ [][Next]_vars /\ \A j \in Jobs : WF_vars(Step(j))

AllDone == \A j \in Jobs : pc[j] = "done"

(* The groups of a flakes file whose count of flakes reaches their        *)
(* configured threshold, counted directly from its lines.                  *)
RefExceeded(cfg, fl) ==
  {g \in ToSet(fl) \cap Groups :
     cfg[g] \in Nat /\ Cardinality({k \in DOMAIN fl : fl[k] = g}) >= cfg[g]}

TypeOK ==
  /\ config \in [Groups -> GroupConfigs]
  /\ flakes \in [Jobs -> Seq(Groups \cup {NoGroup})]
  /\ pc \in [Jobs -> {"start", "pr", "lookup", "write", "done"}]
  /\ loaded \in [Jobs -> {config, NoConfig}]
  /\ exceeded \in [Jobs -> SUBSET Groups]
  /\ postFlag \in [Jobs -> BOOLEAN]
  /\ target \in [Jobs -> 0..Len(comments)]
  /\ comments \in Seq(Jobs)
  /\ exitCode \in [Jobs -> {-1, 0, 1}]

(* A job fails the build exactly when a group it saw reached the          *)
(* threshold of the configuration it loaded, whatever happened to the PR  *)
(* lookup and to the comment it posts or patches (lines 163-189).         *)
ExitMatchesLoadedConfig ==
  \A j \in Jobs :
    exitCode[j] /= -1 =>
      (exitCode[j] = 1 <=> RefExceeded(loaded[j], flakes[j]) /= {})

(* A flake line as CI logs it: characters other than ESC and the escapes *)
(* of ECMA-48, a two-character escape or ESC "[" with parameter and       *)
(* intermediate bytes and a final byte.                                     *)
LogChars == {<<c>> : c \in Alphabet \ {Esc}}

EscapeCodes ==
  {<<Esc, c>> : c \in FeBytes} \cup
  {<<Esc, "[">> \o p \o m \o <<f>> :
     p \in BoundedSeq(ParamBytes, 2), m \in BoundedSeq(InterBytes, 1), f \in FinalBytes}

EscapesStripped ==
  \A t \in BoundedSeq(LogChars \cup EscapeCodes, 2) :
    StripAnsiColors(FlattenSeq(t)) = FlattenSeq(SelectSeq(t, LAMBDA x : x \in LogChars))

(* A marker comment whose body process_flake_log.py built lists its tests *)
(* as plain text: build_comment passes every flake line through           *)
(* strip_ansi_colors (lines 125-134), which removes each escape and keeps  *)
(* every other character, in order.  The stripping is checked on every    *)
(* line of at most two pieces.  post_flake_comment.py's build_comment     *)
(* strips nothing, so its bodies are not covered.                          *)
CommentTestsPlain ==
  \A k \in DOMAIN comments : comments[k] \notin PostJobs => EscapesStripped

(* post_comment "creates or updates" THE flake comment: a PR carries at   *)
(* most one comment with FLAKE_MARKER.                                     *)
AtMostOneMarker == Len(comments) <= 1

=============================================================================
