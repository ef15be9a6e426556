------------------------------ MODULE CopyQuay ------------------------------
(* copy-quay: cron starts `copy`, which copies the images of the latest build *)
(* of a release to quay.io under the hash of the build, and `tag`, which puts *)
(* current-tripleo on the images of the hash DLRN has promoted - on those     *)
(* that the log of the latest build names, which is another build as a rule.  *)
(* Both start in the same minute, nothing waits for a run that is still at    *)
(* work, and both log most errors and go on.                                  *)
EXTENDS Naturals

CONSTANTS
    Image,
    MaxHash,         (* builds; a hash is the number of its build             *)
    TagRun,          (* tag runs that can be at work together                 *)
    MaxQuayFaults    (* failed requests in a run of TLC                       *)

ASSUME CopyQuayAssumption == MaxHash \in Nat \ {0} /\ MaxQuayFaults \in Nat

NoHash == 0          (* the empty string                                      *)
Hash == 1..MaxHash

VARIABLES
    built,           (* the hash of the latest good build                     *)
    buildLog,        (* the images in the log of that build                   *)
    promotedHash,    (* what DLRN answers for current-tripleo                 *)
    repository,      (* the repositories of the namespace on quay.io          *)
    hashTag,         (* for each image the hashes it is tagged with there     *)
    currentTag,      (* for each image the hash under current-tripleo         *)
    copying,         (* the images a copy run still has to copy               *)
    tagToPull,
    tagging,         (* for each tag run the images it still has to tag       *)
    tagHash,         (* promoted_hash of each tag run                         *)
    unknownHash,     (* a tag run went on without a promoted hash             *)
    quayFaults

quayVars == <<repository, hashTag, currentTag>>
ciVars == <<built, buildLog, promotedHash>>
copyVars == <<copying, tagToPull>>
tagVars == <<tagging, tagHash, unknownHash>>
copyQuayVars == <<ciVars, quayVars, copyVars, tagVars, quayFaults>>

CopyQuayTypeOK ==
    /\ built \in Hash
    /\ buildLog \in SUBSET Image
    /\ promotedHash \in 0..MaxHash
    /\ repository \in SUBSET Image
    /\ hashTag \in [Image -> SUBSET Hash]
    /\ currentTag \in [Image -> 0..MaxHash]
    /\ copying \in SUBSET Image
    /\ tagToPull \in Hash
    /\ tagging \in [TagRun -> SUBSET Image]
    /\ tagHash \in [TagRun -> 0..MaxHash]
    /\ unknownHash \in BOOLEAN
    /\ quayFaults \in 0..MaxQuayFaults

CopyQuayInit ==
    /\ built = 1
    /\ buildLog \in SUBSET Image
    /\ promotedHash = NoHash
    /\ repository = {}
    /\ hashTag = [i \in Image |-> {}]
    /\ currentTag = [i \in Image |-> NoHash]
    /\ copying = {}
    /\ tagToPull = 1
    /\ tagging = [r \in TagRun |-> {}]
    /\ tagHash = [r \in TagRun |-> NoHash]
    /\ unknownHash = FALSE
    /\ quayFaults = 0

QuayFault == quayFaults < MaxQuayFaults /\ quayFaults' = quayFaults + 1

-----------------------------------------------------------------------------
(* The build job succeeds again, with the same images or others; the promoter *)
(* promotes a later build.                                                    *)
NewBuild ==
    /\ built < MaxHash
    /\ built' = built + 1
    /\ buildLog' \in SUBSET Image
    /\ UNCHANGED <<promotedHash, quayVars, copyVars, tagVars, quayFaults>>

DlrnPromotes ==
    /\ promotedHash' \in promotedHash + 1 .. built
    /\ UNCHANGED <<built, buildLog, quayVars, copyVars, tagVars, quayFaults>>

(* getLatestGoodBuildURL, fetchLogs and parseLog: the images of the log, and  *)
(* none at all when the build or its logs cannot be fetched: no run then.     *)
StartCopy ==
    /\ copying = {}
    /\ copying' = buildLog
    /\ tagToPull' = built
    /\ UNCHANGED <<ciVars, quayVars, tagVars, quayFaults>>

(* A repository that is not in the list is created before the copy.           *)
CopyImage(i) ==
    /\ i \in copying
    /\ repository' = repository \cup {i}
    /\ hashTag' = [hashTag EXCEPT ![i] = @ \cup {tagToPull}]
    /\ copying' = copying \ {i}
    /\ UNCHANGED <<ciVars, currentTag, tagToPull, tagVars, quayFaults>>

(* A refused creation is not noticed (only a lost connection is an error) and *)
(* fails the copy; a failed copy leaves the repository, and the loop goes on. *)
CopyFails(i) ==
    /\ i \in copying
    /\ QuayFault
    /\ repository' \in {repository, repository \cup {i}}
    /\ copying' = copying \ {i}
    /\ UNCHANGED <<ciVars, hashTag, currentTag, tagToPull, tagVars>>

(* tag: the promoted hash once, at the start; getCurrentTripleoRepo answers   *)
(* with an empty string when DLRN cannot be asked or has promoted nothing.    *)
(* The images are those of the log of the latest good build, whatever has     *)
(* been promoted, and none at all when that log cannot be fetched.            *)
StartTag(r) ==
    /\ tagging[r] = {}
    /\ \E hash \in {promotedHash, NoHash}, images \in {buildLog, {}} :
          /\ tagHash' = [tagHash EXCEPT ![r] = hash]
          /\ tagging' = [tagging EXCEPT ![r] = images]
          /\ unknownHash' = (unknownHash \/ hash = NoHash)
          /\ \/ hash = promotedHash /\ images = buildLog /\ UNCHANGED quayFaults
             \/ QuayFault
    /\ UNCHANGED <<ciVars, quayVars, copyVars>>

(* Mutant of ImageManifest: quay.io is not asked for the hash. *)
FirstManifest(i, hash) == hashTag[i] \cup ({currentTag[i]} \ {NoHash})

(* getImageManifest: the first tag quay.io lists.  With an empty specificTag  *)
(* it lists them all, current-tripleo included.                               *)
ImageManifest(i, hash) ==
    IF hash = NoHash
    THEN hashTag[i] \cup ({currentTag[i]} \ {NoHash})
    ELSE hashTag[i] \cap {hash}

(* Mutant of TagImage: an image that has the tag is not tagged again. *)
TagImageOnce(r, i) ==
    /\ i \in tagging[r]
    /\ LET found == ImageManifest(i, tagHash[r])
       IN IF found = {} \/ currentTag[i] # NoHash
          THEN UNCHANGED currentTag
          ELSE \E hash \in found : currentTag' = [currentTag EXCEPT ![i] = hash]
    /\ tagging' = [tagging EXCEPT ![r] = @ \ {i}]
    /\ UNCHANGED <<ciVars, repository, hashTag, copyVars, tagHash, unknownHash, quayFaults>>

(* An image without such a tag is logged and skipped. *)
TagImage(r, i) ==
    /\ i \in tagging[r]
    /\ LET found == ImageManifest(i, tagHash[r])
       IN IF found = {}
          THEN UNCHANGED currentTag
          ELSE \E hash \in found : currentTag' = [currentTag EXCEPT ![i] = hash]
    /\ tagging' = [tagging EXCEPT ![r] = @ \ {i}]
    /\ UNCHANGED <<ciVars, repository, hashTag, copyVars, tagHash, unknownHash, quayFaults>>

(* tagImage does not look at the status of the answer: the loop goes on.      *)
(* getImageManifest uses the answer it did not get, which ends the run.       *)
TagFails(r, i) ==
    /\ i \in tagging[r]
    /\ QuayFault
    /\ \/ tagging' = [tagging EXCEPT ![r] = @ \ {i}]
       \/ tagging' = [tagging EXCEPT ![r] = {}]
    /\ UNCHANGED <<ciVars, quayVars, copyVars, tagHash, unknownHash>>

CopyStep == StartCopy \/ \E i \in Image : CopyImage(i) \/ CopyFails(i)
TagStep(r) == StartTag(r) \/ \E i \in Image : TagImage(r, i) \/ TagFails(r, i)

CopyQuayNext ==
    \/ NewBuild \/ DlrnPromotes \/ CopyStep
    \/ \E r \in TagRun : TagStep(r)

(* Cron starts the commands again and again. *)
CopyQuaySpec ==
    /\ CopyQuayInit /\ [][CopyQuayNext]_copyQuayVars
    /\ WF_copyQuayVars(CopyStep)
    /\ \A r \in TagRun : WF_copyQuayVars(TagStep(r))

-----------------------------------------------------------------------------
(* current-tripleo never gets ahead of DLRN: an image under the label was     *)
(* copied under its hash, and the hash had been promoted, unless a run went   *)
(* on with the empty hash, which tags whatever quay.io lists first.           *)
CurrentWasPromoted ==
    \A i \in Image : currentTag[i] # NoHash =>
        /\ currentTag[i] \in hashTag[i]
        /\ currentTag[i] <= promotedHash \/ unknownHash

(* When builds and promotions have come to rest, every image that was copied  *)
(* under the promoted hash and that the latest build has too is, and stays,   *)
(* under current-tripleo: neither a run overtaken by a later one, nor one     *)
(* that failed half-way, nor one with an empty hash has the last word.  An    *)
(* image that the log of the latest build lacks is not looked at, and may     *)
(* keep an older hash under current-tripleo for ever.                         *)
TagsSettle ==
    <>[](\A i \in buildLog : promotedHash \in hashTag[i] => currentTag[i] = promotedHash)
=============================================================================
