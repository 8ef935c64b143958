\* Configurations with up to six combinable interventions, two endpoints out of five
\* manifests; seven projects and one edit; two evidence files and a symlink.
SPECIFICATION Spec
CONSTANTS
    Unset = Unset
    Keys = {"CFLAGS"}
    Tools = {"CC"}
    Values <- InValues
    FileOrder <- Order
    Mentions <- InMentions
    Configs <- InConfigs
    Manifests <- InManifests
    Trees <- InTrees
    Artifacts = {a1, a2}
    MaxEdits = 1
    Paths <- InPaths
    Resolve <- InResolve
    Documents <- InDocuments
INVARIANTS
    TogglesAreIndependent
    DeltaRestores
    FixInv
    VerifiedIsEarned
    MigrationIsFinal
PROPERTIES
    EvidenceSurvives
CHECK_DEADLOCK FALSE
