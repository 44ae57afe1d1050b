SPECIFICATION Spec
CONSTANTS
    revision1 = revision1
    revision2 = revision2
    Revisions <- MCRevisions
    Pages <- MCPages
    Sources = {"dea"}
    Broken = broken
    Text = text
    None = none
    MaxPublish = 1
    MaxFailures = 0
    MaxCrashes = 1
    MaxEdits = 0
INVARIANT CatalogueIsOneFetch
