------------------------- MODULE MCJiraOperations -------------------------
(* Two issues that move between two projects, two versions, two files, of *)
(* which one has no content URL, and batches of up to two items.          *)
EXTENDS JiraOperations

MCIssues == {"i1", "i2"}
MCProjects == {"p1", "p2"}
MCVersions == {"v1", "v2"}
MCFiles == {"f1", "f2"}
MCForeign == {"f2"}
MCFilters == {{}, {"p1"}}
============================================================================
