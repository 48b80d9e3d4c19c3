---------------------------- MODULE MCJiraSearch ----------------------------
\* Instances of JiraSearch for TLC: four issues of three projects.
EXTENDS JiraSearch

MCProjects == {"ABC", "OPS", "WEB"}
Issue(p, m) == [project |-> p, matches |-> m]
MCIssues == <<Issue("ABC", TRUE), Issue("WEB", TRUE), Issue("OPS", FALSE), Issue("ABC", TRUE)>>
MCFilters == {{}, {"ABC"}, {"ABC", "OPS"}}
MCPageSizes == {1, 2}
=============================================================================
