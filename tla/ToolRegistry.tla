---------------------------- MODULE ToolRegistry ----------------------------
(***************************************************************************)
(* The tools the program registers (src/tool_registry.rs and the tables    *)
(* under src/tool_registry/): for each tool its toolset and what it is     *)
(* annotated as for MCP clients, and the toolsets of each profile.  A data *)
(* module: the development runners and the two surfaces are checked        *)
(* against these tables.                                                   *)
(***************************************************************************)

\* An entry of the registry.  A tool is annotated as read-only, as a write that
\* only adds, or as a write that may replace or delete.
T(name, toolset, annotation) ==
    [name |-> name, toolset |-> toolset, annotation |-> annotation]

JiraIssueTools == {
    T("jira_get_issue", "jira_issues_read", "read_only"),
    T("jira_search_issues", "jira_issues_read", "read_only"),
    T("jira_list_project_issues", "jira_issues_read", "read_only"),
    T("jira_search_fields", "jira_fields_read", "read_only"),
    T("jira_list_field_options", "jira_fields_read", "read_only"),
    T("jira_add_issue_comment", "jira_issue_comments_write", "additive_write"),
    T("jira_update_issue_comment", "jira_issue_comments_update", "destructive_write"),
    T("jira_list_issue_transitions", "jira_issue_workflows_read", "read_only"),
    T("jira_transition_issue", "jira_issue_workflows_write", "destructive_write"),
    T("jira_create_issue", "jira_issues_write", "additive_write"),
    T("jira_create_issues", "jira_issues_bulk_write", "additive_write"),
    T("jira_get_issue_changelogs", "jira_issues_history_read", "read_only"),
    T("jira_update_issue", "jira_issues_update", "destructive_write"),
    T("jira_delete_issue", "jira_issues_delete", "destructive_write")}

JiraProjectTools == {
    T("jira_list_projects", "jira_projects_read", "read_only"),
    T("jira_list_project_versions", "jira_projects_metadata_read", "read_only"),
    T("jira_list_project_components", "jira_projects_metadata_read", "read_only"),
    T("jira_create_project_version", "jira_project_versions_write", "additive_write"),
    T("jira_create_project_versions", "jira_project_versions_write", "additive_write"),
    T("jira_get_user", "jira_users_read", "read_only"),
    T("jira_list_issue_watchers", "jira_issue_watchers_read", "read_only"),
    T("jira_add_issue_watcher", "jira_issue_watchers_write", "additive_write"),
    T("jira_remove_issue_watcher", "jira_issue_watchers_delete", "destructive_write"),
    T("jira_list_issue_worklogs", "jira_issue_worklogs_read", "read_only"),
    T("jira_add_issue_worklog", "jira_issue_worklogs_write", "additive_write"),
    T("jira_list_issue_link_types", "jira_issue_links_read", "read_only"),
    T("jira_set_issue_parent", "jira_issue_links_write", "destructive_write"),
    T("jira_create_issue_link", "jira_issue_links_write", "additive_write"),
    T("jira_create_remote_issue_link", "jira_issue_links_write", "additive_write"),
    T("jira_delete_issue_link", "jira_issue_links_delete", "destructive_write")}

JiraWorkTools == {
    T("jira_get_issue_attachments", "jira_issue_attachments_read", "read_only"),
    T("jira_get_issue_image_attachments", "jira_issue_attachments_read", "read_only"),
    T("jira_list_agile_boards", "jira_agile_boards_read", "read_only"),
    T("jira_list_board_issues", "jira_agile_boards_read", "read_only"),
    T("jira_list_board_sprints", "jira_sprints_read", "read_only"),
    T("jira_list_sprint_issues", "jira_sprints_read", "read_only"),
    T("jira_create_sprint", "jira_sprints_write", "additive_write"),
    T("jira_update_sprint", "jira_sprints_write", "destructive_write"),
    T("jira_add_issues_to_sprint", "jira_sprint_membership_write", "destructive_write"),
    T("jira_get_project_service_desk", "jira_service_desks_read", "read_only"),
    T("jira_list_service_desk_queues", "jira_service_desks_read", "read_only"),
    T("jira_list_service_desk_queue_issues", "jira_service_desks_read", "read_only"),
    T("jira_get_issue_timeline", "jira_issue_metrics_read", "read_only"),
    T("jira_get_issue_sla_metrics", "jira_issue_sla_read", "read_only"),
    T("jira_get_issue_development", "jira_issue_development_read", "read_only"),
    T("jira_get_issues_development", "jira_issue_development_read", "read_only")}

ConfluencePageTools == {
    T("confluence_search_content", "confluence_content_read", "read_only"),
    T("confluence_get_page", "confluence_content_read", "read_only"),
    T("confluence_list_page_children", "confluence_content_read", "read_only"),
    T("confluence_get_space_page_tree", "confluence_content_read", "read_only"),
    T("confluence_create_page", "confluence_content_write", "additive_write"),
    T("confluence_update_page", "confluence_content_update", "destructive_write"),
    T("confluence_delete_page", "confluence_content_delete", "destructive_write"),
    T("confluence_move_page", "confluence_content_update", "destructive_write"),
    T("confluence_list_page_comments", "confluence_page_comments_read", "read_only"),
    T("confluence_add_page_comment", "confluence_page_comments_write", "additive_write"),
    T("confluence_reply_to_comment", "confluence_page_comments_write", "additive_write"),
    T("confluence_list_content_labels", "confluence_content_labels_read", "read_only"),
    T("confluence_add_content_label", "confluence_content_labels_write", "additive_write"),
    T("confluence_search_users", "confluence_users_read", "read_only"),
    T("confluence_get_page_version", "confluence_page_versions_read", "read_only"),
    T("confluence_get_page_diff", "confluence_page_versions_read", "read_only")}

ConfluenceMediaTools == {
    T("confluence_get_page_view_analytics", "confluence_page_analytics_read", "read_only"),
    T("confluence_upload_content_attachment", "confluence_attachments_write", "destructive_write"),
    T("confluence_upload_content_attachments", "confluence_attachments_write", "destructive_write"),
    T("confluence_list_content_attachments", "confluence_attachments_read", "read_only"),
    T("confluence_download_attachment", "confluence_attachments_read", "read_only"),
    T("confluence_download_content_attachments", "confluence_attachments_read", "read_only"),
    T("confluence_delete_attachment", "confluence_attachments_delete", "destructive_write"),
    T("confluence_get_content_image_attachments", "confluence_attachments_read", "read_only")}

GitlabTools == {
    T("gitlab_get_current_user", "gitlab_projects_read", "read_only"),
    T("gitlab_get_project", "gitlab_projects_read", "read_only"),
    T("gitlab_list_merge_requests", "gitlab_merge_requests_read", "read_only"),
    T("gitlab_get_merge_request", "gitlab_merge_requests_read", "read_only"),
    T("gitlab_list_merge_request_commits", "gitlab_merge_requests_read", "read_only"),
    T("gitlab_list_merge_request_diffs", "gitlab_merge_requests_read", "read_only"),
    T("gitlab_list_merge_request_pipelines", "gitlab_merge_requests_read", "read_only"),
    T("gitlab_create_merge_request", "gitlab_merge_requests_write", "additive_write"),
    T("gitlab_update_merge_request", "gitlab_merge_requests_write", "destructive_write"),
    T("gitlab_add_merge_request_note", "gitlab_merge_requests_write", "additive_write"),
    T("gitlab_reply_merge_request_discussion", "gitlab_merge_requests_write", "additive_write"),
    T("gitlab_resolve_merge_request_discussion", "gitlab_merge_requests_write", "destructive_write"),
    T("gitlab_get_merge_request_approval_state", "gitlab_merge_requests_read", "read_only"),
    T("gitlab_set_merge_request_approval", "gitlab_merge_requests_write", "destructive_write"),
    T("gitlab_accept_merge_request", "gitlab_merge_requests_merge", "destructive_write")}

Registered ==
    JiraIssueTools \cup JiraProjectTools \cup JiraWorkTools
        \cup ConfluencePageTools \cup ConfluenceMediaTools \cup GitlabTools

ToolsOf ==
    [jira |-> {t.name : t \in JiraIssueTools \cup JiraProjectTools \cup JiraWorkTools},
     confluence |-> {t.name : t \in ConfluencePageTools \cup ConfluenceMediaTools},
     gitlab |-> {t.name : t \in GitlabTools}]
RegisteredTools == {t.name : t \in Registered}
Entry(tool) == CHOOSE t \in Registered : t.name = tool
ReadOnly(tool) == Entry(tool).annotation = "read_only"
Destructive(tool) == Entry(tool).annotation = "destructive_write"

-----------------------------------------------------------------------------
(* Profiles, each a set of toolsets.                                       *)

Basic == {
      "jira_issues_read", "jira_issues_write", "jira_fields_read",
      "jira_issue_comments_write", "jira_issue_workflows_read",
      "jira_projects_read", "confluence_content_read",
      "confluence_page_comments_read", "confluence_content_labels_read",
      "gitlab_projects_read", "gitlab_merge_requests_read"}

Developer == Basic \cup {
      "jira_issue_workflows_write", "jira_agile_boards_read",
      "jira_sprints_read", "jira_sprint_membership_write",
      "jira_issue_development_read", "jira_issue_attachments_read",
      "jira_issue_metrics_read", "confluence_page_versions_read",
      "confluence_attachments_read", "gitlab_merge_requests_write",
      "gitlab_merge_requests_merge"}

Manager == Developer \cup {
      "jira_issue_worklogs_read", "jira_issue_worklogs_write",
      "jira_issues_update", "jira_issues_delete", "jira_issues_bulk_write",
      "jira_issues_history_read", "jira_issue_comments_update",
      "jira_projects_metadata_read", "jira_project_versions_write",
      "jira_sprints_write", "jira_issue_links_read", "jira_issue_links_write",
      "jira_issue_links_delete", "jira_users_read",
      "jira_issue_watchers_read", "jira_issue_watchers_write",
      "jira_issue_watchers_delete", "jira_service_desks_read",
      "jira_issue_sla_read", "confluence_content_write",
      "confluence_content_update", "confluence_page_comments_write",
      "confluence_content_labels_write", "confluence_page_analytics_read",
      "confluence_attachments_write"}

AllToolsets == Manager \cup {
      "confluence_content_delete", "confluence_users_read",
      "confluence_attachments_delete"}

\* The tools of some toolsets, with the exact inclusions and exclusions.
EnabledBy(toolsets, enabled, disabled) ==
    {t.name : t \in {r \in Registered : r.toolset \in toolsets \/ r.name \in enabled}} \ disabled

=============================================================================
