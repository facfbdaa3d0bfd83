---------------------------- MODULE MCWorkspace ----------------------------
(* A small web application: two people, two workspace ids, one Instagram     *)
(* account, two requests at once.                                            *)
EXTENDS Workspace

\* One person who makes, connects, disconnects and deletes, with two requests at
\* a time and every fault; one with one request at a time who also browses and
\* resets the password; two people who make workspaces at once.
MCScenarios ==
  {{"create", "delete", "start", "disconnect", "crash", "dbFails"},
   {"alone", "create", "delete", "export", "browse", "recover", "crash"},
   {"second", "create"}}

=============================================================================
