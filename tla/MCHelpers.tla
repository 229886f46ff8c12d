----------------------------- MODULE MCHelpers -----------------------------
(* Three pids: both helpers and an emergency command, or a helper that was *)
(* forgotten, the one started in its place and another child.              *)
EXTENDS Helpers

CONSTANTS p1, p2, p3

MCPids == {p1, p2, p3}
Everything == [features |-> Helpers, emergency |-> TRUE]
HelpersOnly == [features |-> Helpers, emergency |-> FALSE]
ReporterOnly == [features |-> {"xevrep"}, emergency |-> FALSE]
BlockerOnly == [features |-> {"x11lock"}, emergency |-> FALSE]

AllBuilds == {Everything, ReporterOnly, BlockerOnly}
HelperBuild == {HelpersOnly}
=============================================================================
