---------------------------- MODULE MCMcpOAuth ----------------------------
(***************************************************************************)
(* McpOAuth with the symmetry of its identifiers: no request, callback,    *)
(* state or URL is told from another by more than what happened to it.     *)
(***************************************************************************)
EXTENDS McpOAuth, TLC

Symmetry ==
    Permutations(Requests) \cup Permutations(Callbacks) \cup Permutations(States)
        \cup Permutations(Urls)
=============================================================================
