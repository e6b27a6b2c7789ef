------------------------- MODULE MCReleaseRequests -------------------------
(***************************************************************************)
(* Symmetry, settings and view for the run of ReleaseRequests.             *)
(***************************************************************************)
EXTENDS ReleaseRequests, TLC

Symmetry == Permutations(Users) \cup Permutations(Values)

\* Nothing reads the snapshot of a version, or the graph of a target.
View ==
    <<mode, graph, variables, requests, handler,
      [d \in DOMAIN deployments |->
          <<deployments[d].request, deployments[d].config, deployments[d].values>>],
      [t \in DOMAIN targets |-> targets[t].request]>>

AllModes == [approval: BOOLEAN, gitOps: BOOLEAN, reliable: BOOLEAN]
=============================================================================
