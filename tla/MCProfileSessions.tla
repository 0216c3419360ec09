-------------------------- MODULE MCProfileSessions --------------------------
(***************************************************************************)
(* Instances of ProfileSessions for TLC: the values a .cfg cannot write.   *)
(***************************************************************************)
EXTENDS ProfileSessions, TLC

CONSTANTS s1, s2, s3, s4, prof

OneProfile == [s \in Sessions |-> prof]

\* s1 tries the pipeline and then browserserve, s2 is a REST request, s3
\* reconnects and then makes an attempt through the pipeline.
MixedPaths == [s \in Sessions |->
  CASE s = s1 -> <<"plugin", "handoff">>
    [] s = s2 -> <<"rest">>
    [] s = s3 -> <<"inject", "plugin">>
    [] OTHER  -> <<"plugin">>]

=============================================================================
