--------------------------- MODULE MCJobDispatch ---------------------------
(* Small instances of JobDispatch for TLC. *)
EXTENDS JobDispatch, TLC

\* One title: every refresh is about it.
RefreshToMetadata == [j \in RefreshJob |-> CHOOSE m \in MetadataJob : TRUE]

\* Handlers are interchangeable.
HandlerSymmetry == Permutations(Handler)
=============================================================================
