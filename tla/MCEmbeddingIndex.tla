--------------------------- MODULE MCEmbeddingIndex ---------------------------
(***************************************************************************)
(* Instances of EmbeddingIndex for TLC: two concepts, and two providers    *)
(* whose vectors differ in dimension.                                      *)
(***************************************************************************)
EXTENDS EmbeddingIndex, TLC

CONSTANTS old, new, mock, voyage, api, cli

Both == (mock :> 12) @@ (voyage :> 1024)

BothModels == (mock :> "mock-embedding-v1") @@ (voyage :> "voyage-4-large")

OnlyMock == mock :> 12

OnlyMockModel == mock :> "mock-embedding-v1"
=============================================================================
