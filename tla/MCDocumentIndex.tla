--------------------------- MODULE MCDocumentIndex ---------------------------
(***************************************************************************)
(* Instances of DocumentIndex for TLC: two files, two texts that share     *)
(* their first chunk, and a concept that two of the three chunks mention.  *)
(***************************************************************************)
EXTENDS DocumentIndex, TLC

CONSTANTS readme, guide, hp, cli, api

MCFiles == <<guide, readme>>

MCChunksOf == ("old" :> <<"intro", "rules">>) @@ ("new" :> <<"intro", "spells">>)

MCMentions == ("intro" :> {hp}) @@ ("rules" :> {}) @@ ("spells" :> {hp})

MCRelPath == (guide :> "docs/guide.md") @@ (readme :> "readme.md")

MCAbsPath == (guide :> "/game/docs/guide.md") @@ (readme :> "/game/readme.md")

\* The API passes absolute paths, the command line what the user typed, in the
\* root or in docs/.
MCSpellings ==
    (guide :> {"/game/docs/guide.md", "guide.md"}) @@ (readme :> {"readme.md"})
=============================================================================
