-------------------------------- MODULE Readers --------------------------------
(***************************************************************************)
(* Four parts of kenjutsu that work on what they are given, side by side,  *)
(* each with its own constants and variables: the diff parser, the         *)
(* structural context, the evaluation runner and the slash commands.       *)
(***************************************************************************)
EXTENDS Integers

CONSTANTS MaxFiles, MaxLines, MaxCount, MaxGap, MaxCutLines, \* DiffParser
          MaxRow, MaxNodes, MaxDepth,                \* AstContext
          Corpora, Findings, MaxFindings, Tolerance, \* Evaluation
          MaxCommentLines, MaxWords                  \* SlashCommands

VARIABLES files, cursor, git, changes, written, cut,
          tree, extension, enclosing,
          corpus, stage, results, metrics, verdict,
          comment, parsed

Parser == INSTANCE DiffParser
Scopes == INSTANCE AstContext WITH outcome <- extension
Eval == INSTANCE Evaluation
Commands == INSTANCE SlashCommands WITH MaxLines <- MaxCommentLines

-----------------------------------------------------------------------------
\* The properties of the parts, under names of their own.

\* Parsed lines carry their true numbers, hunks their true ranges, files their
\* true kinds, and leaving out deletions loses no added line.
DiffTrue == Parser!DiffTrue

\* The scope of a hunk is the shortest, innermost definition around it.
ScopeTrue == Scopes!ScopeTrue

\* The true positives of a review are those of a pairing with the annotations.
MatchingTrue == Eval!MatchingTrue

\* A verdict compares the variants on the whole corpus.
ComparesLikeWithLike == Eval!ComparesLikeWithLike
================================================================================
