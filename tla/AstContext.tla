------------------------------ MODULE AstContext ------------------------------
(***************************************************************************)
(* kenjutsu/diff/ast_context.py: the function or class around each hunk of *)
(* a file.  tree-sitter is external and builds the tree node by node, in   *)
(* preorder; what the code relies on is that a node lies within the rows   *)
(* of its parent and does not begin before its left neighbour ends.  Rows  *)
(* count from 0, lines of hunks and scopes from 1.  Names and texts are    *)
(* the nodes and rows they come from.                                      *)
(***************************************************************************)
EXTENDS Integers, Sequences, FiniteSets, FiniteSetsExt

CONSTANTS MaxRow,   \* bound: last row of the file
          MaxNodes, \* bound: nodes of the tree
          MaxDepth  \* how deep _find_innermost_scope() can always call itself;
                    \* beyond, it depends on the stack its caller has used

AstAssumption == {MaxRow, MaxNodes, MaxDepth} \subseteq Nat \ {0}

VARIABLES tree,     \* the nodes
          outcome,  \* "parsing", "extended", "skipped" or "raised"
          enclosing \* enclosing_scope of each hunk of the file

vars == <<tree, outcome, enclosing>>

NoBody == -1
NoScope == [node |-> 0]
Row == 0 .. MaxRow
Definitions == {"function", "class"}
Hunks == {h \in [start: 0 .. MaxRow + 1, count: 0 .. MaxRow + 1] :
            h.count > 0 => h.start \in 1 .. MaxRow + 2 - h.count}

\* body is the row in which the node's body begins.
Node == [parent: 0 .. MaxNodes, from: Row, to: Row, body: Row \cup {NoBody},
         type: Definitions \cup {"decorated", "other"}]
ScopeContext == [node: 1 .. MaxNodes, kind: Definitions, name: 1 .. MaxNodes,
                 signature: SUBSET Row, start_line: 1 .. MaxRow + 1, end_line: 1 .. MaxRow + 1]

TypeOK ==
    /\ Len(tree) \in 1 .. MaxNodes /\ \A n \in DOMAIN tree : tree[n] \in Node
    /\ outcome \in {"parsing", "extended", "skipped", "raised"}
    /\ DOMAIN enclosing = Hunks
    /\ \A h \in Hunks : enclosing[h] = NoScope \/ enclosing[h] \in ScopeContext

Init ==
    /\ tree = << [parent |-> 0, from |-> 0, to |-> MaxRow, body |-> NoBody, type |-> "other"] >>
    /\ outcome = "parsing"
    /\ enclosing = [h \in Hunks |-> NoScope]

-----------------------------------------------------------------------------
Children(n) == {c \in DOMAIN tree : tree[c].parent = n}
Span(n) == tree[n].to - tree[n].from

\* A node and the nodes above it.
Path(node) ==
    LET path[n \in 0 .. node] == IF n = 0 THEN {} ELSE {n} \cup path[tree[n].parent]
    IN  path[node]

\* Where the next node in preorder may be: below a node of the rightmost path.
Room(parent, from, to) ==
    /\ outcome = "parsing"
    /\ parent \in Path(Len(tree)) /\ tree[parent].type # "decorated"
    /\ tree[parent].from <= from /\ to <= tree[parent].to
    /\ \A c \in Children(parent) : tree[c].to <= from

Made(parent, from, to, body, type) ==
    [parent |-> parent, from |-> from, to |-> to, body |-> body, type |-> type]

\* A definition with its body on the same row, on the next or without one; or a
\* node of another type.
AddNode ==
    /\ Len(tree) < MaxNodes
    /\ \E parent \in DOMAIN tree, from, to \in Row, type \in Definitions \cup {"other"} :
       \E body \in IF type = "other" THEN {NoBody} ELSE {NoBody, from, from + 1} :
         /\ from <= to /\ body <= to
         /\ Room(parent, from, to)
         /\ tree' = Append(tree, Made(parent, from, to, body, type))
    /\ UNCHANGED <<outcome, enclosing>>

\* A decorated_definition: a decorator, and in the next row the definition.
AddDecorated ==
    /\ Len(tree) + 1 < MaxNodes
    /\ \E parent \in DOMAIN tree, from, to \in Row, type \in Definitions :
       \E body \in {from + 1, from + 2} :
         /\ from < to /\ body <= to
         /\ Room(parent, from, to)
         /\ tree' = tree \o << Made(parent, from, to, NoBody, "decorated"),
                               Made(Len(tree) + 1, from + 1, to, body, type) >>
    /\ UNCHANGED <<outcome, enclosing>>

-----------------------------------------------------------------------------
\* Mutated forms of the operators below, for the sensitivity checks.
Outside_LastRow(n, rows) == tree[n].from >= rows.to \/ tree[n].to < rows.from

-----------------------------------------------------------------------------
\* The rows of a hunk; of one without new lines, the row it comes after.
TargetRows(h) ==
    LET first == h.start - 1
    IN  [from |-> first, to |-> Max({first, h.start + Max({h.count - 1, 0}) - 1})]

\* A node that the walk does not enter.
Outside(n, rows) == tree[n].from > rows.to \/ tree[n].to < rows.from

IsScope(n, rows) ==
    tree[n].type # "other" /\ tree[n].from <= rows.from /\ tree[n].to >= rows.to

\* The first of the shortest candidates.
Best(found) ==
    LET shortest == {n \in found : \A m \in found : Span(n) <= Span(m)}
    IN  CHOOSE n \in shortest : \A m \in shortest : n <= m

\* _find_innermost_scope() from the root: 0 if there is none.
Innermost(rows) ==
    LET find[n \in DOMAIN tree] ==
          LET found == {find[c] : c \in Children(n)} \ {0}
          IN  IF Outside(n, rows) THEN 0
              ELSE IF found # {} THEN Best(found)
              ELSE IF IsScope(n, rows) THEN n ELSE 0
    IN  find[1]

\* It calls itself once for every level of nodes it enters, and once more.
TooDeep(rows) ==
    \E n \in DOMAIN tree :
        Cardinality(Path(n)) > MaxDepth /\ \A a \in Path(n) \ {n} : ~Outside(a, rows)

\* _extract_name(): of a decorated definition the name of what it decorates.
NameOf(n) ==
    IF tree[n].type = "decorated"
      THEN CHOOSE c \in Children(n) : tree[c].type \in Definitions ELSE n

\* _KIND_MAP
Kind(n) == IF tree[n].type = "class" THEN "class" ELSE "function"

\* _extract_signature(): the rows before the body's, or the first.
Signature(n) ==
    IF tree[n].body # NoBody THEN tree[n].from .. tree[n].body - 1 ELSE {tree[n].from}

BuildScopeContext(n) ==
    [node |-> n, kind |-> Kind(n), name |-> NameOf(n), signature |-> Signature(n),
     start_line |-> tree[n].from + 1, end_line |-> tree[n].to + 1]

EnclosingScope(h) ==
    LET n == Innermost(TargetRows(h)) IN IF n = 0 THEN NoScope ELSE BuildScopeContext(n)

\* extend_hunks_with_ast() for one file.
Extend ==
    /\ outcome = "parsing"
    /\ outcome' = "extended"
    /\ enclosing' = [h \in Hunks |-> EnclosingScope(h)]
    /\ UNCHANGED tree

\* A RecursionError ends the call, for this hunk, those after it and the files
\* after this one.
Raise ==
    LET deep == {h \in Hunks : TooDeep(TargetRows(h))}
    IN  /\ outcome = "parsing" /\ deep # {}
        /\ outcome' = "raised"
        /\ enclosing' = [h \in Hunks |->
              IF \A d \in deep : h.start < d.start THEN EnclosingScope(h) ELSE NoScope]
        /\ UNCHANGED tree

\* Binary, deleted, without hunks, of no known language or grammar, without
\* content, or not to be parsed.
Skip ==
    /\ outcome = "parsing" /\ Len(tree) = 1
    /\ outcome' = "skipped"
    /\ UNCHANGED <<tree, enclosing>>

Next == AddNode \/ AddDecorated \/ Extend \/ Raise \/ Skip

Spec == Init /\ [][Next]_vars

-----------------------------------------------------------------------------
\* The new lines of a hunk or, if it has none, the line it comes after.
Lines(h) == h.start .. h.start + Max({h.count, 1}) - 1

\* The definitions around a hunk.
Around(h) ==
    {n \in DOMAIN tree :
        tree[n].type # "other" /\ Lines(h) \subseteq tree[n].from + 1 .. tree[n].to + 1}

\* The scope of a hunk is a definition around it, the shortest, with none
\* around it inside, whose 1-based lines contain the hunk's, under the name of a
\* definition; and unless the call was skipped or cut short, there is none only
\* where nothing is around the hunk.
ScopeTrue ==
    \A h \in Hunks :
        LET scope == enclosing[h]
        IN  /\ outcome = "extended" => (scope = NoScope <=> Around(h) = {})
            /\ scope # NoScope =>
                 /\ scope.node \in Around(h) /\ Lines(h) \subseteq scope.start_line .. scope.end_line
                 /\ \A n \in Around(h) :
                      /\ Span(scope.node) <= Span(n)
                      /\ scope.node \in Path(n) => n = scope.node
                 /\ tree[scope.name].type \in Definitions
                 /\ scope.name \in {scope.node} \cup Children(scope.node)

\* ast_context.py:217, "The signature is everything from the node's first line up
\* to (but not including) the body block": it has the first line at least.
SignatureHasFirstLine ==
    \A h \in Hunks :
        enclosing[h] # NoScope => tree[enclosing[h].node].from \in enclosing[h].signature
==============================================================================
