------------------------------- MODULE MCParts -------------------------------
(***************************************************************************)
(* The parts of kenjutsu that share no state: the rate limiter, the        *)
(* supersession registry, the concurrency queues, the cost tracker, the    *)
(* review records, the diff parser, the pending review publisher, the      *)
(* structural context, the evaluation runner, the slash commands and the   *)
(* review workflow.  Because they share none, exploring them one at a      *)
(* time, as `part` says, shows all that their product would.               *)
(***************************************************************************)
EXTENDS RateLimiter, Parts, Readers, FiniteSets

VARIABLES part

limiterVars == vars
registryVars == <<events, superseded, signalled, phase, latest, strays>>
queueVars == <<value, waiters, future, where>>
costVars == <<cost, cap, spent, doing, base>>
recordVars == <<status, by, caller, found, overlapped>>
parserVars == <<files, cursor, git, changes, written, cut>>
pendingVars == <<remaining, quota, todo, reviews, shown, lost>>
scopeVars == <<tree, extension, enclosing>>
evalVars == <<corpus, stage, results, metrics, verdict>>
commandVars == <<comment, parsed>>
workflowVars ==
    <<state, next, executed, outcome, record, result, posted, head, crashes, scored, current>>
partsVars ==
    <<part, limiterVars, registryVars, queueVars, costVars, recordVars, parserVars,
      pendingVars, scopeVars, evalVars, commandVars, workflowVars>>

\* Registry: four reviews of one pull request and one of another.
MCKeyOf == [r \in Contenders |-> IF r = "s1" THEN "pr2" ELSE "pr1"]

\* Queues: four jobs of a tenant with two slots, one job of a tenant with one.
MCPoolOf == [j \in Jobs |-> IF j = "k1" THEN "b" ELSE "a"]
MCLimit == [a |-> 2, b |-> 1]

\* Cost: two reviews, a cap of 0 and two others, charges of one and two.
MCNoCap == -1

\* Records: two callers for one commit of a pull request, one for a later commit.
MCCommitOf == [r1 |-> "c1", r2 |-> "c1", r3 |-> "c2"]
MCPullOf == [c1 |-> "pr1", c2 |-> "pr1"]

\* Pending reviews: two batches, a floor of two of three calls, one lost answer each.
MCContents == [b1 |-> {"critical", "minor"}, b2 |-> {"critical", "unpublishable"}]

\* An empty benchmark, one of one pull request and one of two; of the findings one
\* fits both annotations of the first, and one is of another category.
At(file, category, first, last, origin) ==
    [file_path |-> file, category |-> category, line_start |-> first, line_end |-> last,
     origin |-> origin]
FirstPR == <<At("a", "bug", 1, 2, ""), At("a", "bug", 12, 13, "")>>
SecondPR == <<At("b", "bug", 3, 4, ""), At("b", "bug", 3, 4, "")>>
MCCorpora == {<<>>, <<FirstPR>>, <<FirstPR, SecondPR>>}
MCFindings == {At("a", "bug", 1, 1, "diff"), At("a", "bug", 7, 7, "graph"),
               At("a", "security", 1, 1, "graph"), At("b", "bug", 3, 3, "graph")}

ASSUME PartsAssumption ==
    /\ Registry!RegistryAssumption /\ Queue!QueueAssumption
    /\ Cost!CostAssumption /\ Records!RecordsAssumption
    /\ Parser!ParserAssumption /\ Pending!PendingAssumption
    /\ Scopes!AstAssumption /\ Eval!EvaluationAssumption /\ Commands!CommandsAssumption
    /\ Workflow!WorkflowAssumption

PartsInit ==
    /\ part \in {"limiter", "registry", "queue", "cost", "records", "parser", "pending",
                 "scopes", "eval", "commands", "workflow"}
    /\ Init /\ Registry!Init /\ Queue!Init /\ Cost!Init /\ Records!Init /\ Parser!Init
    /\ Pending!Init /\ Scopes!Init /\ Eval!Init /\ Commands!Init /\ Workflow!Init
    /\ part # "eval" => corpus = <<>>

\* One part takes a step of its own, the others none.
Step(p, action) ==
    /\ part = p /\ UNCHANGED part
    /\ p # "limiter" => UNCHANGED limiterVars
    /\ p # "registry" => UNCHANGED registryVars
    /\ p # "queue" => UNCHANGED queueVars
    /\ p # "cost" => UNCHANGED costVars
    /\ p # "records" => UNCHANGED recordVars
    /\ p # "parser" => UNCHANGED parserVars
    /\ p # "pending" => UNCHANGED pendingVars
    /\ p # "scopes" => UNCHANGED scopeVars
    /\ p # "eval" => UNCHANGED evalVars
    /\ p # "commands" => UNCHANGED commandVars
    /\ p # "workflow" => UNCHANGED workflowVars
    /\ action

PartsNext ==
    \/ Step("limiter", Next)
    \/ Step("registry", Registry!Next)
    \/ Step("queue", Queue!Next)
    \/ Step("cost", Cost!Next)
    \/ Step("records", Records!Next)
    \/ Step("parser", Parser!Next)
    \/ Step("pending", Pending!Next)
    \/ Step("scopes", Scopes!Next)
    \/ Step("eval", Eval!Next)
    \/ Step("commands", Commands!Next)
    \/ Step("workflow", Workflow!Next)

\* The fairness of the workflow's own specification.
PartsFairness ==
    /\ WF_partsVars(Step("workflow", Workflow!Execute))
    /\ WF_partsVars(Step("workflow", Workflow!Checkpoint))
    /\ WF_partsVars(Step("workflow", Workflow!Recover))

PartsSpec == PartsInit /\ [][PartsNext]_partsVars /\ PartsFairness

-----------------------------------------------------------------------------
\* The names under which the run checks the properties of the instances.

\* Every variable of the part that moves has its type; the others are as Init left
\* them.
PartsTypeOK ==
    CASE part = "limiter" -> TypeOK
      [] part = "registry" -> Registry!TypeOK
      [] part = "queue" -> Queue!TypeOK
      [] part = "cost" -> Cost!TypeOK
      [] part = "records" -> Records!TypeOK
      [] part = "parser" -> Parser!TypeOK
      [] part = "pending" -> Pending!TypeOK
      [] part = "scopes" -> Scopes!TypeOK
      [] part = "eval" -> Eval!TypeOK
      [] part = "commands" -> Commands!TypeOK
      [] part = "workflow" -> Workflow!TypeOK

\* A workflow that is run ends, with a result or an exception.
Terminates == part = "workflow" => Workflow!Terminates
==============================================================================
