----------------------------- MODULE PartsProofs -----------------------------
(***************************************************************************)
(* The parts that share no state, side by side: each is what it is alone,  *)
(* so what is proved of it alone holds of it beside the others.            *)
(***************************************************************************)
EXTENDS MCParts, ServiceProofs, ParserProofs

-----------------------------------------------------------------------------
\* Every part starts as it does alone.
LEMMA PartsStart ==
    PartsInit => /\ Init /\ Workflow!Init
                 /\ Cost!Init
                 /\ Registry!Init
                 /\ Records!Init
                 /\ Pending!Init
                 /\ Queue!Init
                 /\ Parser!Init
                 /\ Scopes!Init
                 /\ Eval!Init
                 /\ Commands!Init
BY DEF PartsInit

\* A step of the parts is, of each of them, a step of its own or none.
LEMMA PartsMove ==
    [PartsNext]_partsVars => /\ [Next]_vars /\ [Workflow!Next]_(Workflow!vars)
                             /\ [Cost!Next]_(Cost!vars)
                             /\ [Registry!Next]_(Registry!vars)
                             /\ [Records!Next]_(Records!vars)
                             /\ [Pending!Next]_(Pending!vars)
                             /\ [Queue!Next]_(Queue!vars)
                             /\ [Parser!Next]_(Parser!vars)
                             /\ [Scopes!Next]_(Scopes!vars)
                             /\ [Eval!Next]_(Eval!vars)
                             /\ [Commands!Next]_(Commands!vars)
<1> SUFFICES ASSUME [PartsNext]_partsVars
             PROVE  /\ [Next]_vars /\ [Workflow!Next]_(Workflow!vars)
                    /\ [Cost!Next]_(Cost!vars)
                    /\ [Registry!Next]_(Registry!vars)
                    /\ [Records!Next]_(Records!vars)
                    /\ [Pending!Next]_(Pending!vars)
                    /\ [Queue!Next]_(Queue!vars)
                    /\ [Parser!Next]_(Parser!vars)
                    /\ [Scopes!Next]_(Scopes!vars)
                    /\ [Eval!Next]_(Eval!vars)
                    /\ [Commands!Next]_(Commands!vars)
  OBVIOUS
<1>1. UNCHANGED limiterVars \/ Next
  BY DEF PartsNext, partsVars, Step
<1>2. UNCHANGED costVars \/ Cost!Next
  BY DEF PartsNext, partsVars, Step
<1>3. UNCHANGED registryVars \/ Registry!Next
  BY DEF PartsNext, partsVars, Step
<1>4. UNCHANGED recordVars \/ Records!Next
  BY DEF PartsNext, partsVars, Step
<1>5. UNCHANGED pendingVars \/ Pending!Next
  BY DEF PartsNext, partsVars, Step
<1>6. UNCHANGED queueVars \/ Queue!Next
  BY DEF PartsNext, partsVars, Step
<1>7. UNCHANGED parserVars \/ Parser!Next
  BY DEF PartsNext, partsVars, Step
<1>8. UNCHANGED scopeVars \/ Scopes!Next
  BY DEF PartsNext, partsVars, Step
<1>9. UNCHANGED evalVars \/ Eval!Next
  BY DEF PartsNext, partsVars, Step
<1>10. UNCHANGED commandVars \/ Commands!Next
  BY DEF PartsNext, partsVars, Step
<1>11. UNCHANGED workflowVars \/ Workflow!Next
  BY DEF PartsNext, partsVars, Step
<1>12. [Next]_vars
  BY <1>1 DEF limiterVars
<1>13. [Cost!Next]_(Cost!vars)
  BY <1>2 DEF costVars, Cost!vars
<1>14. [Registry!Next]_(Registry!vars)
  BY <1>3 DEF registryVars, Registry!vars
<1>15. [Records!Next]_(Records!vars)
  BY <1>4 DEF recordVars, Records!vars
<1>16. [Pending!Next]_(Pending!vars)
  BY <1>5 DEF pendingVars, Pending!vars
<1>17. [Queue!Next]_(Queue!vars)
  BY <1>6 DEF queueVars, Queue!vars
<1>18. [Parser!Next]_(Parser!vars)
  BY <1>7 DEF parserVars, Parser!vars
<1>19. [Scopes!Next]_(Scopes!vars)
  BY <1>8 DEF scopeVars, Scopes!vars
<1>20. [Eval!Next]_(Eval!vars)
  BY <1>9 DEF evalVars, Eval!vars
<1>21. [Commands!Next]_(Commands!vars)
  BY <1>10 DEF commandVars, Commands!vars
<1>22. [Workflow!Next]_(Workflow!vars)
  BY <1>11 DEF workflowVars, Workflow!vars, Workflow!bounds
<1> QED
  BY <1>12, <1>13, <1>14, <1>15, <1>16, <1>17, <1>18, <1>19, <1>20, <1>21, <1>22

\* Beside the others, each part does what its own specification says.
LEMMA EachPartIsItself ==
    PartsSpec => /\ Spec /\ Workflow!Init /\ [][Workflow!Next]_(Workflow!vars)
                 /\ Cost!Spec
                 /\ Registry!Spec
                 /\ Records!Spec
                 /\ Pending!Spec
                 /\ Queue!Spec
                 /\ Parser!Spec
                 /\ Scopes!Spec
                 /\ Eval!Spec
                 /\ Commands!Spec
BY PartsStart, PartsMove, PTL
   DEF PartsSpec, Spec, Cost!Spec, Registry!Spec, Records!Spec, Pending!Spec, Queue!Spec,
       Parser!Spec, Scopes!Spec, Eval!Spec, Commands!Spec

\* Beside the others, too, the variables of each part have their types.
THEOREM PartsTypesAreCorrect == PartsSpec => []PartsTypeOK
<1>1. PartsSpec => []TypeOK
  BY EachPartIsItself, LimiterTypeCorrect, PTL
<1>2. PartsSpec => []Cost!TypeOK
  BY PartsAssumption, EachPartIsItself, CostTypeCorrect, PTL
<1>3. PartsSpec => []Registry!TypeOK
  BY PartsAssumption, EachPartIsItself, RegistryTypeCorrect, PTL
<1>4. PartsSpec => []Records!TypeOK
  BY PartsAssumption, EachPartIsItself, RecordsTypeCorrect, PTL
<1>5. PartsSpec => []Pending!TypeOK
  BY PartsAssumption, EachPartIsItself, PendingTypeCorrect, PTL
<1>6. PartsSpec => []Queue!TypeOK
  BY PartsAssumption, EachPartIsItself, QueueTypeCorrect, PTL
<1>7. PartsSpec => []Parser!TypeOK
  BY PartsAssumption, EachPartIsItself, ParserTypeCorrect, PTL
<1>8. PartsSpec => []Scopes!TypeOK
  BY PartsAssumption, EachPartIsItself, ScopesTypeCorrect, PTL
<1>9. PartsSpec => []Eval!TypeOK
  BY PartsAssumption, EachPartIsItself, EvalTypeCorrect, PTL
<1>10. PartsSpec => []Commands!TypeOK
  BY PartsAssumption, EachPartIsItself, CommandsTypeCorrect, PTL
<1>11. PartsSpec => []Workflow!TypeOK
  <2>1. WorkflowInv => Workflow!TypeOK
    BY DEF WorkflowInv
  <2> QED
    BY <2>1, PartsAssumption, EachPartIsItself, WorkflowAlways, PTL
<1> DEFINE Named == part \in {"limiter", "registry", "queue", "cost", "records", "parser", "pending",
                     "scopes", "eval", "commands", "workflow"}
<1>12. PartsSpec => []Named
  <2>1. PartsInit => Named
    BY DEF PartsInit
  <2>2. Named /\ [PartsNext]_partsVars => Named'
    BY DEF PartsNext, partsVars, Step
  <2> QED
    BY <2>1, <2>2, PTL DEF PartsSpec
<1>13. Named /\ TypeOK /\ Workflow!TypeOK
      /\ Cost!TypeOK
      /\ Registry!TypeOK
      /\ Records!TypeOK
      /\ Pending!TypeOK
      /\ Queue!TypeOK
      /\ Parser!TypeOK
      /\ Scopes!TypeOK
      /\ Eval!TypeOK
      /\ Commands!TypeOK
      => PartsTypeOK
  BY DEF PartsTypeOK
<1> QED
  BY <1>1, <1>2, <1>3, <1>4, <1>5, <1>6, <1>7, <1>8, <1>9, <1>10, <1>11, <1>12, <1>13, PTL

\* Beside the others, too, every part keeps what is promised of it: the limiter its
\* budget, the registry and the queues their bookkeeping, the tracker its cap, the
\* records one review a pull request, the publisher its batches, the parser and the
\* structural context the diff, the runner its counts, the workflow its record.
THEOREM PartsAreSafe ==
    PartsSpec => /\ [](WindowBound /\ DenialsJustified)
                 /\ []SupersessionSound /\ []SlotsSound /\ []OvershootBounded
                 /\ [](AtMostOneSettled /\ CommitReviewedOnce /\ OneIsLeft)
                 /\ []PublishSound
                 /\ []DiffTrue /\ []ScopeTrue
                 /\ [](MatchingTrue /\ ComparesLikeWithLike)
                 /\ [](RecordTracksPosition /\ ResultAgrees /\ PostedAfterRecheck)
<1>1. PartsSpec => [](WindowBound /\ DenialsJustified)
  BY EachPartIsItself, NeverOverBudget, NeverRefusesEarly, PTL
<1>2. PartsSpec => []SupersessionSound /\ []SlotsSound /\ []OvershootBounded
  BY PartsAssumption, EachPartIsItself, SupersessionIsSound, SlotsAreSound, OvershootIsBounded, PTL
<1>3. PartsSpec => [](AtMostOneSettled /\ CommitReviewedOnce /\ OneIsLeft)
  BY PartsAssumption, EachPartIsItself, AtMostOneCanonical, CommitsAreReviewedOnce, AReviewIsLeft,
     PTL
<1>4. PartsSpec => []PublishSound
  BY PartsAssumption, EachPartIsItself, PublishIsSound, PTL
<1>5. PartsSpec => []DiffTrue /\ []ScopeTrue
  BY PartsAssumption, EachPartIsItself, ParserIsTrue, ScopesAreTrue, PTL
<1>6. PartsSpec => [](MatchingTrue /\ ComparesLikeWithLike)
  BY PartsAssumption, EachPartIsItself, MatchingIsTrue, VerdictComparesLikeWithLike, PTL
<1>7. PartsSpec => [](RecordTracksPosition /\ ResultAgrees /\ PostedAfterRecheck)
  <2>1. WorkflowInv => RecordTracksPosition
    BY DEF WorkflowInv, RecordFollows, RecordTracksPosition
  <2>2. WorkflowInv => ResultAgrees
    BY InvAgrees DEF ResultAgrees
  <2>3. WorkflowInv => PostedAfterRecheck
    BY DEF WorkflowInv, PostsFollow, HeadFollows, Workflow!PostedAfterRecheck, PostedAfterRecheck
  <2> QED
    BY <2>1, <2>2, <2>3, PartsAssumption, EachPartIsItself, WorkflowAlways, PTL
<1> QED
  BY <1>1, <1>2, <1>3, <1>4, <1>5, <1>6, <1>7, PTL
==============================================================================
