------------------------------- MODULE Router --------------------------------
(***************************************************************************)
(* The deterministic router (forged/pipeline/router.py): a category and    *)
(* the attempts made so far give the stage to redo, or the end of the run. *)
(***************************************************************************)
EXTENDS Naturals

CONSTANT Budget   \* routing budget of each stage a category can name

\* The stages of _CATEGORY_TO_STAGE.  The budgets of the student and of the
\* reviser are never read: no category names those stages.
Target == {"planner", "code_author", "content_reviser"}

ASSUME BudgetAssumption == Budget \in [Target -> Nat]

RepairCategory == {"BLOCKER_STRUCTURE", "CODE_QUALITY", "TEST_FAILURE", "CONTENT_QUALITY"}

CategoryToStage ==
  [category \in RepairCategory |->
     CASE category = "BLOCKER_STRUCTURE" -> "planner"
       [] category = "CONTENT_QUALITY" -> "content_reviser"
       [] OTHER -> "code_author"]

\* Mutation: one revision more than the budget.
ShouldTerminateLate(category, attempts) ==
  category \in RepairCategory =>
    attempts[CategoryToStage[category]] > Budget[CategoryToStage[category]]

\* ACCEPTABLE and UNCLASSIFIABLE end the run, and so does a stage whose budget
\* is spent; everything else is one more pass through the stage to redo.
ShouldTerminate(category, attempts) ==
  category \in RepairCategory =>
    attempts[CategoryToStage[category]] >= Budget[CategoryToStage[category]]

=============================================================================
