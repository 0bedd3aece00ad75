---------------------------- MODULE MCStudioDesk ----------------------------
(***************************************************************************)
(* The studio for TLC: a behaviour is that of jobs beside the frames       *)
(* (Studio), or of the desk around them, whose user either looks at meshes *)
(* or packs and uses the results.  The desk has bounds of its own.         *)
(***************************************************************************)
EXTENDS MCStudio

CONSTANTS
  DeskKeys,     \* the collision meshes of the robot on the desk
  DeskOptions,  \* the mesh preparations
  DeskLoads, DeskPacks, DeskVersion

\* The jobs there can be on the desk.
DeskJobs ==
  LET keys == {ObjectKey} \cup Range(DeskKeys) IN
  [mode : {"object", "robot"}, items : Seq(keys), finished : Seq([key : keys, pack : Nat]),
   working : BOOLEAN, running : BOOLEAN, news : BOOLEAN]

ASSUME DeskAssumption ==
  /\ DeskKeys \in Seq(Range(DeskKeys)) /\ IsInjective(DeskKeys)
  /\ ObjectKey \notin Range(DeskKeys) /\ NoKey \notin Range(DeskKeys)
  /\ NotPolled \notin DeskJobs

VARIABLES topic, studio, screen, deskFrame, loads, packs

deskVars == <<studio, screen, deskFrame, loads, packs>>

Desk == INSTANCE StudioDesk WITH
  frame <- deskFrame, RobotKeys <- DeskKeys, None <- NotPolled, PrepOptions <- DeskOptions,
  MaxLoads <- DeskLoads, MaxPacks <- DeskPacks, MaxVersion <- DeskVersion

StudioInit ==
  /\ topic \in {"jobs", "look", "work"}
  /\ Init /\ Desk!Init
  /\ topic # "jobs" => loading = "no" /\ ~packNext
  /\ topic = "jobs" => studio = Desk!Default
  /\ topic = "look" => ~studio.packNext

StudioNext ==
  \/ topic = "jobs" /\ Next /\ UNCHANGED <<topic, deskVars>>
  \/ /\ topic # "jobs" /\ UNCHANGED <<topic, vars>>
     /\ \/ Desk!Frames
        \/ Desk!Tasks
        \/ topic = "look" /\ Desk!LookClicks
        \/ topic = "work" /\ Desk!WorkClicks

StudioSpec == StudioInit /\ [][StudioNext]_<<topic, vars, deskVars>>

ScreenIsCurrent  == Desk!ScreenIsCurrent
OffersAreCurrent == Desk!OffersAreCurrent
=============================================================================
