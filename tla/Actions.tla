------------------------------ MODULE Actions ------------------------------
(* Creating runs, alone or as a portfolio, and the actions of their phases:  *)
(* registered with the run, one by one, or by loading an agency spec stage   *)
(* by stage.  Each write of a command is one step.                           *)
(*   runs         <-> the runs table: parent, whether its id was recorded    *)
(*                    for replay, and the actions --actions asked for        *)
(*   phaseActions <-> phase_actions by UNIQUE(run_id, phase, command), with  *)
(*                    the settings (args, mode, priority) of the row         *)
(*   agencyState  <-> state entries agency.models/gates/capabilities.<...>,  *)
(*                    of which the models of a stage stand for all           *)
(*   shown        <-> what each process's last command printed               *)
EXTENDS Integers, Sequences, Functions

CONSTANTS
    Commanders,    \* processes that run a command
    AgencyStages,  \* the stages "all" loads, in order; each has a phase of its name
    Commands,      \* commands an action may run
    SettingsOf,    \* settings an action, or a version of a spec, may have
    MaxCreated,    \* bound: rows of runs
    MaxCommands    \* bound: commands run

ASSUME ActionsAssumption ==
    /\ AgencyStages \in Seq(STRING) /\ AgencyStages # <<>>
    /\ MaxCreated \in Nat /\ MaxCommands \in Nat

VARIABLES runs, phaseActions, agencyState, commanding, shown,
    commandsRun,
    dropped  \* the actions deleted so far

actionVars == <<runs, phaseActions, agencyState, commanding, shown,
                commandsRun, dropped>>

Phases == Range(AgencyStages)
NoCommand == [pc |-> "idle", run |-> 0, todo |-> <<>>, settings |-> 0]
NoReport == [of |-> "nothing", run |-> 0]

ActionsInit ==
    /\ runs = <<>>
    /\ phaseActions = <<>>
    /\ agencyState = <<>>
    /\ commanding = [p \in Commanders |-> NoCommand]
    /\ shown = [p \in Commanders |-> NoReport]
    /\ commandsRun = 0
    /\ dropped = {}

Report(p, what, r) ==
    /\ shown' = [shown EXCEPT ![p] = [of |-> what, run |-> r]]
    /\ commanding' = [commanding EXCEPT ![p] = NoCommand]

\* A command begins.
Begins(p) ==
    /\ commanding[p].pc = "idle"
    /\ commandsRun < MaxCommands
    /\ commandsRun' = commandsRun + 1

RunRow(parent, asked) == [parent |-> parent, replay |-> FALSE, asked |-> asked]
Put(f, keys, v) == [x \in DOMAIN f \cup keys |-> IF x \in keys THEN v ELSE f[x]]

-----------------------------------------------------------------------------
(* ic run create                                                              *)

\* Flags, phases, gates and the JSON of --actions are checked before any row.
CreateInvalid(p) ==
    /\ Begins(p)
    /\ Report(p, "invalid", 0)
    /\ UNCHANGED <<runs, phaseActions, agencyState, dropped>>

\* A run of one project: its row is committed on its own.
Create(p) ==
    /\ Begins(p) /\ Len(runs) < MaxCreated
    /\ \E asked \in SUBSET (Phases \X Commands) :
         /\ \A a, b \in asked : a[1] = b[1] => a = b  \* --actions maps a phase to one action
         /\ runs' = Append(runs, RunRow(0, asked))
    /\ commanding' = [commanding EXCEPT ![p].pc = "created", ![p].run = Len(runs) + 1]
    /\ shown' = [shown EXCEPT ![p] = NoReport]
    /\ UNCHANGED <<phaseActions, agencyState, dropped>>

\* The end of Create: its id is kept for replay, in a second statement.
RecordRunID(p) ==
    LET r == commanding[p].run
    IN  /\ commanding[p].pc = "created"
        /\ runs' = [runs EXCEPT ![r].replay = TRUE]
        /\ IF runs[r].asked = {} THEN Report(p, "created", r)
           ELSE /\ commanding' = [commanding EXCEPT ![p].pc = "batch"]
                /\ UNCHANGED shown
        /\ UNCHANGED <<phaseActions, agencyState, dropped, commandsRun>>

\* The actions that came with the run, in one transaction; one that another
\* command registered meanwhile makes all of them fail.
AddBatch(p) ==
    LET r == commanding[p].run
        keys == {<<r, a[1], a[2]>> : a \in runs[r].asked}
    IN  /\ commanding[p].pc = "batch"
        /\ IF keys \cap DOMAIN phaseActions # {}
           THEN /\ Report(p, "failed", r) /\ UNCHANGED phaseActions
           ELSE /\ Report(p, "created", r)
                /\ \E s \in SettingsOf :
                     phaseActions' = Put(phaseActions, keys, s)
        /\ UNCHANGED <<runs, agencyState, dropped, commandsRun>>

\* A portfolio and a child for each project, in one transaction; --actions is
\* not looked at.
CreatePortfolio(p) ==
    LET parent == Len(runs) + 1
    IN  /\ Begins(p) /\ Len(runs) + 3 <= MaxCreated
        /\ runs' = runs \o <<RunRow(0, {}), RunRow(parent, {}), RunRow(parent, {})>>
        /\ Report(p, "portfolio", parent)
        /\ UNCHANGED <<phaseActions, agencyState, dropped>>

-----------------------------------------------------------------------------
(* ic run action                                                              *)

AddAction(p) ==
    /\ Begins(p)
    /\ \E k \in (DOMAIN runs) \X Phases \X Commands, s \in SettingsOf :
         /\ k \notin DOMAIN phaseActions
         /\ phaseActions' = Put(phaseActions, {k}, s)
         /\ Report(p, "added", k[1])
    /\ UNCHANGED <<runs, agencyState, dropped>>

UpdateAction(p) ==
    /\ Begins(p)
    /\ \E k \in DOMAIN phaseActions, s \in SettingsOf :
         /\ phaseActions' = Put(phaseActions, {k}, s)
         /\ Report(p, "updated", k[1])
    /\ UNCHANGED <<runs, agencyState, dropped>>

DeleteAction(p) ==
    /\ Begins(p)
    /\ \E k \in DOMAIN phaseActions :
         /\ phaseActions' = Restrict(phaseActions, DOMAIN phaseActions \ {k})
         /\ dropped' = dropped \cup {k}
         /\ Report(p, "deleted", k[1])
    /\ UNCHANGED <<runs, agencyState>>

-----------------------------------------------------------------------------
(* ic agency load all                                                         *)

AgencyLoad(p) ==
    /\ Begins(p)
    /\ \E r \in DOMAIN runs :
         commanding' = [commanding EXCEPT ![p] =
                          [NoCommand EXCEPT !.pc = "stage", !.run = r, !.todo = AgencyStages]]
    /\ shown' = [shown EXCEPT ![p] = NoReport]
    /\ UNCHANGED <<runs, phaseActions, agencyState, dropped>>

\* The spec of the next stage is read and validated only when its turn comes.
ReadSpec(p) ==
    /\ commanding[p].pc = "stage"
    /\ \/ \E s \in SettingsOf :
            /\ commanding' = [commanding EXCEPT ![p].pc = "agents", ![p].settings = s]
            /\ UNCHANGED shown
       \/ Report(p, "failed", commanding[p].run)
    /\ UNCHANGED <<runs, phaseActions, agencyState, dropped, commandsRun>>

\* An agent that is there already is overwritten.
RegisterAgent_Overwrites(p) ==
    LET c == commanding[p]
    IN  /\ c.pc = "agents"
        /\ \E cmd \in Commands :
             phaseActions' = Put(phaseActions, {<<c.run, Head(c.todo), cmd>>}, c.settings)
        /\ commanding' = [commanding EXCEPT ![p].pc = "models"]
        /\ UNCHANGED <<runs, agencyState, shown, dropped, commandsRun>>

\* An agent that is there already stays as it is: loading again is not an error.
RegisterAgent(p) ==
    LET c == commanding[p]
    IN  /\ c.pc = "agents"
        /\ \E cmd \in Commands :
             LET k == <<c.run, Head(c.todo), cmd>>
             IN  phaseActions' = IF k \in DOMAIN phaseActions THEN phaseActions
                                 ELSE Put(phaseActions, {k}, c.settings)
        /\ commanding' = [commanding EXCEPT ![p].pc = "models"]
        /\ UNCHANGED <<runs, agencyState, shown, dropped, commandsRun>>

StoreModels(p) ==
    LET c == commanding[p]
    IN  /\ c.pc = "models"
        /\ agencyState' = Put(agencyState, {<<c.run, Head(c.todo)>>}, c.settings)
        /\ IF Len(c.todo) = 1 THEN Report(p, "loaded", c.run)
           ELSE /\ commanding' = [commanding EXCEPT ![p].pc = "stage", ![p].todo = Tail(@)]
                /\ UNCHANGED shown
        /\ UNCHANGED <<runs, phaseActions, dropped, commandsRun>>

\* A command is killed, or a statement of it fails: what it wrote stays.
CommandStops(p) ==
    /\ commanding[p].pc # "idle"
    /\ Report(p, "failed", commanding[p].run)
    /\ UNCHANGED <<runs, phaseActions, agencyState, dropped, commandsRun>>

ActionsNext ==
    \E p \in Commanders :
        \/ CreateInvalid(p) \/ Create(p) \/ RecordRunID(p) \/ AddBatch(p) \/ CreatePortfolio(p)
        \/ AddAction(p) \/ UpdateAction(p) \/ DeleteAction(p)
        \/ AgencyLoad(p) \/ ReadSpec(p) \/ RegisterAgent(p) \/ StoreModels(p)
        \/ CommandStops(p)

ActionsSpec == ActionsInit /\ [][ActionsNext]_actionVars

-----------------------------------------------------------------------------
\* A command that says it made a run has made all of it: the id to replay it
\* by and every action it was asked for, or its children.  A load that says it
\* loaded has left an action and a model entry in every stage.  Only a delete
\* takes one away.
ReportsAreTrue ==
    \A p \in Commanders :
        LET r == shown[p].run
            present == DOMAIN phaseActions \cup dropped
        IN  CASE shown[p].of = "created" ->
                   /\ runs[r].replay
                   /\ \A a \in runs[r].asked : <<r, a[1], a[2]>> \in present
              [] shown[p].of = "portfolio" ->
                   \E i, j \in DOMAIN runs : i # j /\ runs[i].parent = r /\ runs[j].parent = r
              [] shown[p].of = "loaded" ->
                   \A ph \in Phases : /\ \E cmd \in Commands : <<r, ph, cmd>> \in present
                                      /\ <<r, ph>> \in DOMAIN agencyState
              [] OTHER -> TRUE

\* The settings of an action change by an update only: a batch, an add or a
\* load, of an older or a newer spec, leaves those that are there alone.
SettingsAreEdited ==
    \A k \in DOMAIN phaseActions \cap DOMAIN phaseActions' :
        phaseActions'[k] # phaseActions[k] => \E p \in Commanders : shown'[p] = [of |-> "updated", run |-> k[1]]

\* What the commands report of runs and actions is true, and settings are only edited.
ActionsKept == []ReportsAreTrue /\ [][SettingsAreEdited]_phaseActions
=============================================================================
