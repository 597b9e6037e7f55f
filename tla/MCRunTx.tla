------------------------------ MODULE MCRunTx ------------------------------
(* Small instances of RunTx for TLC.                                       *)
EXTENDS RunTx, TLC

(* Processes only differ in what they run.                                 *)
Symmetry == Permutations(Procs)

(* Chains: each keeps the gates of a stretch of the default chain.         *)
PlanChain   == <<"planned", "executing", "done">>
ReviewChain == <<"executing", "review", "polish", "done">>
CloseChain  == <<"polish", "reflect", "done">>

NoExitRules == [p \in Phase |-> {}]

(* agency.gates.review asks for a verdict of its own.                      *)
ReviewSpec ==
    [p \in Phase |->
       IF Chain[p] = "review"
       THEN {[check |-> "verdict_exists", phase |-> "", tier |-> "hard"]}
       ELSE {}]

(* Configurations: priorities on both sides of each boundary.              *)
Cfg(priority, disable, skipReason) ==
    [priority |-> priority, disable |-> disable, skipReason |-> skipReason]

Hard     == {Cfg(1, FALSE, FALSE)}
AllTiers == {Cfg(1, FALSE, FALSE), Cfg(2, FALSE, TRUE), Cfg(4, FALSE, TRUE)}
Bypasses == {Cfg(1, FALSE, FALSE), Cfg(4, FALSE, FALSE), Cfg(1, TRUE, FALSE)}

Calibrated == {<<"verdict_exists", 2, 3>>}

AutoRun   == {NewRun(TRUE, NoGate)}
EitherRun == {NewRun(auto, NoGate) : auto \in BOOLEAN}

(* Patches of the close gate: bind a bead, bind and seal expectations at   *)
(* once, and what would undo that: another bead, or no requirement.        *)
Patch(requires, bead, seal) == [requires |-> requires, bead |-> bead, seal |-> seal]

Bind   == Patch("evidence", "first", "keep")
Seal   == Patch("evidence", "first", "first")
Rebind == Patch("evidence", "other", "keep")
Unbind == Patch("none", "keep", "keep")

GatePatches(ps) == [field : {"closeGate"}, to : ps]

(* Commands.                                                               *)
AdvanceOnly == [op : {"advance"}, cfg : Configs]

GateCommands == AdvanceOnly \cup [op : {"skip"}, target : {3}]

CloseCommands ==
    AdvanceOnly \cup [op : {"override"}]
                \cup [op : {"skip"}, target : {2}]
                \cup [op : {"set"}, settings : GatePatches({Bind, Seal, Rebind})]

CloseRaceCommands ==
    CloseCommands \cup [op : {"cancel"}] \cup [op : {"rollback"}, to : {1}]

EndCommands ==
    [op : {"override"}] \cup [op : {"rollback"}, to : {1}]
      \cup [op : {"set"},
            settings : [field : {"auto"}, to : {"off"}]
                         \cup GatePatches({Bind, Unbind})]

CleanupCommands == [op : {"override"}] \cup [op : {"rollback"}, to : {1}]

=============================================================================
