---------------------------- MODULE MCDataTables ----------------------------
(***************************************************************************)
(* Two human slots (humans.create needs both), and one slot of the kinds   *)
(* that clear late, early, and without a detour of their deletion.         *)
(***************************************************************************)
EXTENDS DataTables, TLC

MCKindOf == "h1" :> "human" @@ "h2" :> "human" @@ "i" :> "item" @@
            "v" :> "vehicle" @@ "b" :> "body"
MCSlots == DOMAIN MCKindOf

=============================================================================
