------------------------------- MODULE Parts -------------------------------
(***************************************************************************)
(* Several components in one run.  A behaviour takes one part, chosen by   *)
(* its first state, and stays in it; v1, v2, ... are the variables of that *)
(* part, in the order its module declares them, and the rest are 0.  TLC   *)
(* explores the sum of the parts, never their product, and in a behaviour  *)
(* of a part an action of another is never enabled.                        *)
(***************************************************************************)
EXTENDS Naturals

VARIABLES part, v1, v2, v3, v4, v5, v6, v7, v8, v9, v10, v11, v12, v13, v14, v15, v16

every == <<part, v1, v2, v3, v4, v5, v6, v7, v8, v9, v10, v11, v12, v13, v14, v15, v16>>

\* Init<n>: the part has fewer than n variables; Keep<n>: a step leaves the rest.
Init17 == TRUE
Init16 == v16 = 0 /\ Init17
Init15 == v15 = 0 /\ Init16
Init14 == v14 = 0 /\ Init15
Init13 == v13 = 0 /\ Init14
Init12 == v12 = 0 /\ Init13
Init11 == v11 = 0 /\ Init12
Init10 == v10 = 0 /\ Init11
Init9 == v9 = 0 /\ Init10
Init8 == v8 = 0 /\ Init9
Init7 == v7 = 0 /\ Init8
Init6 == v6 = 0 /\ Init7
Init5 == v5 = 0 /\ Init6
Init1 == v1 = 0 /\ v2 = 0 /\ v3 = 0 /\ v4 = 0 /\ Init5

Keep17 == UNCHANGED part
Keep16 == UNCHANGED v16 /\ Keep17
Keep15 == UNCHANGED v15 /\ Keep16
Keep14 == UNCHANGED v14 /\ Keep15
Keep13 == UNCHANGED v13 /\ Keep14
Keep12 == UNCHANGED v12 /\ Keep13
Keep11 == UNCHANGED v11 /\ Keep12
Keep10 == UNCHANGED v10 /\ Keep11
Keep9 == UNCHANGED v9 /\ Keep10
Keep8 == UNCHANGED v8 /\ Keep9
Keep7 == UNCHANGED v7 /\ Keep8
Keep6 == UNCHANGED v6 /\ Keep7
=============================================================================
