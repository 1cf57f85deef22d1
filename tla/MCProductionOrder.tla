-------------------------- MODULE MCProductionOrder --------------------------
(***************************************************************************)
(* Small instances of ProductionOrder for TLC.                             *)
(***************************************************************************)
EXTENDS ProductionOrder

CONSTANTS o1, m1, k1, k2, x1

\* One order, two rows that draw on the same lot.
SharedOrderOf == <<o1, o1>>
SharedMaterialOf == <<m1, m1>>
\* One order with a row.
SingleOrderOf == <<o1>>
SingleMaterialOf == <<m1>>

OneLotMaterial == [k \in {k1} |-> m1]
TwoLotsOfOneMaterial == [k \in {k1, k2} |-> m1]
NoOutputs == [x \in {} |-> o1]
OneOutput == [x \in {x1} |-> o1]
NoFormula == [o \in Order |-> {}]
OneMaterialFormula == [o \in Order |-> {m1}]

TwoOfEach == [k \in Lot |-> 2]
\* The second lot is empty until a receipt.
TwoInFirst == [k \in Lot |-> IF k = k1 THEN 2 ELSE 0]
=============================================================================
