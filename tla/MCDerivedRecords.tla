-------------------------- MODULE MCDerivedRecords --------------------------
(* Small instances of the derived records.                                  *)
EXTENDS DerivedRecords, TLC

CONSTANTS w1, w2, hub, c1, c2, c3, food, toast, avocado_toast, pizza, mine, yours

OneHub == [w \in Workers |-> hub]

(* c3 belongs to another owner.                                             *)
TwoOwners == [c \in Conversations |-> IF c = c3 THEN yours ELSE mine]
Texts == [v \in Values |-> IF v = avocado_toast THEN {toast, avocado_toast} ELSE {v}]

Says(v, old, role, asserted) ==
    [about |-> food, value |-> v, corrects |-> old, role |-> role, asserted |-> asserted]

Toast == Says(toast, None, "user", TRUE)
PizzaNotToast == Says(pizza, toast, "user", TRUE)
NoPizza == Says(pizza, None, "user", FALSE)
AvocadoToast == Says(avocado_toast, None, "assistant", TRUE)

Meals ==
    {<<Toast>>, <<AvocadoToast>>, <<NoPizza>>, <<PizzaNotToast>>,
     <<Toast, PizzaNotToast>>, <<PizzaNotToast, Toast>>}

Interchangeable == Permutations(Workers) \cup Permutations(Conversations \ {c3})
=============================================================================
