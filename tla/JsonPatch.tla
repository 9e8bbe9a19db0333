----------------------------- MODULE JsonPatch -----------------------------
(***************************************************************************)
(* A JSON patch on a workload, as the apiserver applies it (RFC 6902):     *)
(* altogether, or not at all if one operation does not apply.                *)
(*                                                                         *)
(* A workload has pod-level fields and a sequence of containers of either  *)
(* sort.  A field is "missing" or, if it is a list, empty: the apiserver   *)
(* leaves both out of the object it shows the webhook.                     *)
(***************************************************************************)
EXTENDS Naturals, Sequences, FiniteSetsExt

ListFields == {"volumes", "volumeClaimTemplates"}

\* patchOperation.  index counts from 0, as in the path.
PodOp(op, field, value) ==
    [op |-> op, part |-> "pod", index |-> 0, field |-> field, value |-> value]
ContainerOp(op, part, index, field, value) ==
    [op |-> op, part |-> part, index |-> index, field |-> field, value |-> value]

Holder(w, o) == IF o.part = "pod" THEN w.pod ELSE w[o.part][o.index + 1]
Reaches(w, o) == o.part = "pod" \/ o.index + 1 \in DOMAIN w[o.part]
Has(holder, field) ==
    IF field \in ListFields THEN holder[field] # <<>> ELSE holder[field] # "missing"

\* replace, and appending to a list (path ".../-"), need what they change to be there.
Applies(w, o) == Reaches(w, o) /\ (o.op = "add" \/ Has(Holder(w, o), o.field))

\* The value a field has after the patch: what the last operation on it says.
After(old, ops, part, index, field) ==
    LET on == {k \in DOMAIN ops : /\ ops[k].part = part /\ ops[k].index = index
                                  /\ ops[k].field = field}
    IN  IF on = {} THEN old
        ELSE LET o == ops[Max(on)]
             IN  IF o.op = "append" THEN Append(old, o.value) ELSE o.value

Failed == [kind |-> "failed"]

\* No operation of the webhook's patches needs, or spoils, what an earlier one of the
\* same patch has done, so all of them are held against the object as submitted.
ApplyPatch(w, ops) ==
    LET Fields(holder, part, index) ==
            [f \in DOMAIN holder |-> After(holder[f], ops, part, index, f)]
    IN  IF \E k \in DOMAIN ops : ~Applies(w, ops[k]) THEN Failed
        ELSE [w EXCEPT !.pod = Fields(w.pod, "pod", 0),
                       !.init = [i \in DOMAIN w.init |-> Fields(w.init[i], "init", i - 1)],
                       !.main = [i \in DOMAIN w.main |-> Fields(w.main[i], "main", i - 1)]]
=============================================================================
