----------------------------- MODULE Timestamps -----------------------------
(***************************************************************************)
(* Logical times (time/mod.rs, time/nested_ts32.rs).  The root circuit has *)
(* the one time <<>>.  In a circuit nested in it a time is <<epoch, inner>>*)
(* where epoch is one bit: 1 for the current step of the parent, 0 for all *)
(* of its earlier steps; inner counts the iterations of the nested clock   *)
(* within a step.                                                          *)
(***************************************************************************)
EXTENDS Integers, Sequences

INNER_MASK == 2147483647

\* The absent time (Option::None); no time has one component.
None == <<-1>>

\* Timestamp::clock_start
Start(nested) == IF nested THEN <<1, 0>> ELSE <<>>

LessEqual(s, t) == \A k \in DOMAIN s : s[k] <= t[k]

\* The total order of u32, in which the times happen.
StrictlyBefore(s, t) ==
    \/ s[1] < t[1]
    \/ s[1] = t[1] /\ s[2] < t[2]

Join(s, t) == [k \in DOMAIN s |-> IF s[k] < t[k] THEN t[k] ELSE s[k]]

Meet(s, t) == [k \in DOMAIN s |-> IF s[k] < t[k] THEN s[k] ELSE t[k]]

Advance(t, scope) ==
    CASE t = <<>>    -> t
      [] scope = 0   -> <<t[1], t[2] + 1>>
      [] OTHER       -> <<1, 0>>

CheckedRecede(t, scope) ==
    CASE t = None               -> None
      [] t = <<>>               -> t
      [] scope = 0 /\ t[2] = 0  -> None
      [] scope = 0              -> <<t[1], t[2] - 1>>
      [] OTHER                  -> <<0, t[2]>>

EpochEnd(t, scope) ==
    IF t = <<>> THEN t ELSE <<IF scope = 0 THEN t[1] ELSE 1, INNER_MASK>>
=============================================================================
