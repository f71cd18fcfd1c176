------------------------------- MODULE Labels -------------------------------
(***************************************************************************)
(* The label values of the daemon and the rule by which label_mgt.c picks  *)
(* one.  LabelPool states the allocator's promise with this rule, LabelMgt *)
(* is the bitmap that keeps the promise, and Rsvpd uses the promise.       *)
(***************************************************************************)
EXTENDS Integers

CONSTANTS LABEL_MIN,     \* first label of the dynamic range (16)
          LABEL_MAX      \* last label of the dynamic range (65535)

(***************************************************************************)
(* Labels 0..15 are reserved; IMPLICIT_NULL is one of them, so a value of  *)
(* the dynamic range is never mistaken for a reserved label or for -1.     *)
(***************************************************************************)
ASSUME LabelAssumption ==
  /\ LABEL_MIN \in Nat
  /\ LABEL_MAX \in Nat
  /\ 3 < LABEL_MIN
  /\ LABEL_MIN <= LABEL_MAX

Label == LABEL_MIN..LABEL_MAX

IMPLICIT_NULL == 3       \* what the tail of a tunnel advertises

NoLabel == -1            \* "No labels available", and "no label here"

LabelValue == Label \cup {IMPLICIT_NULL, NoLabel}

\* a mutant: the bit of the label is never set
AvailableUnmarked(used) == {LABEL_MIN}

(***************************************************************************)
(* The value allocate_label returns when the labels of used are taken: the *)
(* first one that is not, NoLabel when there is none (the set has one      *)
(* element).                                                               *)
(***************************************************************************)
Available(used) ==
  LET free == Label \ used
  IN  IF free = {} THEN {NoLabel}
      ELSE {l \in free : \A k \in free : l <= k}
=============================================================================
