------------------------------ MODULE LabelMgt ------------------------------
(***************************************************************************)
(* The label allocator: a bitmap in an array of words.  The labels are     *)
(* uint32_t: NoLabel is -1 there, the largest value.                       *)
(***************************************************************************)
EXTENDS Labels

CONSTANTS WORD,      \* bits of a word (32)
          MAXVALUE   \* the largest value of a uint32_t, what -1 becomes

\* a mutant: one index too many
LabelCountOver == LABEL_MAX - LABEL_MIN + 2

LABEL_COUNT == LABEL_MAX - LABEL_MIN + 1

BITMAP_WORDS == (LABEL_COUNT + WORD - 1) \div WORD

ASSUME WordAssumption ==
  /\ WORD \in Nat \ {0}
  /\ MAXVALUE \in Nat
  /\ LABEL_MAX < MAXVALUE

VARIABLES bitmap,    \* label_bitmap: the bits that are set, word by word
          asked,     \* what the last call freed, NoLabel: it allocated
          result     \* what the last call returned

vars == <<bitmap, asked, result>>

Words == 0..BITMAP_WORDS - 1

Bits == 0..WORD - 1

TypeOK ==
  /\ bitmap \in [Words -> SUBSET Bits]
  /\ asked \in 0..MAXVALUE \cup {NoLabel}
  /\ result \in Label \cup {0, 1, MAXVALUE}

Init ==
  /\ bitmap = [w \in Words |-> {}]
  /\ asked = NoLabel
  /\ result = MAXVALUE

IsSet(i) == i % WORD \in bitmap[i \div WORD]

(* The loop over the indices stops at the first bit that is not set.       *)
AllocateLabel ==
  \E i \in 0..LABEL_COUNT - 1 :
    /\ ~ IsSet(i)
    /\ \A j \in 0..i - 1 : IsSet(j)
    /\ bitmap' = [bitmap EXCEPT ![i \div WORD] = @ \cup {i % WORD}]
    /\ asked' = NoLabel
    /\ result' = LABEL_MIN + i

AllocateNone ==
  /\ \A i \in 0..LABEL_COUNT - 1 : IsSet(i)
  /\ asked' = NoLabel
  /\ result' = MAXVALUE
  /\ UNCHANGED bitmap

\* a mutant: the last label cannot be freed
InRangeShort(label) == label >= LABEL_MIN /\ label < LABEL_MAX

InRange(label) == ~ (label < LABEL_MIN \/ label > LABEL_MAX)

FreeLabel(label) ==
  LET i == label - LABEL_MIN
  IN  /\ InRange(label)
      /\ bitmap' = [bitmap EXCEPT ![i \div WORD] = @ \ {i % WORD}]
      /\ asked' = label
      /\ result' = 1

FreeRefused(label) ==
  /\ ~ InRange(label)
  /\ asked' = label
  /\ result' = 0
  /\ UNCHANGED bitmap

Next ==
  \/ AllocateLabel
  \/ AllocateNone
  \/ \E label \in 0..MAXVALUE : FreeLabel(label) \/ FreeRefused(label)

Spec == Init /\ [][Next]_vars

----------------------------------------------------------------------------
(* The bitmap implements the pool: bit i of the array stands for the label *)
(* LABEL_MIN + i, no two labels share a bit, and no bit of the last word   *)
(* that stands for no label is ever given out.                             *)
Pool == INSTANCE LabelPool WITH
          used <- {l \in Label : IsSet(l - LABEL_MIN)},
          result <- IF result = MAXVALUE THEN NoLabel ELSE result

ImplementsPool == Pool!Spec
=============================================================================
