-------------------------- MODULE LabelMgt_proofs --------------------------
(***************************************************************************)
(* The bitmap of the label allocator implements the pool of labels, for    *)
(* every range of labels and every size of a word.  What has to be shown   *)
(* of the arithmetic is that two labels never share a bit (OneBit) and     *)
(* that every label has one (BitExists).                                   *)
(***************************************************************************)
EXTENDS LabelMgt, TLAPS

(* Every index of a label has a word of the array and a bit of the word.   *)
LEMMA BitExists ==
  ASSUME NEW i \in 0..LABEL_COUNT - 1
  PROVE  i \div WORD \in Words /\ i % WORD \in Bits
<1>1. LABEL_COUNT \in Nat /\ i \in Nat /\ i <= LABEL_COUNT - 1
  BY LabelAssumption DEF LABEL_COUNT
<1>2. i % WORD \in Bits
  BY <1>1, WordAssumption DEF Bits
<1>3. i \div WORD \in Nat
  BY <1>1, WordAssumption
<1>4. i \div WORD <= BITMAP_WORDS - 1
  BY <1>1, WordAssumption DEF BITMAP_WORDS
<1> QED
  BY <1>1, <1>2, <1>3, <1>4 DEF Words

(* Two indices with the same word and the same bit are one.                *)
LEMMA OneBit ==
  ASSUME NEW i \in Nat, NEW j \in Nat,
         i \div WORD = j \div WORD, i % WORD = j % WORD
  PROVE  i = j
<1>1. i = WORD * (i \div WORD) + (i % WORD)
  BY WordAssumption
<1>2. j = WORD * (j \div WORD) + (j % WORD)
  BY WordAssumption
<1> QED
  BY <1>1, <1>2

(* Labels and indices correspond one to one.                               *)
LEMMA LabelIndex ==
  /\ \A label \in Label : /\ label - LABEL_MIN \in 0..LABEL_COUNT - 1
                          /\ LABEL_MIN + (label - LABEL_MIN) = label
  /\ \A i \in 0..LABEL_COUNT - 1 : /\ LABEL_MIN + i \in Label
                                   /\ (LABEL_MIN + i) - LABEL_MIN = i
  /\ LABEL_COUNT \in Nat
BY LabelAssumption DEF Label, LABEL_COUNT

(* The results of the allocator do not meet: a label, none, 0 or 1.        *)
LEMMA Results ==
  /\ MAXVALUE \notin Label /\ MAXVALUE \notin {0, 1}
  /\ NoLabel \notin Label
BY LabelAssumption, WordAssumption DEF Label, NoLabel

----------------------------------------------------------------------------
(* The type invariant                                                      *)

(* A call keeps the shape of the array and returns one of the promised.    *)
LEMMA NextType ==
  ASSUME TypeOK, [Next]_vars
  PROVE  TypeOK'
<1>1. CASE UNCHANGED vars
  BY <1>1 DEF TypeOK, vars
<1>2. CASE AllocateLabel
  <2>1. PICK i \in 0..LABEL_COUNT - 1 :
          /\ bitmap' = [bitmap EXCEPT ![i \div WORD] = @ \cup {i % WORD}]
          /\ asked' = NoLabel /\ result' = LABEL_MIN + i
    BY <1>2 DEF AllocateLabel
  <2>2. i \div WORD \in Words /\ i % WORD \in Bits
    BY BitExists
  <2>3. result' \in Label
    BY <2>1, LabelIndex
  <2>4. bitmap' \in [Words -> SUBSET Bits]
    <3> DEFINE w == i \div WORD
               b == i % WORD
    <3>1. /\ bitmap' = [bitmap EXCEPT ![w] = @ \cup {b}]
          /\ w \in Words /\ b \in Bits
      BY <2>1, <2>2
    <3> HIDE DEF w, b
    <3> QED
      BY <3>1 DEF TypeOK
  <2> QED
    BY <2>1, <2>3, <2>4 DEF TypeOK
<1>3. CASE AllocateNone
  BY <1>3 DEF TypeOK, AllocateNone
<1>4. ASSUME NEW label \in 0..MAXVALUE, FreeLabel(label)
      PROVE  TypeOK'
  <2> DEFINE w == (label - LABEL_MIN) \div WORD
             b == (label - LABEL_MIN) % WORD
  <2>1. bitmap' = [bitmap EXCEPT ![w] = @ \ {b}]
       /\ asked' = label /\ result' = 1
    BY <1>4 DEF FreeLabel
  <2> HIDE DEF w, b
  <2>2. bitmap' \in [Words -> SUBSET Bits]
    BY <2>1 DEF TypeOK
  <2> QED
    BY <2>1, <2>2 DEF TypeOK
<1>5. ASSUME NEW label \in 0..MAXVALUE, FreeRefused(label)
      PROVE  TypeOK'
  BY <1>5 DEF TypeOK, FreeRefused
<1> QED
  BY <1>1, <1>2, <1>3, <1>4, <1>5 DEF Next

(* The array keeps its shape and every result is one of the promised.      *)
THEOREM TypeCorrect == Spec => []TypeOK
<1>1. Init => TypeOK
  BY DEF Init, TypeOK
<1>2. TypeOK /\ [Next]_vars => TypeOK'
  BY NextType
<1> QED
  BY <1>1, <1>2, PTL DEF Spec

----------------------------------------------------------------------------
(* The refinement                                                          *)

(* The labels whose bit is set, what LabelPool calls used.                 *)
Used == {l \in Label : IsSet(l - LABEL_MIN)}

(* Setting the bit of an index gives out its label and no other.           *)
LEMMA SetBit ==
  ASSUME TypeOK, NEW i \in 0..LABEL_COUNT - 1,
         bitmap' = [bitmap EXCEPT ![i \div WORD] = @ \cup {i % WORD}]
  PROVE  Used' = Used \cup {LABEL_MIN + i}
<1>1. i \div WORD \in Words /\ i \in Nat
  BY BitExists, LabelIndex
<1>2. ASSUME NEW j \in 0..LABEL_COUNT - 1
      PROVE  IsSet(j)' <=> IsSet(j) \/ j = i
  <2> DEFINE w == i \div WORD
             b == i % WORD
             v == j \div WORD
             c == j % WORD
  <2>1. v \in Words /\ j \in Nat
    BY BitExists, LabelIndex
  <2>2. v = w /\ c = b => j = i
    BY <1>1, <2>1, OneBit
  <2>3. bitmap' = [bitmap EXCEPT ![w] = @ \cup {b}] /\ w \in Words
    BY <1>1
  <2>4. j = i => v = w /\ c = b
    OBVIOUS
  <2> HIDE DEF w, b, v, c
  <2>5. c \in bitmap'[v] <=> c \in bitmap[v] \/ (v = w /\ c = b)
    BY <2>1, <2>3 DEF TypeOK
  <2>6. (IsSet(j) <=> c \in bitmap[v]) /\ (IsSet(j)' <=> c \in bitmap'[v])
    BY DEF IsSet, v, c
  <2> QED
    BY <2>2, <2>4, <2>5, <2>6
<1>3. \A l \in Label : l - LABEL_MIN = i <=> l = LABEL_MIN + i
  BY LabelIndex
<1>4. \A l \in Label : IsSet(l - LABEL_MIN)'
                         <=> IsSet(l - LABEL_MIN) \/ l = LABEL_MIN + i
  BY <1>2, <1>3, LabelIndex
<1> QED
  BY <1>4, LabelIndex DEF Used

(* Clearing the bit of a label returns it and no other.                    *)
LEMMA ClearBit ==
  ASSUME TypeOK, NEW label \in Label,
         LET i == label - LABEL_MIN
         IN  bitmap' = [bitmap EXCEPT ![i \div WORD] = @ \ {i % WORD}]
  PROVE  Used' = Used \ {label}
<1> DEFINE i == label - LABEL_MIN
<1>1. i \in 0..LABEL_COUNT - 1
  BY LabelIndex
<1>2. i \div WORD \in Words /\ i \in Nat
  BY <1>1, BitExists, LabelIndex
<1>3. ASSUME NEW j \in 0..LABEL_COUNT - 1
      PROVE  IsSet(j)' <=> IsSet(j) /\ j # i
  <2> DEFINE w == i \div WORD
             b == i % WORD
             v == j \div WORD
             c == j % WORD
  <2>1. v \in Words /\ j \in Nat
    BY BitExists, LabelIndex
  <2>2. v = w /\ c = b => j = i
    BY <1>2, <2>1, OneBit
  <2>3. bitmap' = [bitmap EXCEPT ![w] = @ \ {b}] /\ w \in Words
    BY <1>2
  <2>4. j = i => v = w /\ c = b
    OBVIOUS
  <2> HIDE DEF w, b, v, c
  <2>5. c \in bitmap'[v] <=> c \in bitmap[v] /\ ~ (v = w /\ c = b)
    BY <2>1, <2>3 DEF TypeOK
  <2>6. (IsSet(j) <=> c \in bitmap[v]) /\ (IsSet(j)' <=> c \in bitmap'[v])
    BY DEF IsSet, v, c
  <2> QED
    BY <2>2, <2>4, <2>5, <2>6
<1>4. \A l \in Label : l - LABEL_MIN = i <=> l = label
  BY LabelAssumption DEF Label
<1>5. \A l \in Label : IsSet(l - LABEL_MIN)'
                         <=> IsSet(l - LABEL_MIN) /\ l # label
  BY <1>3, <1>4, LabelIndex
<1> QED
  BY <1>5 DEF Used

(* The label of the first bit that is clear is the lowest free one.        *)
LEMMA FirstIsLowest ==
  ASSUME NEW i \in 0..LABEL_COUNT - 1, ~ IsSet(i),
         \A j \in 0..i - 1 : IsSet(j)
  PROVE  LABEL_MIN + i \in Available(Used)
<1>1. LABEL_MIN + i \in Label \ Used
  BY LabelIndex DEF Used
<1>2. ASSUME NEW k \in Label \ Used
      PROVE  LABEL_MIN + i <= k
  <2>1. k - LABEL_MIN \in 0..LABEL_COUNT - 1 /\ ~ IsSet(k - LABEL_MIN)
    BY LabelIndex DEF Used
  <2>2. k - LABEL_MIN \notin 0..i - 1
    BY <2>1
  <2> QED
    BY <2>1, <2>2, LabelIndex, LabelAssumption DEF Label
<1> QED
  BY <1>1, <1>2 DEF Available

(* The pool is one of the same labels.                                     *)
LEMMA SamePool ==
  /\ Pool!Label = Label /\ Pool!NoLabel = NoLabel
  /\ \A used : Pool!Available(used) = Available(used)
BY DEF Pool!Label, Label, Pool!NoLabel, NoLabel, Pool!Available, Available

LEMMA PoolInit == Init => Pool!Init
<1>1. SUFFICES ASSUME Init PROVE Pool!Init
  OBVIOUS
<1>2. \A i \in 0..LABEL_COUNT - 1 : ~ IsSet(i)
  <2>1. \A w \in Words : bitmap[w] = {}
    BY <1>1 DEF Init
  <2> QED
    BY <2>1, BitExists DEF IsSet
<1>3. Used = {}
  BY <1>2, LabelIndex DEF Used
<1> QED
  BY <1>1, <1>3, SamePool DEF Init, Pool!Init, Used

LEMMA PoolNext ==
  ASSUME TypeOK, TypeOK', [Next]_vars
  PROVE  [Pool!Next]_<<Used, asked,
                 IF result = MAXVALUE THEN NoLabel ELSE result>>
<1> DEFINE value == IF result = MAXVALUE THEN NoLabel ELSE result
<1>1. CASE UNCHANGED vars
  BY <1>1 DEF vars, Used, IsSet
<1>2. CASE AllocateLabel
  <2>1. PICK i \in 0..LABEL_COUNT - 1 :
          /\ ~ IsSet(i)
          /\ \A j \in 0..i - 1 : IsSet(j)
          /\ bitmap' = [bitmap EXCEPT ![i \div WORD] = @ \cup {i % WORD}]
          /\ asked' = NoLabel /\ result' = LABEL_MIN + i
    BY <1>2 DEF AllocateLabel
  <2>2. value' = LABEL_MIN + i /\ value' \in Label
    BY <2>1, LabelIndex, Results
  <2>3. value' \in Available(Used)
    BY <2>1, <2>2, FirstIsLowest
  <2>4. Used' = Used \cup ({value'} \cap Label)
    BY <2>1, <2>2, SetBit
  <2> QED
    BY <2>1, <2>3, <2>4, SamePool DEF Pool!Next, Pool!Allocate, Used
<1>3. CASE AllocateNone
  <2>1. Used' = Used /\ value' = NoLabel /\ asked' = NoLabel
    BY <1>3 DEF AllocateNone, Used, IsSet
  <2>2. Label \ Used = {}
    BY <1>3, LabelIndex DEF AllocateNone, Used
  <2>3. value' \in Available(Used) /\ {value'} \cap Label = {}
    BY <2>1, <2>2, Results DEF Available
  <2> QED
    BY <2>1, <2>3, SamePool DEF Pool!Next, Pool!Allocate, Used
<1>4. ASSUME NEW label \in 0..MAXVALUE, FreeLabel(label)
      PROVE  Pool!Next
  <2>1. label \in Label
    BY <1>4, LabelAssumption, WordAssumption DEF FreeLabel, InRange, Label
  <2>2. Used' = Used \ {label}
    BY <1>4, <2>1, ClearBit DEF FreeLabel
  <2>3. value' = 1 /\ asked' = label
    BY <1>4, Results DEF FreeLabel
  <2> QED
    BY <2>1, <2>2, <2>3, SamePool DEF Pool!Next, Pool!Free, Used
<1>5. ASSUME NEW label \in 0..MAXVALUE, FreeRefused(label)
      PROVE  Pool!Next
  <2>1. Used' = Used /\ value' = 0 /\ asked' = label
    BY <1>5, Results DEF FreeRefused, Used, IsSet
  <2>2. label \notin Label \cup {NoLabel}
    BY <1>5, LabelAssumption DEF FreeRefused, InRange, Label, NoLabel
  <2> QED
    BY <2>1, <2>2, SamePool DEF Pool!Next, Pool!Refuse, Used
<1> QED
  BY <1>1, <1>2, <1>3, <1>4, <1>5 DEF Next

(* Calls of allocate_label and free_label, on the bitmap, give and return  *)
(* labels exactly as the pool promises: the lowest free one, to one caller *)
(* at a time, and none only when all are taken.                            *)
THEOREM BitmapImplementsPool == Spec => ImplementsPool
<1>1. Init => Pool!Init
  BY PoolInit
<1>2. TypeOK /\ TypeOK' /\ [Next]_vars
        => [Pool!Next]_<<Used, asked,
                 IF result = MAXVALUE THEN NoLabel ELSE result>>
  BY PoolNext
<1> QED
  BY <1>1, <1>2, TypeCorrect, PTL DEF Spec, ImplementsPool, Pool!Spec, Used

=============================================================================
