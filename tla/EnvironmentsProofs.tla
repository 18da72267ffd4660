------------------------- MODULE EnvironmentsProofs -------------------------
(***************************************************************************)
(* Proofs about what a managed run rests on, in the composition that TLC   *)
(* checks.  The sealed run is proved for any contents of its files and any *)
(* number of changes by somebody else, in every lane: its programs are     *)
(* shown to compare each input with its seal no earlier than they keep it, *)
(* and each saved file with what was trained, whatever the lane, and the   *)
(* invariants say what a run knows at a place of such a program.           *)
(***************************************************************************)
EXTENDS MCEnvironmentsAndInputs, EnvironmentManagerProofs, SequenceTheorems, FiniteSetTheorems,
        TLAPS

-----------------------------------------------------------------------------
(* The programs of a sealed run *)

\* The steps that programs are made of: only outputs are saved.
StepType ==
  {x \in [act : {"look", "assess", "format", "train", "save"}, file : Run!Files,
          match : SUBSET Run!Books, note : SUBSET Run!Books, keep : BOOLEAN] :
     x.act = "save" => x.file \in {"export", "config"}}

Inputs == {"dataset", "weights", "tokenizer"}

\* What a plan, a run that has not trained, and one that trains or has trained may do.
Planned == {x \in StepType : ~x.keep /\ x.act \notin {"train", "save"}
                               /\ x.note \subseteq {"sealed"}}
Prepared == {x \in StepType : x.note = {} /\ x.act \notin {"train", "save"}
                                /\ (x.keep /\ x.file = "dataset" => "sealed" \in x.match)}
Done == {x \in StepType : ~x.keep /\ x.note \subseteq {"proposed", "recorded"}}

\* What may precede the saving of the weights, and what may follow it.
Unsaved == {x \in StepType : x.act # "save" /\ x.note \subseteq {"sealed"}}
Saved == {x \in Done : x.act = "save" => x.file = "config"}

Verifies(x, f) == x.act = "look" /\ x.file = f /\ "sealed" \in x.match
Retains(x, f) == x.act = "look" /\ x.file = f /\ x.keep

\* Between i and n the file is compared with its seal.
VerifiedFrom(s, i, n, f) == \E j \in i..n : Verifies(s[j], f)

\* What the run holds of an input it has compared with the seal at that time or later.
Checked(s, f) == \A i \in 1..Len(s) : Retains(s[i], f) => VerifiedFrom(s, i, Len(s), f)

Holding(s, f) == \E i \in 1..Len(s) : Retains(s[i], f)

\* A program plans up to m, takes its inputs up to n, and trains only then.
Shape(s, m, n) ==
  /\ m \in Nat /\ n \in Nat /\ m <= n /\ n <= Len(s) /\ s \in Seq(StepType)
  /\ \A i \in 1..m : s[i] \in Planned
  /\ \A i \in (m + 1)..n : s[i] \in Prepared
  /\ \A i \in (n + 1)..Len(s) : s[i] \in Done
  /\ \A f \in {"weights", "tokenizer"} : \A i \in 1..n :
        Retains(s[i], f) => VerifiedFrom(s, i, n, f)
  /\ \A f \in Inputs : \E i \in 1..n : Retains(s[i], f)

\* The steps of two programs, one after the other.
LEMMA Joined ==
  ASSUME NEW S, NEW s \in Seq(S), NEW t \in Seq(S)
  PROVE  /\ s \o t \in Seq(S) /\ Len(s \o t) = Len(s) + Len(t)
         /\ Len(s) \in Nat /\ Len(t) \in Nat
         /\ \A i \in 1..Len(s) : (s \o t)[i] = s[i] /\ s[i] \in S
         /\ \A i \in 1..Len(t) : (s \o t)[Len(s) + i] = t[i] /\ t[i] \in S
         /\ \A i \in (Len(s) + 1)..(Len(s) + Len(t)) :
              (s \o t)[i] = t[i - Len(s)] /\ i - Len(s) \in 1..Len(t)
<1>1. s \o t \in Seq(S) /\ Len(s \o t) = Len(s) + Len(t) /\ Len(s) \in Nat /\ Len(t) \in Nat
  OBVIOUS
<1>2. \A i \in 1..Len(s) : (s \o t)[i] = s[i] /\ s[i] \in S
  OBVIOUS
<1>3. \A i \in (Len(s) + 1)..(Len(s) + Len(t)) :
        (s \o t)[i] = t[i - Len(s)] /\ i - Len(s) \in 1..Len(t)
  OBVIOUS
<1>4. \A i \in 1..Len(t) : (s \o t)[Len(s) + i] = t[i] /\ t[i] \in S
  OBVIOUS
<1> QED BY <1>1, <1>2, <1>3, <1>4

\* What may be done at one place may be done at another.
LEMMA StepKinds ==
  /\ Planned \subseteq StepType /\ Prepared \subseteq StepType /\ Done \subseteq StepType
  /\ Planned \subseteq Unsaved /\ Prepared \subseteq Unsaved /\ Unsaved \subseteq StepType
  /\ Saved \subseteq Done
BY DEF Planned, Prepared, Done, Unsaved, Saved

\* What a run does before it trains, as a program that has not been planned.
LEMMA ShapeBegins ==
  ASSUME NEW s \in Seq(Prepared), Checked(s, "weights"), Checked(s, "tokenizer"),
         \A f \in Inputs : Holding(s, f)
  PROVE  Shape(s, 0, Len(s))
<1>1. s \in Seq(StepType) /\ Len(s) \in Nat /\ \A i \in 1..Len(s) : s[i] \in Prepared
  BY StepKinds
<1>2. \A f \in {"weights", "tokenizer"} : \A i \in 1..Len(s) :
        Retains(s[i], f) => VerifiedFrom(s, i, Len(s), f)
  BY DEF Checked
<1> QED BY <1>1, <1>2 DEF Shape, Holding

\* A program goes on after it has trained, with what may follow there.
LEMMA ShapeGoesOn ==
  ASSUME NEW s, NEW m, NEW n, Shape(s, m, n), NEW t \in Seq(Done)
  PROVE  Shape(s \o t, m, n)
<1>1. s \in Seq(StepType) /\ t \in Seq(StepType) /\ n \in Nat /\ n <= Len(s) /\ m \in Nat /\ m <= n
  BY StepKinds DEF Shape
<1>2. /\ s \o t \in Seq(StepType) /\ Len(s \o t) = Len(s) + Len(t)
      /\ Len(s) \in Nat /\ Len(t) \in Nat
      /\ \A i \in 1..Len(s) : (s \o t)[i] = s[i]
      /\ \A i \in (Len(s) + 1)..(Len(s) + Len(t)) :
           (s \o t)[i] = t[i - Len(s)] /\ i - Len(s) \in 1..Len(t)
  BY <1>1, Joined
<1>3. \A i \in 1..n : (s \o t)[i] = s[i]
  BY <1>1, <1>2
<1>4. \A i \in (n + 1)..Len(s \o t) : (s \o t)[i] \in Done
  <2> SUFFICES ASSUME NEW i \in (n + 1)..Len(s \o t) PROVE (s \o t)[i] \in Done
    OBVIOUS
  <2>1. CASE i <= Len(s)
    BY <2>1, <1>1, <1>2 DEF Shape
  <2>2. CASE i > Len(s)
    BY <2>2, <1>1, <1>2
  <2> QED BY <2>1, <2>2, <1>1, <1>2
<1>5. \A f \in {"weights", "tokenizer"} : \A i \in 1..n :
        Retains((s \o t)[i], f) => VerifiedFrom(s \o t, i, n, f)
  <2> SUFFICES ASSUME NEW f \in {"weights", "tokenizer"}, NEW i \in 1..n, Retains((s \o t)[i], f)
               PROVE  VerifiedFrom(s \o t, i, n, f)
    OBVIOUS
  <2>1. PICK j \in i..n : Verifies(s[j], f)
    BY <1>3 DEF Shape, VerifiedFrom
  <2>2. j \in 1..n
    BY <1>1
  <2> QED BY <2>1, <2>2, <1>3 DEF VerifiedFrom
<1>6. \A f \in Inputs : \E i \in 1..n : Retains((s \o t)[i], f)
  BY <1>3 DEF Shape
<1>7. /\ \A i \in 1..m : (s \o t)[i] \in Planned
      /\ \A i \in (m + 1)..n : (s \o t)[i] \in Prepared
  BY <1>1, <1>3 DEF Shape
<1>8. n <= Len(s \o t)
  BY <1>1, <1>2
<1> QED BY <1>1, <1>2, <1>4, <1>5, <1>6, <1>7, <1>8 DEF Shape

\* What plans goes before a program that takes its inputs and trains.
LEMMA ShapePlanned ==
  ASSUME NEW s \in Seq(Planned), NEW t, NEW n, Shape(t, 0, n)
  PROVE  Shape(s \o t, Len(s), Len(s) + n)
<1> DEFINE m == Len(s)
<1>1. s \in Seq(StepType) /\ t \in Seq(StepType) /\ n \in Nat /\ n <= Len(t)
  BY StepKinds DEF Shape
<1>2. /\ s \o t \in Seq(StepType) /\ Len(s \o t) = m + Len(t)
      /\ m \in Nat /\ Len(t) \in Nat
      /\ \A i \in 1..m : (s \o t)[i] = s[i]
      /\ \A i \in 1..Len(t) : (s \o t)[m + i] = t[i]
      /\ \A i \in (m + 1)..(m + Len(t)) : (s \o t)[i] = t[i - m] /\ i - m \in 1..Len(t)
  BY <1>1, Joined
<1>3. \A i \in 1..m : (s \o t)[i] \in Planned
  BY <1>2
<1> HIDE DEF m
<1>4. \A i \in (m + 1)..(m + n) : (s \o t)[i] \in Prepared
  <2> SUFFICES ASSUME NEW i \in (m + 1)..(m + n) PROVE (s \o t)[i] \in Prepared
    OBVIOUS
  <2>1. i - m \in 1..n /\ (s \o t)[i] = t[i - m]
    BY <1>1, <1>2
  <2>2. \A k \in (0 + 1)..n : t[k] \in Prepared
    BY DEF Shape
  <2> QED BY <2>1, <2>2
<1>5. \A i \in (m + n + 1)..Len(s \o t) : (s \o t)[i] \in Done
  <2> SUFFICES ASSUME NEW i \in (m + n + 1)..Len(s \o t) PROVE (s \o t)[i] \in Done
    OBVIOUS
  <2>1. i - m \in (n + 1)..Len(t) /\ (s \o t)[i] = t[i - m]
    BY <1>1, <1>2
  <2>2. \A k \in (n + 1)..Len(t) : t[k] \in Done
    BY DEF Shape
  <2> QED BY <2>1, <2>2
<1>6. \A f \in {"weights", "tokenizer"} : \A i \in 1..(m + n) :
        Retains((s \o t)[i], f) => VerifiedFrom(s \o t, i, m + n, f)
  <2> SUFFICES ASSUME NEW f \in {"weights", "tokenizer"}, NEW i \in 1..(m + n),
                      Retains((s \o t)[i], f)
               PROVE  VerifiedFrom(s \o t, i, m + n, f)
    OBVIOUS
  <2>1. i > m
    BY <1>1, <1>2, <1>3 DEF Planned, Retains
  <2>2. i - m \in 1..n /\ (s \o t)[i] = t[i - m]
    BY <1>1, <1>2, <2>1
  <2>3. VerifiedFrom(t, i - m, n, f)
    BY <2>2 DEF Shape
  <2>4. PICK j \in (i - m)..n : Verifies(t[j], f)
    BY <2>3 DEF VerifiedFrom
  <2>5. m + j \in i..(m + n) /\ (s \o t)[m + j] = t[j]
    BY <2>2, <1>1, <1>2
  <2> QED BY <2>4, <2>5 DEF VerifiedFrom
<1>7. \A f \in Inputs : \E i \in 1..(m + n) : Retains((s \o t)[i], f)
  <2> SUFFICES ASSUME NEW f \in Inputs PROVE \E i \in 1..(m + n) : Retains((s \o t)[i], f)
    OBVIOUS
  <2>1. PICK k \in 1..n : Retains(t[k], f)
    BY DEF Shape
  <2>2. m + k \in 1..(m + n) /\ (s \o t)[m + k] = t[k]
    BY <1>1, <1>2
  <2> QED BY <2>1, <2>2
<1>8. m + n \in Nat /\ m <= m + n /\ m + n <= Len(s \o t)
  BY <1>1, <1>2
<1>9. Shape(s \o t, m, m + n)
  BY <1>2, <1>3, <1>4, <1>5, <1>6, <1>7, <1>8 DEF Shape
<1> QED BY <1>9 DEF m

\* Comparing with the seal afterwards checks whatever was read before.
LEMMA CheckedAfter ==
  ASSUME NEW s \in Seq(StepType), NEW t \in Seq(StepType), NEW f, Checked(t, f),
         \E j \in 1..Len(t) : Verifies(t[j], f)
  PROVE  Checked(s \o t, f)
<1>1. /\ Len(s \o t) = Len(s) + Len(t) /\ Len(s) \in Nat /\ Len(t) \in Nat
      /\ \A i \in 1..Len(t) : (s \o t)[Len(s) + i] = t[i]
      /\ \A i \in (Len(s) + 1)..(Len(s) + Len(t)) :
           (s \o t)[i] = t[i - Len(s)] /\ i - Len(s) \in 1..Len(t)
  BY Joined
<1>2. SUFFICES ASSUME NEW i \in 1..Len(s \o t), Retains((s \o t)[i], f)
               PROVE  VerifiedFrom(s \o t, i, Len(s \o t), f)
  BY DEF Checked
<1>3. CASE i <= Len(s)
  <2>1. PICK j \in 1..Len(t) : Verifies(t[j], f)
    OBVIOUS
  <2>2. Len(s) + j \in i..Len(s \o t) /\ (s \o t)[Len(s) + j] = t[j]
    BY <1>1, <1>3
  <2> QED BY <2>1, <2>2 DEF VerifiedFrom
<1>4. CASE i > Len(s)
  <2>1. (s \o t)[i] = t[i - Len(s)] /\ i - Len(s) \in 1..Len(t)
    BY <1>1, <1>4
  <2>2. Retains(t[i - Len(s)], f)
    BY <1>2, <2>1
  <2>3. PICK j \in (i - Len(s))..Len(t) : Verifies(t[j], f)
    BY <2>1, <2>2 DEF Checked, VerifiedFrom
  <2>4. Len(s) + j \in i..Len(s \o t) /\ j \in 1..Len(t)
    BY <1>1, <2>1
  <2> QED BY <1>1, <2>3, <2>4 DEF VerifiedFrom
<1> QED BY <1>1, <1>3, <1>4

\* What either of two programs holds, both hold together.
LEMMA HoldingJoined ==
  ASSUME NEW s \in Seq(StepType), NEW t \in Seq(StepType), NEW f,
         Holding(s, f) \/ Holding(t, f)
  PROVE  Holding(s \o t, f)
<1>1. /\ Len(s \o t) = Len(s) + Len(t) /\ Len(s) \in Nat /\ Len(t) \in Nat
      /\ \A i \in 1..Len(s) : (s \o t)[i] = s[i]
      /\ \A i \in 1..Len(t) : (s \o t)[Len(s) + i] = t[i]
  BY Joined
<1>2. CASE Holding(s, f)
  <2>1. PICK i \in 1..Len(s) : Retains(s[i], f)
    BY <1>2 DEF Holding
  <2> QED BY <1>1, <2>1 DEF Holding
<1>3. CASE Holding(t, f)
  <2>1. PICK i \in 1..Len(t) : Retains(t[i], f)
    BY <1>3 DEF Holding
  <2>2. Len(s) + i \in 1..Len(s \o t)
    BY <1>1
  <2> QED BY <1>1, <2>1, <2>2 DEF Holding
<1> QED BY <1>2, <1>3

\* The plan of every lane.
LEMMA PlanningPlans == \A l \in Run!Lanes : Run!Planning(l) \in Seq(Planned)
<1> SUFFICES ASSUME NEW l \in Run!Lanes PROVE Run!Planning(l) \in Seq(Planned)
  OBVIOUS
<1>1. \A f \in Run!Files : Run!Digest(f) \in Planned
  BY DEF Planned, StepType, Run!Books, Run!Digest, Run!Look
<1>2. Run!Look("weights", {}, {"sealed"}) \in Planned
        /\ Run!Look("tokenizer", {}, {"sealed"}) \in Planned
  BY DEF Planned, StepType, Run!Books, Run!Files, Run!Look
<1>3. Run!Step("assess", "dataset") \in Planned
  BY DEF Planned, StepType, Run!Books, Run!Files, Run!Step
<1>4. <<Run!Digest("dataset")>> \in Seq(Planned) /\ <<Run!Digest("adapter")>> \in Seq(Planned)
        /\ <<Run!Step("assess", "dataset")>> \in Seq(Planned) /\ <<>> \in Seq(Planned)
  BY <1>1, <1>3 DEF Run!Files
<1>5. Run!ModelDirectory({}, {"sealed"}) \in Seq(Planned)
  BY <1>2 DEF Run!ModelDirectory
<1> QED BY <1>4, <1>5 DEF Run!Planning

\* Pieces of what a run does before it trains.
LEMMA InputPieces ==
  /\ Run!Admission \in Seq(Prepared) /\ Run!Rows \in Seq(Prepared)
  /\ Run!RewardModel \in Seq(Prepared) /\ Run!LoadModel \in Seq(Prepared)
  /\ Holding(Run!Rows, "dataset") /\ Holding(Run!Rows, "tokenizer")
  /\ Holding(Run!LoadModel, "weights")
  /\ \A f \in {"weights", "tokenizer"} :
       Checked(Run!LoadModel, f) /\ \E j \in 1..Len(Run!LoadModel) : Verifies(Run!LoadModel[j], f)
<1> DEFINE sight(f) ==
             [act |-> "look", file |-> f, match |-> {"sealed"}, note |-> {}, keep |-> FALSE]
           kept(f) == [act |-> "look", file |-> f, match |-> {}, note |-> {}, keep |-> TRUE]
           read == [act |-> "look", file |-> "dataset", match |-> {"sealed"}, note |-> {},
                    keep |-> TRUE]
           format ==
             [act |-> "format", file |-> "dataset", match |-> {}, note |-> {}, keep |-> FALSE]
<1>1. /\ \A f \in {"weights", "tokenizer", "adapter"} :
            sight(f) \in Prepared /\ kept(f) \in Prepared
      /\ read \in Prepared /\ format \in Prepared
  BY DEF Prepared, StepType, Run!Books, Run!Files
<1>2. Run!ModelDirectory({"sealed"}, {}) = <<sight("weights"), sight("tokenizer")>>
  BY DEF Run!ModelDirectory, Run!Look
<1>3. Run!Rows = <<read, kept("tokenizer"), format>>
  BY DEF Run!Rows, Run!Step, Run!Read, Run!Load
<1>4. /\ Run!Load("weights") = kept("weights") /\ Run!Load("tokenizer") = kept("tokenizer")
      /\ Run!Load("adapter") = kept("adapter") /\ Run!Verify("adapter") = sight("adapter")
  BY DEF Run!Load, Run!Read, Run!Verify, Run!Look
<1>5. Verifies(sight("weights"), "weights") /\ Verifies(sight("tokenizer"), "tokenizer")
        /\ \A f \in Inputs : Retains(kept(f), f)
  BY DEF Verifies, Retains
<1>6. /\ Retains(read, "dataset")
      /\ \A f : ~Retains(sight("weights"), f) /\ ~Retains(sight("tokenizer"), f)
        /\ (Retains(kept("weights"), f) => f = "weights")
  BY DEF Retains
<1> HIDE DEF sight, kept, read, format
<1>7. <<sight("weights"), sight("tokenizer")>> \in Seq(Prepared)
        /\ <<kept("weights")>> \in Seq(Prepared) /\ <<kept("tokenizer")>> \in Seq(Prepared)
        /\ <<sight("adapter"), kept("adapter")>> \in Seq(Prepared)
        /\ <<read, kept("tokenizer"), format>> \in Seq(Prepared)
  BY <1>1
<1>8. Run!LoadModel = <<kept("weights"), sight("weights"), sight("tokenizer")>>
  <2>1. /\ <<kept("weights")>> \o <<sight("weights"), sight("tokenizer")>> \in Seq(Prepared)
        /\ Len(<<kept("weights")>> \o <<sight("weights"), sight("tokenizer")>>) = 3
        /\ \A i \in 1..3 : (<<kept("weights")>> \o <<sight("weights"), sight("tokenizer")>>)[i]
                            = <<kept("weights"), sight("weights"), sight("tokenizer")>>[i]
    BY <1>7
  <2>2. <<kept("weights"), sight("weights"), sight("tokenizer")>> \in Seq(Prepared)
    BY <1>1
  <2>3. <<kept("weights")>> \o <<sight("weights"), sight("tokenizer")>>
          = <<kept("weights"), sight("weights"), sight("tokenizer")>>
    BY <2>1, <2>2, SeqEqual
  <2> QED BY <2>3, <1>2, <1>4 DEF Run!LoadModel, Run!AfterLoad
<1>9. /\ Run!Admission \in Seq(Prepared) /\ Run!Rows \in Seq(Prepared)
      /\ Run!LoadModel \in Seq(Prepared)
  <2>1. \A x, y \in Seq(Prepared) : x \o y \in Seq(Prepared)
    OBVIOUS
  <2> QED BY <2>1, <1>2, <1>3, <1>4, <1>7 DEF Run!Admission, Run!LoadModel, Run!AfterLoad
<1>10. Run!RewardModel \in Seq(Prepared)
  BY <1>4, <1>7, <1>9 DEF Run!RewardModel
<1>11. Holding(Run!Rows, "dataset") /\ Holding(Run!Rows, "tokenizer")
  <2>1. Len(Run!Rows) = 3 /\ Run!Rows[1] = read /\ Run!Rows[2] = kept("tokenizer")
    BY <1>3
  <2> QED BY <2>1, <1>5, <1>6 DEF Holding, Inputs
<1>12. /\ Len(Run!LoadModel) = 3 /\ Run!LoadModel[1] = kept("weights")
       /\ Run!LoadModel[2] = sight("weights") /\ Run!LoadModel[3] = sight("tokenizer")
  BY <1>8
<1>13. Holding(Run!LoadModel, "weights")
  BY <1>5, <1>12 DEF Holding, Inputs
<1>14. ASSUME NEW f \in {"weights", "tokenizer"}
       PROVE  Checked(Run!LoadModel, f)
                /\ \E j \in 1..Len(Run!LoadModel) : Verifies(Run!LoadModel[j], f)
  <2>1. Verifies(Run!LoadModel[2], "weights") /\ Verifies(Run!LoadModel[3], "tokenizer")
    BY <1>5, <1>12
  <2>2. \A i \in 1..3 : Retains(Run!LoadModel[i], f) => i = 1 /\ f = "weights"
    BY <1>6, <1>12
  <2>3. Checked(Run!LoadModel, f)
    <3> SUFFICES ASSUME NEW i \in 1..3, Retains(Run!LoadModel[i], f)
                 PROVE  VerifiedFrom(Run!LoadModel, i, 3, f)
      BY <1>12 DEF Checked
    <3> QED BY <2>1, <2>2 DEF VerifiedFrom
  <2> QED BY <1>12, <2>1, <2>3
<1> QED BY <1>9, <1>10, <1>11, <1>13, <1>14

\* Pieces of what a run does from its training on.
LEMMA OutputPieces ==
  /\ Run!Trains \in Seq(Done) /\ Run!Save \in Seq(Done) /\ Run!Propose \in Seq(Saved)
  /\ Run!ReloadVerify \in Seq(Saved)
  /\ \A l \in Run!Lanes :
       Run!Record(l) \in Seq(Saved) /\ Run!AdmitTerminalSuccess(l) \in Seq(Saved)
  /\ Run!ValidateAdapter({}, {"proposed"}) \in Seq(Saved)
<1>1. \A f \in Run!Files, m \in SUBSET Run!Books, n \in SUBSET {"proposed", "recorded"} :
        Run!Look(f, m, n) \in Saved
  BY DEF Saved, Done, StepType, Run!Look, Run!Books
<1>2. Run!Step("train", "export") \in Done /\ Run!Step("save", "export") \in Done
        /\ Run!Step("save", "config") \in Done
  BY DEF Saved, Done, StepType, Run!Step, Run!Books, Run!Files
<1>3. {"export", "config"} \subseteq Run!Files
  BY DEF Run!Files
<1>4. \A m \in SUBSET Run!Books, n \in SUBSET {"proposed", "recorded"} :
        Run!Look("export", m, n) \in Saved /\ Run!Look("config", m, n) \in Saved
  BY <1>1, <1>3
<1>5. /\ {} \in SUBSET {"proposed", "recorded"}
      /\ {"proposed"} \in SUBSET {"proposed", "recorded"}
      /\ {"recorded"} \in SUBSET {"proposed", "recorded"}
      /\ \A B \in SUBSET {"proposed", "recorded"} : B \in SUBSET Run!Books
  BY DEF Run!Books
<1>6. \A x, y \in Seq(Saved) : x \o y \in Seq(Saved)
  OBVIOUS
<1>7. \A x, y, z \in Saved :
        <<x>> \in Seq(Saved) /\ <<x, y>> \in Seq(Saved) /\ <<x, y, z>> \in Seq(Saved)
  OBVIOUS
<1>8. <<>> \in Seq(Saved)
  OBVIOUS
<1>9. /\ Run!Trains \in Seq(Done) /\ Run!Save \in Seq(Done) /\ Run!Propose \in Seq(Saved)
      /\ Run!ReloadVerify \in Seq(Saved)
  <2>1. Run!Trains \in Seq(Done) /\ Run!Save \in Seq(Done)
    BY <1>2 DEF Run!Trains, Run!Save
  <2>2. Run!Propose \in Seq(Saved)
    BY <1>4, <1>5, <1>7 DEF Run!Propose
  <2>3. {"trained"} \in SUBSET Run!Books /\ {"proposed"} \in SUBSET Run!Books
    BY DEF Run!Books
  <2>4. Run!ReloadVerify \in Seq(Saved)
    BY <1>4, <1>5, <1>7, <2>3 DEF Run!ReloadVerify
  <2> QED BY <2>1, <2>2, <2>4
<1>10. \A l \in Run!Lanes : Run!Record(l) \in Seq(Saved)
  <2>1. <<Run!Look("export", {}, {"recorded"})>> \in Seq(Saved)
          /\ <<Run!Look("config", {}, {"recorded"})>> \in Seq(Saved)
    BY <1>4, <1>5, <1>7
  <2> QED BY <2>1, <1>6, <1>8 DEF Run!Record
<1>11. \A m, n \in SUBSET {"proposed"} : Run!ValidateAdapter(m, n) \in Seq(Saved)
  <2> SUFFICES ASSUME NEW m \in SUBSET {"proposed"}, NEW n \in SUBSET {"proposed"}
               PROVE  Run!ValidateAdapter(m, n) \in Seq(Saved)
    OBVIOUS
  <2>1. /\ {"trained"} \cup m \in SUBSET Run!Books
        /\ {"trained", "recorded"} \cup m \in SUBSET Run!Books
        /\ {"recorded"} \in SUBSET Run!Books /\ n \in SUBSET {"proposed", "recorded"}
    BY DEF Run!Books
  <2> QED BY <2>1, <1>4, <1>5, <1>7 DEF Run!ValidateAdapter
<1>12. \A l \in Run!Lanes : Run!AdmitTerminalSuccess(l) \in Seq(Saved)
  <2> SUFFICES ASSUME NEW l \in Run!Lanes PROVE Run!AdmitTerminalSuccess(l) \in Seq(Saved)
    OBVIOUS
  <2>1. Run!ValidateAdapter({"proposed"}, {}) \in Seq(Saved)
    BY <1>11
  <2>2. /\ {"recorded"} \in SUBSET Run!Books /\ {"proposed", "trained"} \in SUBSET Run!Books
        /\ {"recorded", "proposed"} \in SUBSET Run!Books /\ {"proposed"} \in SUBSET Run!Books
    BY DEF Run!Books
  <2>3. <<Run!Look("export", {"recorded"}, {})>> \in Seq(Saved)
    BY <2>2, <1>4, <1>5, <1>7
  <2>4. <<Run!Look("config", IF l \in Run!AdapterLanes THEN {"recorded", "proposed"}
                            ELSE {"proposed"}, {}),
          Run!Look("export", {"proposed", "trained"}, {})>> \in Seq(Saved)
    BY <2>2, <1>4, <1>5, <1>7
  <2> QED BY <2>1, <2>3, <2>4, <1>6 DEF Run!AdmitTerminalSuccess
<1>13. Run!ValidateAdapter({}, {"proposed"}) \in Seq(Saved)
  BY <1>11
<1> QED BY <1>9, <1>10, <1>12, <1>13

\* What follows the training keeps nothing in memory, and writes in no book of the plan.
LEMMA DonePieces ==
  /\ Run!Trains \in Seq(Done) /\ Run!Save \in Seq(Done) /\ Run!Propose \in Seq(Done)
  /\ Run!ReloadVerify \in Seq(Done)
  /\ \A l \in Run!Lanes : Run!Record(l) \in Seq(Done) /\ Run!AdmitTerminalSuccess(l) \in Seq(Done)
  /\ Run!ValidateAdapter({}, {"proposed"}) \in Seq(Done)
<1>1. \A t \in Seq(Saved) : t \in Seq(Done)
  BY StepKinds
<1> QED BY <1>1, OutputPieces

\* The inputs of every lane but pretraining, read and compared before it trains.
LEMMA InputsShape ==
  LET own == (Run!Admission \o Run!Rows) \o Run!LoadModel
      reward == ((Run!Admission \o Run!Rows) \o Run!RewardModel) \o Run!LoadModel
  IN  \A bk \in {own, reward} : Shape(bk, 0, Len(bk))
<1>1. ASSUME NEW x \in Seq(Prepared), Holding(x, "dataset"), Holding(x, "tokenizer")
      PROVE  Shape(x \o Run!LoadModel, 0, Len(x \o Run!LoadModel))
  <2>1. /\ x \o Run!LoadModel \in Seq(Prepared) /\ x \in Seq(StepType)
        /\ Run!LoadModel \in Seq(StepType) /\ Run!LoadModel \in Seq(Prepared)
    BY InputPieces, StepKinds
  <2>2. Checked(x \o Run!LoadModel, "weights") /\ Checked(x \o Run!LoadModel, "tokenizer")
    BY <2>1, InputPieces, CheckedAfter
  <2>3. \A f \in Inputs : Holding(x \o Run!LoadModel, f)
    BY <1>1, <2>1, InputPieces, HoldingJoined DEF Inputs
  <2> QED BY <2>1, <2>2, <2>3, ShapeBegins
<1>2. Run!Admission \in Seq(StepType) /\ Run!Rows \in Seq(StepType)
        /\ Run!RewardModel \in Seq(StepType)
  BY InputPieces, StepKinds
<1>3. \A f \in {"dataset", "tokenizer"} : Holding(Run!Admission \o Run!Rows, f)
  BY <1>2, InputPieces, HoldingJoined
<1>4. Run!Admission \o Run!Rows \in Seq(Prepared) /\ Run!Admission \o Run!Rows \in Seq(StepType)
        /\ (Run!Admission \o Run!Rows) \o Run!RewardModel \in Seq(Prepared)
  <2>1. \A x, y \in Seq(Prepared) : x \o y \in Seq(Prepared)
    OBVIOUS
  <2>2. \A x, y \in Seq(StepType) : x \o y \in Seq(StepType)
    OBVIOUS
  <2> QED BY <2>1, <2>2, <1>2, InputPieces
<1>5. \A f \in {"dataset", "tokenizer"} :
        Holding((Run!Admission \o Run!Rows) \o Run!RewardModel, f)
  BY <1>2, <1>3, <1>4, HoldingJoined
<1> QED BY <1>1, <1>3, <1>4, <1>5

\* Every lane but pretraining compares what it reads with its plan before it trains.
LEMMA ProgramShape ==
  ASSUME NEW l \in Run!Lanes \ {"pretraining"}, NEW s \in BOOLEAN
  PROVE  \E m, n \in Nat : Shape(Run!ProgramOf[l][s], m, n)
<1> DEFINE own == (Run!Admission \o Run!Rows) \o Run!LoadModel
           reward == ((Run!Admission \o Run!Rows) \o Run!RewardModel) \o Run!LoadModel
<1>1. Shape(own, 0, Len(own)) /\ Shape(reward, 0, Len(reward))
  BY InputsShape
<1>2. \E n \in Nat : Shape(Run!LaneRun[l], 0, n)
  <2>1. \A bk, t, n : Shape(bk, 0, n) /\ t \in Seq(Done) => Shape(bk \o t, 0, n)
    BY ShapeGoesOn
  <2>2. CASE l = "training"
    <3>1. Run!LaneRun[l] = ((((own \o Run!Trains) \o Run!Save) \o Run!Record("training"))
                              \o Run!ValidateAdapter({}, {"proposed"}))
      BY <2>2 DEF Run!LaneRun, Run!TrainingLane
    <3>2. Run!Record("training") \in Seq(Done) /\ Len(own) \in Nat
      BY <1>1, DonePieces DEF Run!Lanes, Shape
    <3> HIDE DEF own
    <3> QED BY <1>1, <2>1, <3>1, <3>2, DonePieces
  <2>3. ASSUME NEW bk, Len(bk) \in Nat, Shape(bk, 0, Len(bk))
        PROVE  Shape(Run!Runner(l, bk), 0, Len(bk))
    BY <2>3, <2>1, DonePieces DEF Run!Runner
  <2>4. CASE l = "rollout"
    <3>1. Run!LaneRun[l] = Run!Runner(l, reward)
      BY <2>4 DEF Run!LaneRun, Run!RolloutLane
    <3>2. Len(reward) \in Nat
      BY <1>1 DEF Shape
    <3> HIDE DEF reward
    <3> QED BY <1>1, <2>3, <3>1, <3>2
  <2>5. CASE l \in {"full_finetune", "preference", "reward"}
    <3>1. Run!LaneRun[l] = Run!Runner(l, own)
      BY <2>5 DEF Run!LaneRun, Run!FullFinetuneLane, Run!PreferenceLane, Run!RewardLane
    <3>2. Len(own) \in Nat
      BY <1>1 DEF Shape
    <3> HIDE DEF own
    <3> QED BY <1>1, <2>3, <3>1, <3>2
  <2> QED BY <2>2, <2>4, <2>5 DEF Run!Lanes
<1>3. PICK n \in Nat : Shape(Run!LaneRun[l], 0, n)
  BY <1>2
<1> DEFINE pre == Run!Planning(l)
<1>4. Len(pre) \in Nat /\ Shape(pre \o Run!LaneRun[l], Len(pre), Len(pre) + n)
  BY <1>3, PlanningPlans, ShapePlanned
<1>5. Shape((pre \o Run!LaneRun[l]) \o Run!AdmitTerminalSuccess(l), Len(pre), Len(pre) + n)
  BY <1>4, DonePieces, ShapeGoesOn
<1>6. Run!LaneRun[l] \in Seq(StepType) /\ pre \in Seq(StepType)
  BY <1>3, PlanningPlans, StepKinds DEF Shape
<1>7. (pre \o Run!LaneRun[l]) \o <<>> = pre \o Run!LaneRun[l]
  BY <1>6
<1>8. Len(pre) + n \in Nat
  BY <1>4
<1>9. Run!ProgramOf[l][s] =
        (pre \o Run!LaneRun[l]) \o (IF s THEN Run!AdmitTerminalSuccess(l) ELSE <<>>)
  BY DEF Run!ProgramOf
<1> HIDE DEF pre
<1> QED BY <1>4, <1>5, <1>7, <1>8, <1>9

-----------------------------------------------------------------------------
(* A run that trains *)

\* What is held of a file is what was sealed, or somebody put that back, or it differs and the
\* comparison is still to come.
Pending(f, n) ==
  \A c \in consumed[f] :
    \/ c = digests["sealed"][f] \/ f \in restored
    \/ disk[f] # digests["sealed"][f] /\ VerifiedFrom(Run!Program, at, n, f)

\* A program that plans up to m and takes its inputs up to n.
TrainingInv(m, n) ==
  /\ at <= m + 1 => \A f \in Run!Files : consumed[f] = {}
  /\ \A c \in consumed["dataset"] : c = digests["sealed"]["dataset"]
  /\ \A f \in {"weights", "tokenizer"} : Pending(f, n)
  /\ \A i \in 1..(at - 1) : \A f \in Inputs :
       Retains(Run!Program[i], f) => consumed[f] # {}

SealedInv ==
  lane # "pretraining" =>
    \E m, n \in Nat : Shape(Run!Program, m, n) /\ TrainingInv(m, n)

\* The program of every lane is made of such steps.
LEMMA ProgramTyped ==
  \A l \in Run!Lanes : \A s \in BOOLEAN : Run!ProgramOf[l][s] \in Seq(StepType)
<1> SUFFICES ASSUME NEW l \in Run!Lanes, NEW s \in BOOLEAN
             PROVE  Run!ProgramOf[l][s] \in Seq(StepType)
  OBVIOUS
<1>1. CASE l # "pretraining"
  BY <1>1, ProgramShape DEF Shape
<1>2. CASE l = "pretraining"
  <2>1. \A x, y \in Seq(StepType) : x \o y \in Seq(StepType)
    OBVIOUS
  <2>2. /\ Run!Load("dataset") \in StepType /\ Run!Load("tokenizer") \in StepType
        /\ Run!Verify("tokenizer") \in StepType /\ Run!Load("weights") \in StepType
    BY DEF StepType, Run!Books, Run!Files, Run!Load, Run!Read, Run!Verify, Run!Look
  <2>3. Run!Corpus \in Seq(StepType)
    BY <2>2 DEF Run!Corpus
  <2>4. /\ Run!Trains \in Seq(StepType) /\ Run!Save \in Seq(StepType)
        /\ Run!Propose \in Seq(StepType) /\ Run!Record(l) \in Seq(StepType)
        /\ Run!ReloadVerify \in Seq(StepType) /\ Run!AdmitTerminalSuccess(l) \in Seq(StepType)
        /\ Run!Planning(l) \in Seq(StepType)
    BY DonePieces, PlanningPlans, StepKinds
  <2>5. Run!Runner(l, Run!Corpus) \in Seq(StepType)
    BY <2>1, <2>3, <2>4 DEF Run!Runner
  <2>6. Run!LaneRun[l] = Run!Runner(l, Run!Corpus)
    BY <1>2 DEF Run!LaneRun, Run!PretrainingLane
  <2>7. <<>> \in Seq(StepType)
    OBVIOUS
  <2>8. Run!ProgramOf[l][s] =
          (Run!Planning(l) \o Run!LaneRun[l]) \o (IF s THEN Run!AdmitTerminalSuccess(l) ELSE <<>>)
    BY DEF Run!ProgramOf
  <2> QED BY <2>1, <2>4, <2>5, <2>6, <2>7, <2>8
<1> QED BY <1>1, <1>2

\* The step that comes next is one of the program.
LEMMA HereTyped ==
  ASSUME Run!TypeOK, Run!Running
  PROVE  /\ Run!Program \in Seq(StepType) /\ at \in 1..Len(Run!Program)
         /\ Run!Here \in StepType /\ at + 1 \in 1..(Len(Run!Program) + 1)
<1>1. Run!Program \in Seq(StepType)
  BY ProgramTyped DEF Run!TypeOK, Run!Program
<1> QED BY <1>1 DEF Run!TypeOK, Run!Running, Run!Here

\* A run begins with its types.
LEMMA RunTypeInitially == Run!Init => Run!TypeOK
<1> SUFFICES ASSUME Run!Init PROVE Run!TypeOK
  OBVIOUS
<1>1. Run!Program \in Seq(StepType)
  BY ProgramTyped DEF Run!Init, Run!Program
<1>2. at \in 1..(Len(Run!Program) + 1)
  BY <1>1 DEF Run!Init
<1> QED BY <1>2, MCRun DEF Run!RunAssumption, Run!Init, Run!TypeOK

\* Every step of a run keeps the types.
LEMMA RunTypeKept == ASSUME Run!TypeOK, Run!Next PROVE Run!TypeOK'
<1> USE DEF Run!TypeOK
<1>1. /\ lane' = lane /\ supervised' = supervised /\ permit' = permit /\ lossy' = lossy
      /\ Run!Program' = Run!Program
  BY DEF Run!Next, Run!LookAtFile, Run!Assess, Run!Format, Run!Train, Run!SaveFile, Run!Succeed,
         Run!Fails, Run!Change, Run!End, Run!Advance, Run!choices, Run!Program
<1>2. ASSUME NEW how \in {"unplanned", "changed", "unrenderable", "failed", "succeeded"},
             Run!End(how)
      PROVE  Run!TypeOK'
  BY <1>1, <1>2 DEF Run!End, Run!others
<1>3. ASSUME Run!Advance, Run!Running,
             disk' \in [Run!Files -> FileContents],
             digests' \in [Run!Books -> [Run!Files -> FileContents \cup {None}]],
             verdict' \in FileContents \cup {None},
             consumed' \in [Run!Files -> SUBSET FileContents]
      PROVE  Run!TypeOK'
  BY <1>1, <1>3, HereTyped DEF Run!Advance, Run!others
<1>4. CASE Run!LookAtFile
  <2>1. /\ Run!Running /\ Run!Here \in StepType /\ Run!Here.file \in Run!Files
        /\ Run!Content \in FileContents
    BY <1>4, HereTyped DEF Run!LookAtFile, Run!Is, StepType, Run!Content
  <2>2. CASE Run!End("changed")
    BY <1>2, <2>2
  <2>3. CASE ~Run!End("changed")
    <3>1. digests' \in [Run!Books -> [Run!Files -> FileContents \cup {None}]]
      BY <1>4, <2>1, <2>3 DEF Run!LookAtFile
    <3>2. consumed' \in [Run!Files -> SUBSET FileContents]
      BY <1>4, <2>1, <2>3 DEF Run!LookAtFile
    <3>3. Run!Advance /\ disk' = disk /\ verdict' = verdict
      BY <1>4, <2>3 DEF Run!LookAtFile
    <3> QED BY <1>3, <2>1, <3>1, <3>2, <3>3
  <2> QED BY <2>2, <2>3
<1>5. CASE Run!Assess
  <2>1. Run!Running /\ Run!Here \in StepType /\ Run!Content \in FileContents
    BY <1>5, HereTyped DEF Run!Assess, Run!Is, StepType, Run!Content
  <2> QED BY <1>2, <1>3, <1>5, <2>1 DEF Run!Assess
<1>6. CASE Run!Format \/ Run!Train
  BY <1>2, <1>3, <1>6 DEF Run!Format, Run!Train, Run!Is
<1>7. CASE Run!SaveFile
  <2>1. Run!Running /\ Run!Here \in StepType /\ Run!Here.file \in Run!Files
    BY <1>7, HereTyped DEF Run!SaveFile, Run!Is, StepType
  <2>2. TrainedBytes \in FileContents /\ "trained" \in Run!Books
    BY MCRun DEF Run!RunAssumption, Run!Books
  <2>3. disk' \in [Run!Files -> FileContents]
          /\ digests' \in [Run!Books -> [Run!Files -> FileContents \cup {None}]]
    BY <1>7, <2>1, <2>2 DEF Run!SaveFile
  <2> QED BY <1>3, <1>7, <2>1, <2>3 DEF Run!SaveFile
<1>8. CASE Run!Succeed \/ Run!Fails
  BY <1>2, <1>8 DEF Run!Succeed, Run!Fails
<1>9. CASE Run!Change
  <2>1. PICK f \in Run!Files : \E c \in FileContents \ {disk[f]} :
          /\ disk' = [disk EXCEPT ![f] = c]
          /\ restored' = restored \cup
               {g \in {f} : digests["sealed"][g] = c \/ digests["trained"][g] = c}
    BY <1>9 DEF Run!Change
  <2>2. disk' \in [Run!Files -> FileContents] /\ restored' \subseteq Run!Files
    BY <2>1
  <2>3. changes' \in 0..MaxChanges
    BY <1>9, MCRun DEF Run!RunAssumption, Run!Change
  <2> QED BY <1>1, <1>9, <2>2, <2>3 DEF Run!Change
<1> QED BY <1>4, <1>5, <1>6, <1>7, <1>8, <1>9 DEF Run!Next

\* Steps that leave the run's books and what it holds, and either move on or stop.
LEMMA QuietStep ==
  ASSUME Run!TypeOK, Run!Program' = Run!Program, NEW m \in Nat, NEW n \in Nat,
         Shape(Run!Program, m, n), TrainingInv(m, n), UNCHANGED consumed,
         \A f \in Inputs : digests'["sealed"][f] = digests["sealed"][f],
         \/ at' = at
         \/ at' = at + 1 /\ Run!Running /\ Run!Here.act # "look",
         \A f \in {"weights", "tokenizer"} :
           /\ f \in restored => f \in restored'
           /\ disk'[f] = disk[f] \/ disk'[f] # digests["sealed"][f] \/ f \in restored'
  PROVE  TrainingInv(m, n)'
<1>1. at \in Nat /\ at' \in Nat /\ at' >= at /\ (at' = at \/ at' = at + 1)
  BY DEF Run!TypeOK
<1>2. at' <= m + 1 => \A f \in Run!Files : consumed'[f] = {}
  BY <1>1 DEF TrainingInv
<1>3. \A f \in {"weights", "tokenizer"} : Pending(f, n)'
  <2> SUFFICES ASSUME NEW f \in {"weights", "tokenizer"}, NEW c \in consumed[f],
                      c # digests["sealed"][f], f \notin restored'
               PROVE  disk'[f] # digests["sealed"][f] /\ VerifiedFrom(Run!Program, at', n, f)
    BY DEF Pending, Inputs
  <2>1. disk[f] # digests["sealed"][f] /\ VerifiedFrom(Run!Program, at, n, f)
    BY DEF TrainingInv, Pending
  <2>2. disk'[f] # digests["sealed"][f]
    BY <2>1
  <2>3. PICK j \in at..n : Verifies(Run!Program[j], f)
    BY <2>1 DEF VerifiedFrom
  <2>4. j \in at'..n
    BY <1>1, <2>3 DEF Verifies, Run!Here
  <2> QED BY <2>2, <2>3, <2>4 DEF VerifiedFrom
<1>4. \A i \in 1..(at' - 1) : \A f \in Inputs :
        Retains(Run!Program[i], f) => consumed'[f] # {}
  <2> SUFFICES ASSUME NEW i \in 1..(at' - 1), NEW f \in Inputs, Retains(Run!Program[i], f)
               PROVE  consumed[f] # {}
    OBVIOUS
  <2>1. at' = at + 1 => i # at
    BY DEF Retains, Run!Here
  <2>2. \A x, y \in Nat : \A k \in 1..(y - 1) :
          (y = x \/ (y = x + 1 /\ k # x)) => k \in 1..(x - 1)
    OBVIOUS
  <2>3. i \in 1..(at - 1)
    BY <1>1, <2>1, <2>2
  <2> QED BY <2>3 DEF TrainingInv
<1>5. \A c \in consumed'["dataset"] : c = digests'["sealed"]["dataset"]
  BY DEF TrainingInv, Inputs
<1> QED BY <1>2, <1>3, <1>4, <1>5 DEF TrainingInv

\* A look at a file: its content is noted, or kept, or compared with what is noted.
LEMMA LookStep ==
  ASSUME Run!TypeOK, Run!Program' = Run!Program, NEW m \in Nat, NEW n \in Nat,
         Shape(Run!Program, m, n), TrainingInv(m, n), Run!LookAtFile, ~Run!End("changed")
  PROVE  TrainingInv(m, n)'
<1> DEFINE x == Run!Program[at]
<1>1. /\ Run!Running /\ x \in StepType /\ x.act = "look" /\ x.file \in Run!Files
      /\ \A bk \in x.match : digests[bk][x.file] = disk[x.file]
      /\ \A bk \in Run!Books : \A f \in Run!Files :
           digests'[bk][f] = IF bk \in x.note /\ f = x.file THEN disk[f] ELSE digests[bk][f]
      /\ \A f \in Run!Files :
           consumed'[f] = IF x.keep /\ f = x.file THEN consumed[f] \cup {disk[f]} ELSE consumed[f]
      /\ at' = at + 1 /\ disk' = disk /\ restored' = restored
  <2>1. Run!Running /\ x \in StepType
    BY HereTyped DEF Run!LookAtFile, Run!Is, Run!Here
  <2>2. x.act = "look" /\ x.file \in Run!Files
    BY <2>1 DEF Run!LookAtFile, Run!Is, StepType, Run!Here
  <2>3. ~\E bk \in x.match : digests[bk][x.file] # disk[x.file]
    BY DEF Run!LookAtFile, Run!Here, Run!Content
  <2>4. /\ digests' = [bk \in Run!Books |->
             IF bk \in x.note THEN [digests[bk] EXCEPT ![x.file] = disk[x.file]] ELSE digests[bk]]
        /\ consumed' = IF x.keep THEN [consumed EXCEPT ![x.file] = @ \cup {disk[x.file]}]
                       ELSE consumed
        /\ at' = at + 1 /\ disk' = disk /\ restored' = restored
    BY <2>3 DEF Run!LookAtFile, Run!Here, Run!Content, Run!Advance, Run!others
  <2>5. \A bk \in Run!Books : \A f \in Run!Files :
          digests'[bk][f] = IF bk \in x.note /\ f = x.file THEN disk[f] ELSE digests[bk][f]
    BY <2>2, <2>4 DEF Run!TypeOK
  <2>6. \A f \in Run!Files :
          consumed'[f] = IF x.keep /\ f = x.file THEN consumed[f] \cup {disk[f]} ELSE consumed[f]
    BY <2>2, <2>4 DEF Run!TypeOK
  <2> QED BY <2>1, <2>2, <2>3, <2>4, <2>5, <2>6
<1>2. /\ at \in 1..Len(Run!Program) /\ "sealed" \in Run!Books /\ Inputs \subseteq Run!Files
      /\ "dataset" \in Inputs /\ {"weights", "tokenizer"} \subseteq Inputs /\ n <= Len(Run!Program)
  BY <1>1, HereTyped DEF Run!Books, Inputs, Run!Files, Shape
\* What is kept is kept after the plan and before the training; what is sealed is sealed before.
<1>3. x.keep => at \in (m + 1)..n /\ x \in Prepared
  <2>1. at \in 1..m => ~x.keep
    BY DEF Shape, Planned
  <2>2. at \in (n + 1)..Len(Run!Program) => ~x.keep
    BY DEF Shape, Done
  <2> QED BY <1>2, <2>1, <2>2 DEF Shape
<1>4. "sealed" \in x.note => at <= m
  <2>1. at \in (m + 1)..n => "sealed" \notin x.note
    BY DEF Shape, Prepared
  <2>2. at \in (n + 1)..Len(Run!Program) => "sealed" \notin x.note
    BY DEF Shape, Done
  <2> QED BY <1>2, <2>1, <2>2 DEF Shape
<1> HIDE DEF x
<1>5. \A f \in Inputs : consumed[f] # {} => digests'["sealed"][f] = digests["sealed"][f]
  BY <1>1, <1>2, <1>4 DEF TrainingInv
<1>6. at' <= m + 1 => \A f \in Run!Files : consumed'[f] = {}
  <2> SUFFICES ASSUME at' <= m + 1, NEW f \in Run!Files PROVE consumed'[f] = {}
    OBVIOUS
  <2>1. at <= m /\ at <= m + 1 /\ at \notin (m + 1)..n
    BY <1>1, <1>2
  <2>2. consumed[f] = {} /\ ~x.keep
    BY <2>1, <1>3 DEF TrainingInv
  <2> QED BY <2>2, <1>1
<1>7. \A c \in consumed'["dataset"] : c = digests'["sealed"]["dataset"]
  <2> SUFFICES ASSUME NEW c \in consumed'["dataset"] PROVE c = digests'["sealed"]["dataset"]
    OBVIOUS
  <2>1. CASE c \in consumed["dataset"]
    BY <2>1, <1>2, <1>5 DEF TrainingInv
  <2>2. CASE c \notin consumed["dataset"]
    <3>1. x.keep /\ x.file = "dataset" /\ c = disk["dataset"]
      BY <1>1, <1>2, <2>2
    <3>2. digests["sealed"]["dataset"] = c
      BY <1>1, <1>3, <3>1 DEF Prepared
    <3>3. "sealed" \notin x.note
      BY <1>3, <3>1 DEF Prepared
    <3> QED BY <1>1, <1>2, <3>2, <3>3
  <2> QED BY <2>1, <2>2
<1>8. ASSUME NEW f \in {"weights", "tokenizer"} PROVE Pending(f, n)'
  <2> SUFFICES ASSUME NEW c \in consumed'[f], c # digests'["sealed"][f], f \notin restored
               PROVE  disk[f] # digests'["sealed"][f] /\ VerifiedFrom(Run!Program, at', n, f)
    BY <1>1 DEF Pending
  <2>1. CASE c \in consumed[f]
    <3>1. digests'["sealed"][f] = digests["sealed"][f]
      BY <2>1, <1>2, <1>5
    <3>2. disk[f] # digests["sealed"][f] /\ VerifiedFrom(Run!Program, at, n, f)
      BY <2>1, <3>1 DEF TrainingInv, Pending
    <3>3. PICK j \in at..n : Verifies(Run!Program[j], f)
      BY <3>2 DEF VerifiedFrom
    <3>4. j # at
      BY <3>2, <3>3, <1>1, <1>2 DEF Verifies, x
    <3>5. j \in at'..n
      BY <3>4, <1>1, <1>2
    <3> QED BY <3>1, <3>2, <3>3, <3>5 DEF VerifiedFrom
  <2>2. CASE c \notin consumed[f]
    <3>1. x.keep /\ x.file = f /\ c = disk[f]
      BY <1>1, <1>2, <2>2
    <3>2. at \in 1..n /\ Retains(Run!Program[at], f)
      BY <1>1, <1>2, <1>3, <3>1 DEF Retains, x
    <3>3. VerifiedFrom(Run!Program, at, n, f)
      BY <3>2 DEF Shape
    <3>4. PICK j \in at..n : Verifies(Run!Program[j], f)
      BY <3>3 DEF VerifiedFrom
    <3>5. digests'["sealed"][f] = digests["sealed"][f]
      BY <1>1, <1>2, <1>3, <3>1 DEF Prepared
    <3>6. j # at
      BY <3>1, <3>4, <3>5, <1>1 DEF Verifies, x
    <3>7. j \in at'..n
      BY <3>6, <1>1, <1>2
    <3> QED BY <3>1, <3>4, <3>7 DEF VerifiedFrom
  <2> QED BY <2>1, <2>2
<1>9. \A i \in 1..(at' - 1) : \A f \in Inputs :
        Retains(Run!Program[i], f) => consumed'[f] # {}
  <2> SUFFICES ASSUME NEW i \in 1..(at' - 1), NEW f \in Inputs, Retains(Run!Program[i], f)
               PROVE  consumed'[f] # {}
    OBVIOUS
  <2>1. CASE i = at
    BY <2>1, <1>1, <1>2 DEF Retains, x
  <2>2. CASE i # at
    <3>1. i \in 1..(at - 1)
      BY <2>2, <1>1, <1>2
    <3>2. consumed[f] # {}
      BY <3>1 DEF TrainingInv
    <3> QED BY <3>2, <1>1, <1>2
  <2> QED BY <2>1, <2>2
<1> QED BY <1>6, <1>7, <1>8, <1>9 DEF TrainingInv

\* Nothing is held before a run begins.
LEMMA SealedInitially == Run!Init => SealedInv
<1> SUFFICES ASSUME Run!Init, lane # "pretraining"
             PROVE  \E m, n \in Nat : Shape(Run!Program, m, n) /\ TrainingInv(m, n)
  BY DEF SealedInv
<1>1. PICK m \in Nat, n \in Nat : Shape(Run!Program, m, n)
  BY ProgramShape DEF Run!Init, Run!Program
<1>2. TrainingInv(m, n)
  BY DEF Run!Init, TrainingInv, Pending, Inputs, Run!Files
<1> QED BY <1>1, <1>2

\* Whatever the run or somebody else does, what is held stays accounted for.
LEMMA SealedKept == ASSUME Run!TypeOK, SealedInv, Run!Next PROVE SealedInv'
<1>1. lane' = lane /\ Run!Program' = Run!Program
  BY DEF Run!Next, Run!LookAtFile, Run!Assess, Run!Format, Run!Train, Run!SaveFile, Run!Succeed,
         Run!Fails, Run!Change, Run!End, Run!Advance, Run!choices, Run!Program
<1> SUFFICES ASSUME lane # "pretraining"
             PROVE  \E m, n \in Nat : Shape(Run!Program, m, n) /\ TrainingInv(m, n)'
  BY <1>1 DEF SealedInv
<1>2. PICK m \in Nat, n \in Nat : Shape(Run!Program, m, n) /\ TrainingInv(m, n)
  BY DEF SealedInv
<1>3. ASSUME NEW how, Run!End(how) PROVE TrainingInv(m, n)'
  BY <1>1, <1>2, <1>3, QuietStep DEF Run!End, Run!others
<1>4. CASE Run!LookAtFile
  BY <1>1, <1>2, <1>3, <1>4, LookStep
<1>5. CASE Run!Assess \/ Run!Format \/ Run!Train
  BY <1>1, <1>2, <1>3, <1>5, QuietStep
     DEF Run!Assess, Run!Format, Run!Train, Run!Is, Run!Advance, Run!others
<1>6. CASE Run!SaveFile
  <2>1. Run!Running /\ Run!Here.act = "save" /\ Run!Here.file \in {"export", "config"}
    BY <1>6, HereTyped DEF Run!SaveFile, Run!Is, StepType
  <2>2. /\ at' = at + 1 /\ consumed' = consumed /\ restored' = restored
        /\ disk' = [disk EXCEPT ![Run!Here.file] = TrainedBytes]
        /\ digests'["sealed"] = digests["sealed"]
    BY <1>6 DEF Run!SaveFile, Run!Advance, Run!others, Run!TypeOK, Run!Books
  <2>3. \A f \in {"weights", "tokenizer"} : disk'[f] = disk[f]
    BY <2>1, <2>2 DEF Run!TypeOK, Run!Files
  <2>4. TrainingInv(m, n)'
    BY <1>1, <1>2, <2>1, <2>2, <2>3, QuietStep
  <2> QED BY <1>2, <2>4
<1>7. CASE Run!Succeed \/ Run!Fails
  BY <1>2, <1>3, <1>7 DEF Run!Succeed, Run!Fails
<1>8. CASE Run!Change
  <2>1. PICK f \in Run!Files : \E c \in FileContents \ {disk[f]} :
          /\ disk' = [disk EXCEPT ![f] = c]
          /\ restored' = restored \cup
               {g \in {f} : digests["sealed"][g] = c \/ digests["trained"][g] = c}
    BY <1>8 DEF Run!Change
  <2>2. UNCHANGED <<digests, consumed, at>>
    BY <1>8 DEF Run!Change
  <2>3. \A g \in {"weights", "tokenizer"} :
           /\ g \in restored => g \in restored'
           /\ disk'[g] = disk[g] \/ disk'[g] # digests["sealed"][g] \/ g \in restored'
    BY <2>1 DEF Run!TypeOK, Run!Files
  <2> QED BY <1>1, <1>2, <2>2, <2>3, QuietStep
<1> QED BY <1>2, <1>4, <1>5, <1>6, <1>7, <1>8 DEF Run!Next

\* Once it has trained, the run has compared everything.
LEMMA TrainedOnSeal == Run!TypeOK /\ SealedInv => Run!TrainsOnSeal
<1> SUFFICES ASSUME Run!TypeOK, SealedInv, Run!Started, lane # "pretraining"
             PROVE  /\ consumed["dataset"] = {digests["sealed"]["dataset"]}
                    /\ \A f \in {"weights", "tokenizer"} :
                         f \in restored \/ consumed[f] = {digests["sealed"][f]}
  BY DEF Run!TrainsOnSeal
<1>1. PICK m \in Nat, n \in Nat : Shape(Run!Program, m, n) /\ TrainingInv(m, n)
  BY DEF SealedInv
<1>2. PICK i \in 1..(at - 1) : Run!Program[i].act = "train"
  BY DEF Run!Started
<1>3. i > n
  <2>1. \A k \in 1..m : Run!Program[k].act # "train"
    BY <1>1 DEF Shape, Planned
  <2>2. \A k \in (m + 1)..n : Run!Program[k].act # "train"
    BY <1>1 DEF Shape, Prepared
  <2> QED BY <1>1, <1>2, <2>1, <2>2 DEF Shape, Run!TypeOK
<1>4. at \in Nat /\ at > n + 1
  BY <1>2, <1>3 DEF Run!TypeOK
<1>5. \A f \in Inputs : consumed[f] # {}
  <2> SUFFICES ASSUME NEW f \in Inputs PROVE consumed[f] # {}
    OBVIOUS
  <2>1. PICK k \in 1..n : Retains(Run!Program[k], f)
    BY <1>1 DEF Shape
  <2>2. k \in 1..(at - 1)
    BY <1>4
  <2> QED BY <1>1, <2>1, <2>2 DEF TrainingInv
<1>6. \A f \in {"weights", "tokenizer"} : ~VerifiedFrom(Run!Program, at, n, f)
  BY <1>4 DEF VerifiedFrom
<1>7. \A f \in {"weights", "tokenizer"} :
        f \in restored \/ \A c \in consumed[f] : c = digests["sealed"][f]
  BY <1>1, <1>6 DEF TrainingInv, Pending
<1>8. \A c \in consumed["dataset"] : c = digests["sealed"]["dataset"]
  BY <1>1 DEF TrainingInv
<1> QED BY <1>5, <1>7, <1>8 DEF Inputs

-----------------------------------------------------------------------------
(* What a success was admitted on *)

\* A step that changes what is written of a file.
Touches(x, f) == x.file = f /\ (x.note # {} \/ x.act = "save")
Untouching(f) == {x \in StepType : ~Touches(x, f)}

\* The look at j, and none after it writes of the file.
LastLook(s, j, n, f) ==
  s[j].act = "look" /\ s[j].file = f /\ \A k \in (j + 1)..n : ~Touches(s[k], f)

\* The last look that matters of a file compares these books with each other.
Compared(s, f, B) ==
  \E j \in 1..Len(s) : LastLook(s, j, Len(s), f) /\ B \subseteq s[j].match \cup s[j].note

Noted(s, f, bk) == \E j \in 1..Len(s) : s[j].act = "look" /\ s[j].file = f /\ bk \in s[j].note

\* The weights are saved once, and no output is written down before.
SavesAt(s, q) ==
  /\ s \in Seq(StepType) /\ q \in 1..Len(s) /\ s[q].act = "save" /\ s[q].file = "export"
  /\ (\A i \in 1..(q - 1) : s[i] \in Unsaved) /\ \A i \in (q + 1)..Len(s) : s[i] \in Saved

\* What the second part of a program compares last, the program does.
LEMMA ComparedJoined ==
  ASSUME NEW s \in Seq(StepType), NEW t \in Seq(StepType), NEW f, NEW B, Compared(t, f, B)
  PROVE  Compared(s \o t, f, B)
<1>1. /\ Len(s \o t) = Len(s) + Len(t) /\ Len(s) \in Nat /\ Len(t) \in Nat
      /\ \A i \in 1..Len(t) : (s \o t)[Len(s) + i] = t[i]
      /\ \A i \in (Len(s) + 1)..(Len(s) + Len(t)) :
           (s \o t)[i] = t[i - Len(s)] /\ i - Len(s) \in 1..Len(t)
  BY Joined
<1>2. PICK j \in 1..Len(t) : LastLook(t, j, Len(t), f) /\ B \subseteq t[j].match \cup t[j].note
  BY DEF Compared
<1>3. (s \o t)[Len(s) + j] = t[j] /\ Len(s) + j \in 1..Len(s \o t)
  BY <1>1
<1>4. ASSUME NEW k \in (Len(s) + j + 1)..Len(s \o t) PROVE ~Touches((s \o t)[k], f)
  <2>1. (s \o t)[k] = t[k - Len(s)] /\ k - Len(s) \in (j + 1)..Len(t)
    BY <1>1
  <2> QED BY <2>1, <1>2 DEF LastLook
<1>5. LastLook(s \o t, Len(s) + j, Len(s \o t), f)
  BY <1>2, <1>3, <1>4 DEF LastLook
<1> QED BY <1>2, <1>3, <1>5 DEF Compared

\* A comparison stays the last one when what follows does not write of the file.
LEMMA ComparedStays ==
  ASSUME NEW s \in Seq(StepType), NEW f, NEW t \in Seq(Untouching(f)), NEW B, Compared(s, f, B)
  PROVE  Compared(s \o t, f, B)
<1>1. t \in Seq(StepType)
  BY DEF Untouching
<1>2. /\ Len(s \o t) = Len(s) + Len(t) /\ Len(s) \in Nat /\ Len(t) \in Nat
      /\ \A i \in 1..Len(s) : (s \o t)[i] = s[i]
      /\ \A i \in (Len(s) + 1)..(Len(s) + Len(t)) :
           (s \o t)[i] = t[i - Len(s)] /\ i - Len(s) \in 1..Len(t)
  BY <1>1, Joined
<1>3. PICK j \in 1..Len(s) : LastLook(s, j, Len(s), f) /\ B \subseteq s[j].match \cup s[j].note
  BY DEF Compared
<1>4. (s \o t)[j] = s[j] /\ j \in 1..Len(s \o t)
  BY <1>2
<1>5. ASSUME NEW k \in (j + 1)..Len(s \o t) PROVE ~Touches((s \o t)[k], f)
  <2>1. CASE k <= Len(s)
    <3>1. k \in (j + 1)..Len(s) /\ k \in 1..Len(s)
      BY <2>1, <1>2
    <3> QED BY <3>1, <1>2, <1>3 DEF LastLook
  <2>2. CASE k > Len(s)
    <3>1. (s \o t)[k] = t[k - Len(s)] /\ k - Len(s) \in 1..Len(t)
      BY <2>2, <1>2
    <3>2. t[k - Len(s)] \in Untouching(f)
      BY <3>1
    <3> QED BY <3>1, <3>2 DEF Untouching
  <2> QED BY <2>1, <2>2, <1>2
<1>6. LastLook(s \o t, j, Len(s \o t), f)
  BY <1>3, <1>4, <1>5 DEF LastLook
<1> QED BY <1>3, <1>4, <1>6 DEF Compared

\* What a part of a program writes down, the program does.
LEMMA NotedJoined ==
  ASSUME NEW s \in Seq(StepType), NEW t \in Seq(StepType), NEW f, NEW bk,
         Noted(s, f, bk) \/ Noted(t, f, bk)
  PROVE  Noted(s \o t, f, bk)
<1>1. /\ Len(s \o t) = Len(s) + Len(t) /\ Len(s) \in Nat /\ Len(t) \in Nat
      /\ \A i \in 1..Len(s) : (s \o t)[i] = s[i]
      /\ \A i \in 1..Len(t) : (s \o t)[Len(s) + i] = t[i]
  BY Joined
<1>2. CASE Noted(s, f, bk)
  <2>1. PICK i \in 1..Len(s) : s[i].act = "look" /\ s[i].file = f /\ bk \in s[i].note
    BY <1>2 DEF Noted
  <2>2. i \in 1..Len(s \o t) /\ (s \o t)[i] = s[i]
    BY <1>1
  <2> QED BY <2>1, <2>2 DEF Noted
<1>3. CASE Noted(t, f, bk)
  <2>1. PICK i \in 1..Len(t) : t[i].act = "look" /\ t[i].file = f /\ bk \in t[i].note
    BY <1>3 DEF Noted
  <2>2. Len(s) + i \in 1..Len(s \o t) /\ (s \o t)[Len(s) + i] = t[i]
    BY <1>1
  <2> QED BY <2>1, <2>2 DEF Noted
<1> QED BY <1>2, <1>3

\* After what saves nothing, saving begins with the weights.
LEMMA SavesBegin ==
  ASSUME NEW s \in Seq(Unsaved)
  PROVE  SavesAt(s \o Run!Save, Len(s) + 1)
<1>1. s \in Seq(StepType) /\ Run!Save \in Seq(StepType)
  BY OutputPieces, StepKinds
<1>2. /\ Len(Run!Save) = 2 /\ Run!Save[1] = Run!Step("save", "export")
      /\ Run!Save[2] = Run!Step("save", "config")
  BY DEF Run!Save
<1>3. /\ s \o Run!Save \in Seq(StepType) /\ Len(s \o Run!Save) = Len(s) + 2 /\ Len(s) \in Nat
      /\ \A i \in 1..Len(s) : (s \o Run!Save)[i] = s[i] /\ s[i] \in Unsaved
      /\ (s \o Run!Save)[Len(s) + 1] = Run!Save[1]
      /\ (s \o Run!Save)[Len(s) + 2] = Run!Save[2]
  <2>1. /\ s \o Run!Save \in Seq(StepType) /\ Len(s \o Run!Save) = Len(s) + Len(Run!Save)
        /\ Len(s) \in Nat /\ \A i \in 1..Len(s) : (s \o Run!Save)[i] = s[i]
        /\ \A i \in 1..Len(Run!Save) : (s \o Run!Save)[Len(s) + i] = Run!Save[i]
    BY <1>1, Joined
  <2>2. 1 \in 1..Len(Run!Save) /\ 2 \in 1..Len(Run!Save)
    BY <1>2
  <2>3. \A i \in 1..Len(s) : s[i] \in Unsaved
    OBVIOUS
  <2> QED BY <1>2, <2>1, <2>2, <2>3
<1>4. Run!Save[2] \in Saved
  BY <1>2 DEF Saved, Done, StepType, Run!Step, Run!Books, Run!Files
<1>5. Run!Save[1].act = "save" /\ Run!Save[1].file = "export"
  BY <1>2 DEF Run!Step
<1>6. \A i \in 1..(Len(s) + 1 - 1) : (s \o Run!Save)[i] \in Unsaved
  BY <1>3
<1>7. \A i \in (Len(s) + 1 + 1)..Len(s \o Run!Save) : (s \o Run!Save)[i] \in Saved
  <2>1. \A i \in (Len(s) + 1 + 1)..(Len(s) + 2) : i = Len(s) + 2
    BY <1>3
  <2> QED BY <1>3, <1>4, <2>1
<1> QED BY <1>3, <1>5, <1>6, <1>7 DEF SavesAt

\* The weights are saved once when nothing but the configuration is saved later.
LEMMA SavesGoOn ==
  ASSUME NEW s, NEW q, SavesAt(s, q), NEW t \in Seq(Saved)
  PROVE  SavesAt(s \o t, q)
<1>1. s \in Seq(StepType) /\ t \in Seq(StepType) /\ q \in 1..Len(s)
  BY StepKinds DEF SavesAt
<1>2. /\ s \o t \in Seq(StepType) /\ Len(s \o t) = Len(s) + Len(t)
      /\ Len(s) \in Nat /\ Len(t) \in Nat
      /\ \A i \in 1..Len(s) : (s \o t)[i] = s[i]
      /\ \A i \in (Len(s) + 1)..(Len(s) + Len(t)) :
           (s \o t)[i] = t[i - Len(s)] /\ i - Len(s) \in 1..Len(t)
  BY <1>1, Joined
<1>3. (s \o t)[q] = s[q] /\ q \in 1..Len(s \o t) /\ \A i \in 1..(q - 1) : (s \o t)[i] = s[i]
  BY <1>1, <1>2
<1>4. ASSUME NEW i \in (q + 1)..Len(s \o t) PROVE (s \o t)[i] \in Saved
  <2>1. CASE i <= Len(s)
    <3>1. i \in (q + 1)..Len(s) /\ i \in 1..Len(s)
      BY <2>1, <1>1, <1>2
    <3> QED BY <3>1, <1>2 DEF SavesAt
  <2>2. CASE i > Len(s)
    BY <2>2, <1>1, <1>2
  <2> QED BY <2>1, <2>2, <1>1, <1>2
<1> QED BY <1>2, <1>3, <1>4 DEF SavesAt

\* What saves nothing may go before.
LEMMA SavesPlanned ==
  ASSUME NEW s \in Seq(Unsaved), NEW t, NEW q, SavesAt(t, q)
  PROVE  SavesAt(s \o t, Len(s) + q)
<1>1. s \in Seq(StepType) /\ t \in Seq(StepType) /\ q \in 1..Len(t)
  BY StepKinds DEF SavesAt
<1>2. /\ s \o t \in Seq(StepType) /\ Len(s \o t) = Len(s) + Len(t)
      /\ Len(s) \in Nat /\ Len(t) \in Nat
      /\ \A i \in 1..Len(s) : (s \o t)[i] = s[i] /\ s[i] \in Unsaved
      /\ \A i \in 1..Len(t) : (s \o t)[Len(s) + i] = t[i]
      /\ \A i \in (Len(s) + 1)..(Len(s) + Len(t)) :
           (s \o t)[i] = t[i - Len(s)] /\ i - Len(s) \in 1..Len(t)
  BY <1>1, Joined
<1>3. (s \o t)[Len(s) + q] = t[q] /\ Len(s) + q \in 1..Len(s \o t)
  BY <1>1, <1>2
<1>4. ASSUME NEW i \in 1..(Len(s) + q - 1) PROVE (s \o t)[i] \in Unsaved
  <2>1. CASE i <= Len(s)
    BY <2>1, <1>1, <1>2
  <2>2. CASE i > Len(s)
    <3>1. (s \o t)[i] = t[i - Len(s)] /\ i - Len(s) \in 1..(q - 1)
      BY <2>2, <1>1, <1>2
    <3> QED BY <3>1 DEF SavesAt
  <2> QED BY <2>1, <2>2, <1>1, <1>2
<1>5. ASSUME NEW i \in (Len(s) + q + 1)..Len(s \o t) PROVE (s \o t)[i] \in Saved
  <2>1. (s \o t)[i] = t[i - Len(s)] /\ i - Len(s) \in (q + 1)..Len(t)
    BY <1>1, <1>2
  <2> QED BY <2>1 DEF SavesAt
<1> QED BY <1>2, <1>3, <1>4, <1>5 DEF SavesAt

\* Who looks at what is saved, in each lane and for its parent.
LEMMA AdmissionPieces ==
  /\ \A l \in Run!Lanes : Noted(Run!Record(l), "export", "recorded")
  /\ Noted(Run!Propose, "export", "proposed")
  /\ Compared(Run!ReloadVerify, "export", {"trained"})
  /\ \A f \in {"export", "config"}, l \in Run!Lanes :
        Run!AdmitTerminalSuccess(l) \in Seq(Untouching(f))
  /\ Noted(Run!ValidateAdapter({}, {"proposed"}), "export", "proposed")
  /\ Compared(Run!ValidateAdapter({}, {"proposed"}), "export", {"trained", "proposed"})
  /\ Compared(Run!ValidateAdapter({}, {"proposed"}), "config", {"trained", "recorded", "proposed"})
  /\ \A l \in Run!Lanes \ {"training"} :
       /\ Compared(Run!AdmitTerminalSuccess(l), "export", {"proposed", "trained"})
       /\ l \in Run!AdapterLanes =>
            Compared(Run!AdmitTerminalSuccess(l), "config", {"recorded", "proposed"})
<1>1. ASSUME NEW l \in Run!Lanes PROVE Noted(Run!Record(l), "export", "recorded")
  <2>1. Noted(<<Run!Look("export", {}, {"recorded"})>>, "export", "recorded")
    BY DEF Noted, Run!Look
  <2>2. <<Run!Look("export", {}, {"recorded"})>> \in Seq(StepType)
          /\ <<Run!Look("config", {}, {"recorded"})>> \in Seq(StepType) /\ <<>> \in Seq(StepType)
    BY DEF Run!Look, StepType, Run!Books, Run!Files
  <2> QED BY <2>1, <2>2, NotedJoined DEF Run!Record
<1>2. Noted(Run!Propose, "export", "proposed")
  <2>1. Len(Run!Propose) = 2 /\ Run!Propose[1] = Run!Look("export", {}, {"proposed"})
    BY DEF Run!Propose
  <2> QED BY <2>1 DEF Noted, Run!Look
<1>3. Compared(Run!ReloadVerify, "export", {"trained"})
  <2>1. Len(Run!ReloadVerify) = 3 /\ Run!ReloadVerify[3] = Run!Look("export", {"trained"}, {})
    BY DEF Run!ReloadVerify
  <2>2. LastLook(Run!ReloadVerify, 3, 3, "export")
    BY <2>1 DEF LastLook, Run!Look
  <2>3. {"trained"} \subseteq Run!ReloadVerify[3].match \cup Run!ReloadVerify[3].note
    BY <2>1 DEF Run!Look
  <2> QED BY <2>1, <2>2, <2>3 DEF Compared
<1> DEFINE V(m, n) == Run!ValidateAdapter(m, n)
<1>4. ASSUME NEW m, NEW n
      PROVE  /\ Len(V(m, n)) = 3 /\ V(m, n)[1] = Run!Look("export", {"trained"} \cup m, n)
             /\ V(m, n)[2] = Run!Look("config", {"trained", "recorded"} \cup m, n)
             /\ V(m, n)[3] = Run!Look("export", {"recorded"}, {})
  BY DEF Run!ValidateAdapter
<1>5. /\ Noted(V({}, {"proposed"}), "export", "proposed")
      /\ Compared(V({}, {"proposed"}), "export", {"trained", "proposed"})
      /\ Compared(V({}, {"proposed"}), "config", {"trained", "recorded", "proposed"})
  <2> DEFINE v == V({}, {"proposed"})
  <2>1. /\ Len(v) = 3
        /\ v[1] = [act |-> "look", file |-> "export", match |-> {"trained"} \cup {},
                    note |-> {"proposed"}, keep |-> FALSE]
        /\ v[2] = [act |-> "look", file |-> "config", match |-> {"trained", "recorded"} \cup {},
                    note |-> {"proposed"}, keep |-> FALSE]
        /\ v[3] = [act |-> "look", file |-> "export", match |-> {"recorded"},
                    note |-> {}, keep |-> FALSE]
    BY <1>4 DEF Run!Look
  <2> HIDE DEF v
  <2>2. Noted(v, "export", "proposed")
    BY <2>1 DEF Noted
  <2>3. LastLook(v, 1, 3, "export") /\ LastLook(v, 2, 3, "config")
    <3>1. ~Touches(v[2], "export") /\ ~Touches(v[3], "export") /\ ~Touches(v[3], "config")
      BY <2>1 DEF Touches
    <3>2. (\A k \in (1 + 1)..3 : k = 2 \/ k = 3) /\ \A k \in (2 + 1)..3 : k = 3
      OBVIOUS
    <3>3. v[1].act = "look" /\ v[1].file = "export" /\ v[2].act = "look" /\ v[2].file = "config"
      BY <2>1
    <3>4. /\ \A k \in (1 + 1)..3 : ~Touches(v[k], "export")
          /\ \A k \in (2 + 1)..3 : ~Touches(v[k], "config")
      BY <3>1, <3>2, Zenon
    <3> QED BY <3>3, <3>4, Zenon DEF LastLook
  <2>4. {"trained", "proposed"} \subseteq v[1].match \cup v[1].note
          /\ {"trained", "recorded", "proposed"} \subseteq v[2].match \cup v[2].note
    BY <2>1
  <2>5. Compared(v, "export", {"trained", "proposed"})
          /\ Compared(v, "config", {"trained", "recorded", "proposed"})
    BY <2>1, <2>3, <2>4 DEF Compared
  <2> QED BY <2>2, <2>5 DEF v
<1>6. ASSUME NEW f \in {"export", "config"}, NEW l \in Run!Lanes
      PROVE  Run!AdmitTerminalSuccess(l) \in Seq(Untouching(f))
  <2>1. \A m \in SUBSET Run!Books :
          Run!Look("export", m, {}) \in Untouching(f) /\ Run!Look("config", m, {}) \in Untouching(f)
    BY DEF Untouching, Touches, StepType, Run!Look, Run!Files
  <2>2. /\ {"trained"} \cup {"proposed"} \in SUBSET Run!Books
        /\ {"trained", "recorded"} \cup {"proposed"} \in SUBSET Run!Books
        /\ {"recorded"} \in SUBSET Run!Books /\ {"proposed"} \in SUBSET Run!Books
        /\ {"recorded", "proposed"} \in SUBSET Run!Books
        /\ {"proposed", "trained"} \in SUBSET Run!Books
    BY DEF Run!Books
  <2>3. \A x, y, z \in Untouching(f) :
           <<x>> \in Seq(Untouching(f)) /\ <<x, y>> \in Seq(Untouching(f))
                                    /\ <<x, y, z>> \in Seq(Untouching(f))
    OBVIOUS
  <2>4. \A x, y \in Seq(Untouching(f)) : x \o y \in Seq(Untouching(f))
    OBVIOUS
  <2>5. V({"proposed"}, {}) \in Seq(Untouching(f))
    BY <2>1, <2>2, <2>3 DEF Run!ValidateAdapter
  <2>6. <<Run!Look("export", {"recorded"}, {})>> \in Seq(Untouching(f))
    BY <2>1, <2>2, <2>3
  <2>7. <<Run!Look("config", IF l \in Run!AdapterLanes THEN {"recorded", "proposed"}
                            ELSE {"proposed"}, {}),
          Run!Look("export", {"proposed", "trained"}, {})>> \in Seq(Untouching(f))
    BY <2>1, <2>2, <2>3
  <2> QED BY <2>4, <2>5, <2>6, <2>7 DEF Run!AdmitTerminalSuccess
<1>7. ASSUME NEW l \in Run!Lanes \ {"training"}
      PROVE  /\ Compared(Run!AdmitTerminalSuccess(l), "export", {"proposed", "trained"})
             /\ l \in Run!AdapterLanes =>
                  Compared(Run!AdmitTerminalSuccess(l), "config", {"recorded", "proposed"})
  <2> DEFINE m == IF l \in Run!AdapterLanes THEN {"recorded", "proposed"} ELSE {"proposed"}
             t == <<Run!Look("config", m, {}), Run!Look("export", {"proposed", "trained"}, {})>>
             s == <<Run!Look("export", {"recorded"}, {})>>
  <2>1. m \in SUBSET Run!Books
    BY DEF Run!Books
  <2> HIDE DEF m
  <2>2. s \in Seq(StepType) /\ t \in Seq(StepType)
    BY <2>1 DEF StepType, Run!Look, Run!Books, Run!Files
  <2>3. /\ Len(t) = 2
        /\ t[1] = [act |-> "look", file |-> "config", match |-> m, note |-> {}, keep |-> FALSE]
        /\ t[2] = [act |-> "look", file |-> "export", match |-> {"proposed", "trained"},
                    note |-> {}, keep |-> FALSE]
    BY DEF Run!Look
  <2>4. Run!AdmitTerminalSuccess(l) = s \o t
    BY DEF Run!AdmitTerminalSuccess, m
  <2> HIDE DEF s, t
  <2>5. LastLook(t, 1, 2, "config") /\ LastLook(t, 2, 2, "export")
    BY <2>3 DEF LastLook, Touches
  <2>6. Compared(t, "export", {"proposed", "trained"})
    BY <2>3, <2>5 DEF Compared
  <2>7. l \in Run!AdapterLanes => Compared(t, "config", {"recorded", "proposed"})
    BY <2>3, <2>5 DEF Compared, m
  <2> QED BY <2>2, <2>4, <2>6, <2>7, ComparedJoined
<1> QED BY <1>1, <1>2, <1>3, <1>5, <1>6, <1>7

\* What a program must do before its success is admitted.
Admits(p, l, s) ==
  /\ \E q \in Nat : SavesAt(p, q)
  /\ Noted(p, "export", "proposed") /\ Noted(p, "export", "recorded")
  /\ Compared(p, "export", {"trained"})
  /\ l = "training" \/ s => Compared(p, "export", {"proposed", "trained"})
  /\ l = "training" => Compared(p, "config", {"trained", "recorded", "proposed"})
  /\ l \in Run!AdapterLanes /\ s => Compared(p, "config", {"recorded", "proposed"})

\* A run without its plan and its parent.
LEMMA LaneAdmits ==
  ASSUME NEW l \in Run!Lanes
  PROVE  Run!LaneRun[l] \in Seq(StepType) /\ Admits(Run!LaneRun[l], l, FALSE)
<1>1. \A x, y \in Seq(StepType) : x \o y \in Seq(StepType)
  OBVIOUS
<1>2. \A x, y \in Seq(Unsaved) : x \o y \in Seq(Unsaved)
  OBVIOUS
<1>3. /\ Run!Trains \in Seq(Unsaved) /\ Run!Admission \in Seq(Unsaved)
      /\ Run!Rows \in Seq(Unsaved) /\ Run!RewardModel \in Seq(Unsaved)
      /\ Run!LoadModel \in Seq(Unsaved) /\ Run!Corpus \in Seq(Unsaved)
  <2>1. Run!Step("train", "export") \in Unsaved
    BY DEF Unsaved, StepType, Run!Step, Run!Books, Run!Files
  <2>2. Run!Load("dataset") \in Unsaved /\ Run!Load("tokenizer") \in Unsaved
          /\ Run!Verify("tokenizer") \in Unsaved /\ Run!Load("weights") \in Unsaved
    BY DEF Unsaved, StepType, Run!Books, Run!Files, Run!Load, Run!Read, Run!Verify, Run!Look
  <2>3. Run!Trains \in Seq(Unsaved) /\ Run!Corpus \in Seq(Unsaved)
    BY <2>1, <2>2 DEF Run!Trains, Run!Corpus
  <2>4. \A x \in Seq(Prepared) : x \in Seq(Unsaved)
    BY StepKinds
  <2> QED BY <2>3, <2>4, InputPieces
<1>4. /\ Run!Save \in Seq(StepType) /\ Run!Propose \in Seq(StepType)
      /\ Run!Record(l) \in Seq(StepType) /\ Run!ReloadVerify \in Seq(StepType)
      /\ Run!ValidateAdapter({}, {"proposed"}) \in Seq(StepType)
  BY DonePieces, StepKinds
<1>5. \A x \in Seq(Unsaved) : x \in Seq(StepType)
  BY StepKinds
<1>6. ASSUME NEW bk \in Seq(Unsaved), l # "training",
             Run!LaneRun[l] = Run!Runner(l, bk)
      PROVE  Run!LaneRun[l] \in Seq(StepType) /\ Admits(Run!LaneRun[l], l, FALSE)
  <2> DEFINE x == (bk \o Run!Trains) \o Run!Save
             y == x \o Run!Propose
             z == y \o Run!Record(l)
  <2>1. bk \o Run!Trains \in Seq(Unsaved) /\ x \in Seq(StepType) /\ y \in Seq(StepType)
          /\ z \in Seq(StepType) /\ z \o Run!ReloadVerify \in Seq(StepType)
    BY <1>1, <1>2, <1>3, <1>4, <1>5, <1>6
  <2>2. SavesAt(x, Len(bk \o Run!Trains) + 1)
    BY <2>1, SavesBegin
  <2>3. SavesAt(z \o Run!ReloadVerify, Len(bk \o Run!Trains) + 1)
    <3>1. SavesAt(y, Len(bk \o Run!Trains) + 1)
      BY <2>2, OutputPieces, SavesGoOn
    <3>2. SavesAt(z, Len(bk \o Run!Trains) + 1)
      BY <3>1, OutputPieces, SavesGoOn
    <3> QED BY <3>2, OutputPieces, SavesGoOn
  <2>4. Len(bk \o Run!Trains) + 1 \in Nat
    BY <2>1
  <2>5. Noted(y, "export", "proposed") /\ Noted(z, "export", "recorded")
    BY <2>1, <1>4, AdmissionPieces, NotedJoined
  <2>6. Noted(z, "export", "proposed")
    BY <2>1, <2>5, <1>4, NotedJoined
  <2>7. Noted(z \o Run!ReloadVerify, "export", "proposed")
          /\ Noted(z \o Run!ReloadVerify, "export", "recorded")
    BY <2>1, <2>5, <2>6, <1>4, NotedJoined
  <2>8. Compared(z \o Run!ReloadVerify, "export", {"trained"})
    BY <2>1, <1>4, AdmissionPieces, ComparedJoined
  <2>9. Run!LaneRun[l] = z \o Run!ReloadVerify
    BY <1>6 DEF Run!Runner
  <2> HIDE DEF z
  <2> QED BY <1>6, <2>1, <2>3, <2>4, <2>7, <2>8, <2>9 DEF Admits
<1>7. CASE l = "training"
  <2> DEFINE bk == ((Run!Admission \o Run!Rows) \o Run!LoadModel) \o Run!Trains
             x == bk \o Run!Save
             y == x \o Run!Record("training")
             v == Run!ValidateAdapter({}, {"proposed"})
  <2>1. bk \in Seq(Unsaved) /\ x \in Seq(StepType) /\ y \in Seq(StepType)
          /\ y \o v \in Seq(StepType) /\ v \in Seq(StepType)
    BY <1>1, <1>2, <1>3, <1>4, <1>5, <1>7
  <2> HIDE DEF bk
  <2>2. SavesAt(x, Len(bk) + 1) /\ Len(bk) + 1 \in Nat
    BY <2>1, SavesBegin
  <2>3. SavesAt(y \o v, Len(bk) + 1)
    <3>1. SavesAt(y, Len(bk) + 1)
      BY <2>2, <1>7, OutputPieces, SavesGoOn
    <3> QED BY <3>1, OutputPieces, SavesGoOn
  <2>4. Noted(y, "export", "recorded")
    BY <2>1, <1>4, <1>7, AdmissionPieces, NotedJoined
  <2>5. Noted(y \o v, "export", "recorded") /\ Noted(y \o v, "export", "proposed")
    BY <2>1, <2>4, AdmissionPieces, NotedJoined
  <2>6. /\ Compared(y \o v, "export", {"trained", "proposed"})
        /\ Compared(y \o v, "config", {"trained", "recorded", "proposed"})
    BY <2>1, AdmissionPieces, ComparedJoined
  <2>7. /\ Compared(y \o v, "export", {"trained"})
        /\ Compared(y \o v, "export", {"proposed", "trained"})
    BY <2>6 DEF Compared
  <2>8. Run!LaneRun[l] = y \o v
    BY <1>7 DEF Run!LaneRun, Run!TrainingLane, bk
  <2> HIDE DEF y, v
  <2> QED BY <2>1, <2>2, <2>3, <2>5, <2>6, <2>7, <2>8 DEF Admits
<1>8. CASE l \in {"full_finetune", "preference", "reward"}
  <2>1. Run!LaneRun[l] = Run!Runner(l, (Run!Admission \o Run!Rows) \o Run!LoadModel)
    BY <1>8 DEF Run!LaneRun, Run!FullFinetuneLane, Run!PreferenceLane, Run!RewardLane
  <2>2. (Run!Admission \o Run!Rows) \o Run!LoadModel \in Seq(Unsaved)
    BY <1>2, <1>3
  <2> QED BY <1>6, <1>8, <2>1, <2>2
<1>9. CASE l = "rollout"
  <2>1. Run!LaneRun[l] =
          Run!Runner(l, ((Run!Admission \o Run!Rows) \o Run!RewardModel) \o Run!LoadModel)
    BY <1>9 DEF Run!LaneRun, Run!RolloutLane
  <2>2. ((Run!Admission \o Run!Rows) \o Run!RewardModel) \o Run!LoadModel \in Seq(Unsaved)
    BY <1>2, <1>3
  <2> QED BY <1>6, <1>9, <2>1, <2>2
<1>10. CASE l = "pretraining"
  <2>1. Run!LaneRun[l] = Run!Runner(l, Run!Corpus)
    BY <1>10 DEF Run!LaneRun, Run!PretrainingLane
  <2> QED BY <1>3, <1>6, <1>10, <2>1
<1> QED BY <1>7, <1>8, <1>9, <1>10 DEF Run!Lanes

\* Whatever is admitted has been compared: by the lane itself, and by its parent once more.
LEMMA ProgramAdmits ==
  ASSUME NEW l \in Run!Lanes, NEW s \in BOOLEAN
  PROVE  Admits(Run!ProgramOf[l][s], l, s)
<1> DEFINE pre == Run!Planning(l)
           r == Run!LaneRun[l]
           t == IF s THEN Run!AdmitTerminalSuccess(l) ELSE <<>>
<1>1. pre \in Seq(Unsaved) /\ pre \in Seq(StepType)
  BY PlanningPlans, StepKinds
<1>2. r \in Seq(StepType) /\ Admits(r, l, FALSE)
  BY LaneAdmits
<1>3. /\ \A f \in {"export", "config"} : t \in Seq(Untouching(f))
      /\ t \in Seq(Saved) /\ t \in Seq(StepType)
  <2>1. \A S : <<>> \in Seq(S)
    OBVIOUS
  <2>2. \A x \in Seq(Saved) : x \in Seq(StepType)
    BY StepKinds
  <2> QED BY <2>1, <2>2, AdmissionPieces, OutputPieces
<1>4. Run!ProgramOf[l][s] = (pre \o r) \o t
  BY DEF Run!ProgramOf
<1>5. ~s => t = <<>>
  OBVIOUS
<1>6. s => t = Run!AdmitTerminalSuccess(l)
  OBVIOUS
<1> HIDE DEF pre, r, t
<1>7. pre \o r \in Seq(StepType)
  BY <1>1, <1>2
<1>8. \E q \in Nat : SavesAt((pre \o r) \o t, q)
  <2>1. PICK q \in Nat : SavesAt(r, q)
    BY <1>2 DEF Admits
  <2>2. SavesAt((pre \o r) \o t, Len(pre) + q)
    BY <2>1, <1>1, <1>3, SavesPlanned, SavesGoOn
  <2>3. Len(pre) + q \in Nat
    BY <1>1
  <2> QED BY <2>2, <2>3
<1>9. ASSUME NEW bk, Noted(r, "export", bk) PROVE Noted((pre \o r) \o t, "export", bk)
  BY <1>9, <1>1, <1>2, <1>3, <1>7, NotedJoined
<1>10. ASSUME NEW f \in {"export", "config"}, NEW B, Compared(r, f, B)
       PROVE  Compared((pre \o r) \o t, f, B)
  <2>1. Compared(pre \o r, f, B)
    BY <1>1, <1>2, <1>10, ComparedJoined
  <2> QED BY <2>1, <1>3, <1>7, ComparedStays
<1>11. ASSUME NEW f, NEW B, Compared(t, f, B) PROVE Compared((pre \o r) \o t, f, B)
  BY <1>3, <1>7, <1>11, ComparedJoined
<1>12. /\ Noted((pre \o r) \o t, "export", "proposed")
       /\ Noted((pre \o r) \o t, "export", "recorded")
       /\ Compared((pre \o r) \o t, "export", {"trained"})
  BY <1>2, <1>9, <1>10 DEF Admits
<1>13. CASE l = "training"
  <2>1. /\ Compared((pre \o r) \o t, "export", {"proposed", "trained"})
        /\ Compared((pre \o r) \o t, "config", {"trained", "recorded", "proposed"})
    BY <1>2, <1>10, <1>13 DEF Admits
  <2>2. Compared((pre \o r) \o t, "config", {"recorded", "proposed"})
    BY <2>1 DEF Compared
  <2> QED BY <1>4, <1>8, <1>12, <2>1, <2>2 DEF Admits
<1>14. CASE l # "training"
  <2>1. s => Compared(t, "export", {"proposed", "trained"})
    BY <1>6, <1>14, AdmissionPieces
  <2>2. s /\ l \in Run!AdapterLanes => Compared(t, "config", {"recorded", "proposed"})
    BY <1>6, <1>14, AdmissionPieces
  <2> QED BY <1>4, <1>8, <1>11, <1>12, <1>14, <2>1, <2>2 DEF Admits
<1> QED BY <1>13, <1>14

\* What a book says of the saved weights: nothing, or what was trained.
Honest(bk) == digests[bk]["export"] \in {None, TrainedBytes}
Outputs == {"proposed", "recorded"}

\* The weights are saved at q.
WrittenInv(q) ==
  /\ at <= q => \A bk \in Run!Books \ {"sealed"} : digests[bk]["export"] = None
  /\ at > q => digests["trained"]["export"] = TrainedBytes
  /\ at > q /\ disk["export"] = TrainedBytes =>
       "export" \in restored \/ \A bk \in Outputs : Honest(bk)
  /\ \A j \in (q + 1)..(at - 1) :
       LastLook(Run!Program, j, at - 1, "export") /\ "trained" \in Run!Program[j].match =>
         "export" \in restored \/ \A bk \in Outputs : Honest(bk)

\* What was noted is there, and the books that were compared last agree.
BooksInv ==
  \A j \in 1..(at - 1) :
    /\ Run!Program[j].act = "look" =>
         \A bk \in Run!Program[j].note : digests[bk][Run!Program[j].file] # None
    /\ \A f \in Run!Files : LastLook(Run!Program, j, at - 1, f) =>
         \A bk, c \in Run!Program[j].match \cup Run!Program[j].note : digests[bk][f] = digests[c][f]

WeightsInv ==
  /\ \E q \in Nat : SavesAt(Run!Program, q) /\ WrittenInv(q)
  /\ BooksInv
  /\ outcome = "succeeded" => at = Len(Run!Program) + 1

\* Nothing is written down of an output before a run begins.
LEMMA WeightsInitially == Run!Init => WeightsInv
<1> SUFFICES ASSUME Run!Init PROVE WeightsInv
  OBVIOUS
<1>1. PICK q \in Nat : SavesAt(Run!Program, q)
  BY ProgramAdmits DEF Run!Init, Run!Program, Admits
<1>2. WrittenInv(q)
  <2>1. q \in Nat /\ q >= 1 /\ at = 1
    BY <1>1 DEF SavesAt, Run!Init
  <2>2. \A bk \in Run!Books : digests[bk]["export"] = None
    BY DEF Run!Init, Run!Files
  <2>3. (q + 1)..(at - 1) = {}
    BY <2>1
  <2> QED BY <2>1, <2>2, <2>3 DEF WrittenInv
<1>3. BooksInv /\ outcome # "succeeded"
  <2>1. 1..(at - 1) = {} /\ outcome # "succeeded"
    BY MCRun DEF Run!RunAssumption, Run!Init
  <2> QED BY <2>1 DEF BooksInv
<1> QED BY <1>1, <1>2, <1>3 DEF WeightsInv

\* The last look before one position is the last before the next unless that touches the file.
LEMMA LookStays ==
  ASSUME NEW s, NEW j \in Nat, NEW n \in Nat, NEW f, j < n, LastLook(s, j, n, f)
  PROVE  LastLook(s, j, n - 1, f) /\ ~Touches(s[n], f)
<1>1. n \in (j + 1)..n /\ \A k \in (j + 1)..(n - 1) : k \in (j + 1)..n
  OBVIOUS
<1> QED BY <1>1 DEF LastLook

\* A step that writes in no book and changes no file, or only another file.
LEMMA WeightsRest ==
  ASSUME Run!TypeOK, Run!Program' = Run!Program, WeightsInv, UNCHANGED digests,
         \/ at' = at
         \/ at' = at + 1 /\ Run!Running /\ Run!Here.act \notin {"look", "save"},
         restored \subseteq restored',
         \/ disk'["export"] = disk["export"]
         \/ digests["trained"]["export"] = disk'["export"] => "export" \in restored',
         outcome' = "succeeded" => at' = Len(Run!Program) + 1
  PROVE  WeightsInv'
<1>1. PICK q \in Nat : SavesAt(Run!Program, q) /\ WrittenInv(q)
  BY DEF WeightsInv
<1>2. at \in Nat /\ at' \in Nat /\ (at' = at \/ at' = at + 1)
  BY DEF Run!TypeOK
<1>3. at' = at + 1 => /\ at # q /\ Run!Program[at].act # "look"
  <2>1. at' = at + 1 => Run!Here.act \notin {"look", "save"}
    BY <1>2
  <2> QED BY <1>1, <2>1 DEF SavesAt, Run!Here
<1>4. (at' <= q => at <= q) /\ (at' > q => at > q)
  BY <1>2, <1>3
<1>5. ASSUME NEW j \in 1..(at' - 1), NEW f, LastLook(Run!Program, j, at' - 1, f)
      PROVE  j \in 1..(at - 1) /\ LastLook(Run!Program, j, at - 1, f)
  <2>1. CASE at' = at
    BY <1>5, <2>1
  <2>2. CASE at' = at + 1
    <3>1. j # at
      BY <1>3, <1>5, <2>2 DEF LastLook
    <3>2. j \in 1..(at - 1) /\ j < at /\ at' - 1 = at
      BY <1>2, <2>2, <3>1
    <3>3. LastLook(Run!Program, j, at, f)
      BY <1>5, <3>2
    <3>4. LastLook(Run!Program, j, at - 1, f)
      BY <1>2, <3>2, <3>3, LookStays
    <3> QED BY <3>2, <3>4
  <2> QED BY <1>2, <2>1, <2>2
<1>6. WrittenInv(q)'
  <2>1. ASSUME at' > q, disk'["export"] = TrainedBytes
        PROVE  "export" \in restored' \/ \A bk \in Outputs : Honest(bk)'
    BY <1>1, <1>4, <2>1 DEF WrittenInv, Honest
  <2>2. ASSUME NEW j \in (q + 1)..(at' - 1), LastLook(Run!Program, j, at' - 1, "export"),
               "trained" \in Run!Program[j].match
        PROVE  "export" \in restored' \/ \A bk \in Outputs : Honest(bk)'
    <3>1. j \in 1..(at' - 1)
      BY <1>2
    <3>2. j \in 1..(at - 1) /\ LastLook(Run!Program, j, at - 1, "export")
      BY <1>5, <2>2, <3>1
    <3>3. j \in (q + 1)..(at - 1)
      BY <1>2, <2>2, <3>2
    <3> QED BY <3>3, <1>1, <2>2, <3>2 DEF WrittenInv, Honest
  <2>3. /\ at' <= q => \A bk \in Run!Books \ {"sealed"} : digests'[bk]["export"] = None
        /\ at' > q => digests'["trained"]["export"] = TrainedBytes
    BY <1>1, <1>4 DEF WrittenInv
  <2> QED BY <2>1, <2>2, <2>3 DEF WrittenInv
<1>7. BooksInv'
  <2> SUFFICES ASSUME NEW j \in 1..(at' - 1)
               PROVE  /\ Run!Program[j].act = "look" =>
                           \A bk \in Run!Program[j].note : digests[bk][Run!Program[j].file] # None
                      /\ \A f \in Run!Files : LastLook(Run!Program, j, at' - 1, f) =>
                           \A bk, c \in Run!Program[j].match \cup Run!Program[j].note :
                             digests[bk][f] = digests[c][f]
    BY DEF BooksInv
  <2>1. Run!Program[j].act = "look" => j \in 1..(at - 1)
    <3>1. at' = at + 1 /\ Run!Program[j].act = "look" => j # at
      BY <1>3
    <3> QED BY <1>2, <3>1
  <2> QED BY <1>5, <2>1 DEF WeightsInv, BooksInv
<1> QED BY <1>1, <1>6, <1>7 DEF WeightsInv

\* A look at a file writes down and compares what it holds.
LEMMA WeightsLook ==
  ASSUME Run!TypeOK, Run!Program' = Run!Program, WeightsInv, Run!LookAtFile, ~Run!End("changed")
  PROVE  WeightsInv'
<1> DEFINE x == Run!Program[at]
<1>1. /\ x.act = "look" /\ x.file \in Run!Files /\ x \in StepType
      /\ \A bk \in x.match : digests[bk][x.file] = disk[x.file]
      /\ \A bk \in Run!Books : \A f \in Run!Files :
           digests'[bk][f] = IF bk \in x.note /\ f = x.file THEN disk[f] ELSE digests[bk][f]
      /\ at' = at + 1 /\ disk' = disk /\ restored' = restored /\ outcome' = outcome
      /\ outcome = None
  <2>1. Run!Running /\ x \in StepType
    BY HereTyped DEF Run!LookAtFile, Run!Is, Run!Here
  <2>2. x.act = "look" /\ x.file \in Run!Files
    BY <2>1 DEF Run!LookAtFile, Run!Is, StepType, Run!Here
  <2>3. ~\E bk \in x.match : digests[bk][x.file] # disk[x.file]
    BY DEF Run!LookAtFile, Run!Here, Run!Content
  <2>4. /\ digests' = [bk \in Run!Books |->
             IF bk \in x.note THEN [digests[bk] EXCEPT ![x.file] = disk[x.file]] ELSE digests[bk]]
        /\ at' = at + 1 /\ disk' = disk /\ restored' = restored /\ outcome' = outcome
    BY <2>3 DEF Run!LookAtFile, Run!Here, Run!Content, Run!Advance, Run!others
  <2>5. \A bk \in Run!Books : \A f \in Run!Files :
          digests'[bk][f] = IF bk \in x.note /\ f = x.file THEN disk[f] ELSE digests[bk][f]
    BY <2>2, <2>4 DEF Run!TypeOK
  <2> QED BY <2>1, <2>2, <2>3, <2>4, <2>5 DEF Run!Running
<1>2. PICK q \in Nat : SavesAt(Run!Program, q) /\ WrittenInv(q)
  BY DEF WeightsInv
<1>3. at \in 1..Len(Run!Program) /\ at \in Nat /\ at # q /\ at' - 1 = at /\ "export" \in Run!Files
  BY <1>1, <1>2, HereTyped DEF Run!LookAtFile, Run!Is, Run!Here, SavesAt, Run!Files
<1>4. (at < q => x.note \subseteq {"sealed"}) /\ (at > q => x.note \subseteq Outputs)
  <2>1. at < q => at \in 1..(q - 1)
    BY <1>3
  <2>2. at > q => at \in (q + 1)..Len(Run!Program)
    BY <1>3
  <2> QED BY <1>2, <2>1, <2>2 DEF SavesAt, Unsaved, Saved, Done, Outputs
<1>5. x.match \subseteq Run!Books /\ x.note \subseteq Run!Books /\ Outputs \subseteq Run!Books
        /\ "trained" \in Run!Books
  BY <1>1 DEF StepType, Outputs, Run!Books
<1>6. \A bk \in x.match \cup x.note : digests'[bk][x.file] = disk[x.file]
  BY <1>1, <1>5
<1> HIDE DEF x
<1>7. ASSUME NEW j \in 1..at, NEW f \in Run!Files, LastLook(Run!Program, j, at, f), j # at
      PROVE  /\ j \in 1..(at - 1) /\ LastLook(Run!Program, j, at - 1, f)
             /\ \A bk \in Run!Books : digests'[bk][f] = digests[bk][f]
  <2>1. j \in 1..(at - 1) /\ j < at /\ j \in Nat
    BY <1>3, <1>7
  <2>2. LastLook(Run!Program, j, at - 1, f) /\ ~Touches(x, f)
    BY <1>3, <1>7, <2>1, LookStays DEF x
  <2>3. \A bk \in Run!Books : digests'[bk][f] = digests[bk][f]
    BY <1>1, <2>2 DEF Touches
  <2> QED BY <2>1, <2>2, <2>3
<1>8. ASSUME at > q, disk["export"] = TrainedBytes
      PROVE  "export" \in restored \/ \A bk \in Outputs : Honest(bk)'
  <2>1. "export" \in restored \/ \A bk \in Outputs : Honest(bk)
    BY <1>2, <1>8 DEF WrittenInv
  <2> QED BY <1>1, <1>3, <1>5, <1>8, <2>1 DEF Honest
<1>9. WrittenInv(q)'
  <2>1. at' <= q => at < q
    BY <1>1, <1>3
  <2>2. at' > q => at > q
    BY <1>1, <1>3
  <2>3. at' <= q => \A bk \in Run!Books \ {"sealed"} : digests'[bk]["export"] = None
    BY <1>1, <1>2, <1>3, <1>4, <2>1 DEF WrittenInv
  <2>4. at' > q => digests'["trained"]["export"] = TrainedBytes
    BY <1>1, <1>2, <1>3, <1>4, <1>5, <2>2 DEF WrittenInv, Outputs
  <2>5. at' > q /\ disk'["export"] = TrainedBytes =>
          "export" \in restored' \/ \A bk \in Outputs : Honest(bk)'
    BY <1>1, <1>8, <2>2
  <2>6. ASSUME NEW j \in (q + 1)..at, LastLook(Run!Program, j, at, "export"),
               "trained" \in Run!Program[j].match
        PROVE  "export" \in restored \/ \A bk \in Outputs : Honest(bk)'
    <3>1. CASE j = at
      <4>1. at > q /\ x.file = "export" /\ "trained" \in x.match
        BY <1>3, <2>6, <3>1 DEF LastLook, x
      <4>2. disk["export"] = TrainedBytes
        BY <4>1, <1>1, <1>2 DEF WrittenInv
      <4> QED BY <4>1, <4>2, <1>8
    <3>2. CASE j # at
      <4>1. j \in 1..at /\ (j \in 1..(at - 1) => j \in (q + 1)..(at - 1))
        BY <1>3
      <4>2. /\ j \in (q + 1)..(at - 1) /\ LastLook(Run!Program, j, at - 1, "export")
            /\ \A bk \in Run!Books : digests'[bk]["export"] = digests[bk]["export"]
        BY <4>1, <1>3, <1>7, <2>6, <3>2
      <4> QED BY <4>2, <1>2, <1>5, <2>6 DEF WrittenInv, Honest
    <3> QED BY <3>1, <3>2
  <2> QED BY <1>1, <1>3, <2>3, <2>4, <2>5, <2>6 DEF WrittenInv
<1>10. BooksInv'
  <2> SUFFICES ASSUME NEW j \in 1..at
               PROVE  /\ Run!Program[j].act = "look" =>
                           \A bk \in Run!Program[j].note : digests'[bk][Run!Program[j].file] # None
                      /\ \A f \in Run!Files : LastLook(Run!Program, j, at, f) =>
                           \A bk, c \in Run!Program[j].match \cup Run!Program[j].note :
                             digests'[bk][f] = digests'[c][f]
    BY <1>1, <1>3 DEF BooksInv
  <2>1. CASE j = at
    <3>1. disk[x.file] # None
      BY <1>1, MCRun DEF Run!RunAssumption, Run!TypeOK
    <3> QED BY <2>1, <3>1, <1>6 DEF x, LastLook
  <2>2. CASE j # at
    <3>1. j \in 1..(at - 1) /\ Run!Program[j] \in StepType
      BY <2>2, <1>2, <1>3 DEF SavesAt
    <3>2. Run!Program[j].file \in Run!Files /\ Run!Program[j].match \subseteq Run!Books
            /\ Run!Program[j].note \subseteq Run!Books
      BY <3>1 DEF StepType
    <3>3. Run!Program[j].act = "look" =>
            \A bk \in Run!Program[j].note : digests'[bk][Run!Program[j].file] # None
      <4>1. \A f \in Run!Files : disk[f] # None
        BY MCRun DEF Run!RunAssumption, Run!TypeOK
      <4> QED BY <3>1, <3>2, <4>1, <1>1 DEF WeightsInv, BooksInv
    <3>4. ASSUME NEW f \in Run!Files, LastLook(Run!Program, j, at, f)
          PROVE  \A bk, c \in Run!Program[j].match \cup Run!Program[j].note :
                   digests'[bk][f] = digests'[c][f]
      BY <2>2, <3>1, <3>2, <3>4, <1>7 DEF WeightsInv, BooksInv
    <3> QED BY <3>3, <3>4
  <2> QED BY <2>1, <2>2
<1>11. outcome' # "succeeded"
  BY <1>1, MCRun DEF Run!RunAssumption
<1> QED BY <1>1, <1>2, <1>9, <1>10, <1>11 DEF WeightsInv

\* Saving the weights, or another output, touches the file.
LEMMA WeightsSave ==
  ASSUME Run!TypeOK, Run!Program' = Run!Program, WeightsInv, Run!SaveFile
  PROVE  WeightsInv'
<1> DEFINE x == Run!Program[at]
<1>1. /\ x.act = "save" /\ x.file \in Run!Files
      /\ \A bk \in Run!Books : \A f \in Run!Files :
           digests'[bk][f] = IF bk = "trained" /\ f = x.file THEN TrainedBytes ELSE digests[bk][f]
      /\ \A f \in Run!Files : disk'[f] = IF f = x.file THEN TrainedBytes ELSE disk[f]
      /\ at' = at + 1 /\ restored' = restored /\ outcome' = outcome /\ outcome = None
  <2>1. Run!Running /\ x \in StepType
    BY HereTyped DEF Run!SaveFile, Run!Is, Run!Here
  <2>2. x.act = "save" /\ x.file \in Run!Files
    BY <2>1 DEF Run!SaveFile, Run!Is, StepType, Run!Here
  <2>3. /\ disk' = [disk EXCEPT ![x.file] = TrainedBytes]
        /\ digests' = [digests EXCEPT !["trained"][x.file] = TrainedBytes]
        /\ at' = at + 1 /\ restored' = restored /\ outcome' = outcome
    BY DEF Run!SaveFile, Run!Here, Run!Advance, Run!others
  <2>4. "trained" \in Run!Books
    BY DEF Run!Books
  <2>5. \A bk \in Run!Books : \A f \in Run!Files :
          digests'[bk][f] = IF bk = "trained" /\ f = x.file THEN TrainedBytes ELSE digests[bk][f]
    BY <2>2, <2>3, <2>4 DEF Run!TypeOK
  <2>6. \A f \in Run!Files : disk'[f] = IF f = x.file THEN TrainedBytes ELSE disk[f]
    BY <2>2, <2>3 DEF Run!TypeOK
  <2> QED BY <2>1, <2>2, <2>3, <2>5, <2>6 DEF Run!Running
<1>2. PICK q \in Nat : SavesAt(Run!Program, q) /\ WrittenInv(q)
  BY DEF WeightsInv
<1>3. at \in 1..Len(Run!Program) /\ at \in Nat /\ at' - 1 = at /\ "export" \in Run!Files
  BY <1>1, HereTyped DEF Run!SaveFile, Run!Is, Run!Files
\* Before the weights nothing is saved, and after them nothing but the configuration.
<1>4. at >= q /\ (at = q => x.file = "export") /\ (at > q => x.file = "config")
  <2>1. at < q => at \in 1..(q - 1)
    BY <1>3
  <2>2. at > q => at \in (q + 1)..Len(Run!Program)
    BY <1>3
  <2> QED BY <1>1, <1>2, <1>3, <2>1, <2>2 DEF SavesAt, Unsaved, Saved
<1>5. Outputs \subseteq Run!Books /\ "trained" \in Run!Books /\ "trained" \notin Outputs
        /\ "sealed" \notin Outputs
  BY DEF Outputs, Run!Books
<1> HIDE DEF x
<1>6. ASSUME NEW j \in 1..at, NEW f \in Run!Files, LastLook(Run!Program, j, at, f)
      PROVE  /\ j \in 1..(at - 1) /\ LastLook(Run!Program, j, at - 1, f) /\ f # x.file
             /\ \A bk \in Run!Books : digests'[bk][f] = digests[bk][f]
  <2>1. j # at
    BY <1>1, <1>6 DEF LastLook, x
  <2>2. j \in 1..(at - 1) /\ j < at /\ j \in Nat
    BY <1>3, <2>1
  <2>3. LastLook(Run!Program, j, at - 1, f) /\ ~Touches(x, f)
    BY <1>3, <1>6, <2>2, LookStays DEF x
  <2>4. f # x.file
    BY <1>1, <2>3 DEF Touches
  <2> QED BY <1>1, <2>2, <2>3, <2>4
<1>7. \A bk \in Outputs : digests'[bk]["export"] = digests[bk]["export"]
  BY <1>1, <1>3, <1>5
<1>8. WrittenInv(q)'
  <2>1. at' > q
    BY <1>1, <1>3, <1>4
  <2>2. digests'["trained"]["export"] = TrainedBytes
    BY <1>1, <1>2, <1>3, <1>4, <1>5 DEF WrittenInv
  <2>3. disk'["export"] = TrainedBytes => "export" \in restored \/ \A bk \in Outputs : Honest(bk)'
    <3>1. CASE at = q
      <4>1. \A bk \in Outputs : digests[bk]["export"] = None
        BY <1>2, <1>3, <1>5, <3>1 DEF WrittenInv
      <4> QED BY <4>1, <1>7 DEF Honest
    <3>2. CASE at > q
      <4>1. disk'["export"] = disk["export"]
        BY <1>1, <1>3, <1>4, <3>2
      <4> QED BY <4>1, <1>2, <1>7, <3>2 DEF WrittenInv, Honest
    <3> QED BY <1>3, <1>4, <3>1, <3>2
  <2>4. ASSUME NEW j \in (q + 1)..at, LastLook(Run!Program, j, at, "export"),
               "trained" \in Run!Program[j].match
        PROVE  "export" \in restored \/ \A bk \in Outputs : Honest(bk)'
    <3>1. j \in 1..at
      BY <1>3
    <3>2. j \in 1..(at - 1) /\ LastLook(Run!Program, j, at - 1, "export")
      BY <1>3, <1>6, <2>4, <3>1
    <3>3. j \in (q + 1)..(at - 1)
      BY <1>3, <3>2
    <3> QED BY <3>2, <3>3, <1>2, <1>7, <2>4 DEF WrittenInv, Honest
  <2> QED BY <1>1, <1>3, <2>1, <2>2, <2>3, <2>4 DEF WrittenInv
<1>9. BooksInv'
  <2> SUFFICES ASSUME NEW j \in 1..at
               PROVE  /\ Run!Program[j].act = "look" =>
                           \A bk \in Run!Program[j].note : digests'[bk][Run!Program[j].file] # None
                      /\ \A f \in Run!Files : LastLook(Run!Program, j, at, f) =>
                           \A bk, c \in Run!Program[j].match \cup Run!Program[j].note :
                             digests'[bk][f] = digests'[c][f]
    BY <1>1, <1>3 DEF BooksInv
  <2>1. Run!Program[j] \in StepType
    BY <1>2, <1>3 DEF SavesAt
  <2>2. Run!Program[j].file \in Run!Files /\ Run!Program[j].match \subseteq Run!Books
          /\ Run!Program[j].note \subseteq Run!Books
    BY <2>1 DEF StepType
  <2>3. Run!Program[j].act = "look" =>
          \A bk \in Run!Program[j].note : digests'[bk][Run!Program[j].file] # None
    <3>1. TrainedBytes # None
      BY MCRun DEF Run!RunAssumption
    <3>2. j = at => Run!Program[j].act # "look"
      BY <1>1 DEF x
    <3>3. j # at => j \in 1..(at - 1)
      BY <1>3
    <3> QED BY <1>1, <2>2, <3>1, <3>2, <3>3 DEF WeightsInv, BooksInv
  <2>4. ASSUME NEW f \in Run!Files, LastLook(Run!Program, j, at, f)
        PROVE  \A bk, c \in Run!Program[j].match \cup Run!Program[j].note :
                 digests'[bk][f] = digests'[c][f]
    BY <2>2, <2>4, <1>6 DEF WeightsInv, BooksInv
  <2> QED BY <2>3, <2>4
<1>10. outcome' # "succeeded"
  BY <1>1, MCRun DEF Run!RunAssumption
<1> QED BY <1>1, <1>2, <1>8, <1>9, <1>10 DEF WeightsInv

\* Whatever the run or somebody else does, what the books say of the weights is explained.
LEMMA WeightsKept == ASSUME Run!TypeOK, WeightsInv, Run!Next PROVE WeightsInv'
<1>1. lane' = lane /\ Run!Program' = Run!Program
  BY DEF Run!Next, Run!LookAtFile, Run!Assess, Run!Format, Run!Train, Run!SaveFile, Run!Succeed,
         Run!Fails, Run!Change, Run!End, Run!Advance, Run!choices, Run!Program
<1>2. ASSUME NEW how \in {"unplanned", "changed", "unrenderable", "failed"}, Run!End(how)
      PROVE  WeightsInv'
  BY <1>1, <1>2, WeightsRest DEF Run!End, Run!others
<1>3. CASE Run!LookAtFile
  BY <1>1, <1>2, <1>3, WeightsLook
<1>4. CASE Run!Assess \/ Run!Format \/ Run!Train
  <2>1. CASE Run!Advance
    <3>1. /\ UNCHANGED <<digests, disk, restored, outcome>> /\ at' = at + 1 /\ Run!Running
          /\ Run!Here.act \notin {"look", "save"}
      BY <1>4, <2>1 DEF Run!Assess, Run!Format, Run!Train, Run!Is, Run!Advance, Run!others, Run!End
    <3>2. outcome' # "succeeded"
      BY <3>1, MCRun DEF Run!RunAssumption, Run!Running
    <3> QED BY <1>1, <3>1, <3>2, WeightsRest
  <2>2. CASE Run!End("unplanned") \/ Run!End("unrenderable")
    BY <1>2, <2>2
  <2> QED BY <1>4, <2>1, <2>2 DEF Run!Assess, Run!Format, Run!Train
<1>5. CASE Run!SaveFile
  BY <1>1, <1>5, WeightsSave
<1>6. CASE Run!Succeed
  <2>1. at = Len(Run!Program) + 1
    <3>1. Run!Program \in Seq(StepType)
      BY ProgramTyped DEF Run!TypeOK, Run!Program
    <3> QED BY <1>6, <3>1 DEF Run!Succeed, Run!TypeOK
  <2>2. UNCHANGED <<digests, disk, at, restored>>
    BY <1>6 DEF Run!Succeed, Run!End, Run!others
  <2> QED BY <1>1, <2>1, <2>2, WeightsRest
<1>7. CASE Run!Fails
  BY <1>2, <1>7 DEF Run!Fails
<1>8. CASE Run!Change
  <2>1. PICK f \in Run!Files : \E c \in FileContents \ {disk[f]} :
          /\ disk' = [disk EXCEPT ![f] = c]
          /\ restored' = restored \cup
               {g \in {f} : digests["sealed"][g] = c \/ digests["trained"][g] = c}
    BY <1>8 DEF Run!Change
  <2>2. UNCHANGED <<digests, at, outcome>>
    BY <1>8 DEF Run!Change
  <2>3. /\ restored \subseteq restored'
        /\ \/ disk'["export"] = disk["export"]
           \/ digests["trained"]["export"] = disk'["export"] => "export" \in restored'
    BY <2>1 DEF Run!TypeOK, Run!Files
  <2>4. outcome' = "succeeded" => at' = Len(Run!Program) + 1
    BY <2>2 DEF WeightsInv
  <2> QED BY <1>1, <2>2, <2>3, <2>4, WeightsRest
<1> QED BY <1>3, <1>4, <1>5, <1>6, <1>7, <1>8 DEF Run!Next

\* The last comparison of a program that succeeded speaks of the weights that were trained.
LEMMA WeightsAdmitted == Run!TypeOK /\ WeightsInv => Run!AdmittedIsTrained
<1> SUFFICES ASSUME Run!TypeOK, WeightsInv, outcome = "succeeded"
             PROVE  /\ \/ Run!Same("proposed", "trained", "export")
                       \/ ~supervised /\ lane # "training" /\ "export" \in restored
                    /\ Run!Same("recorded", "proposed", "export") \/ "export" \in restored
                    /\ lane = "training" =>
                         Run!Same("proposed", "trained", "config")
                           /\ Run!Same("recorded", "trained", "config")
                    /\ lane \in Run!AdapterLanes /\ supervised =>
                         Run!Same("recorded", "proposed", "config")
  BY DEF Run!AdmittedIsTrained
<1>1. Run!Program \in Seq(StepType) /\ Admits(Run!Program, lane, supervised)
  BY ProgramTyped, ProgramAdmits DEF Run!TypeOK, Run!Program
<1>2. at - 1 = Len(Run!Program) /\ Len(Run!Program) \in Nat
  BY <1>1 DEF WeightsInv
<1>3. ASSUME NEW f \in Run!Files, NEW B, Compared(Run!Program, f, B), NEW bk \in B, NEW c \in B
      PROVE  digests[bk][f] = digests[c][f]
  <2>1. PICK j \in 1..Len(Run!Program) :
          /\ LastLook(Run!Program, j, Len(Run!Program), f)
          /\ B \subseteq Run!Program[j].match \cup Run!Program[j].note
    BY <1>3 DEF Compared
  <2> QED BY <1>2, <2>1 DEF WeightsInv, BooksInv
<1>4. "export" \in Run!Files /\ "config" \in Run!Files
  BY DEF Run!Files
<1>5. lane = "training" \/ supervised => Run!Same("proposed", "trained", "export")
  BY <1>1, <1>3, <1>4 DEF Admits, Run!Same
<1>6. lane = "training" => /\ Run!Same("proposed", "trained", "config")
                           /\ Run!Same("recorded", "trained", "config")
  BY <1>1, <1>3, <1>4 DEF Admits, Run!Same
<1>7. lane \in Run!AdapterLanes /\ supervised => Run!Same("recorded", "proposed", "config")
  BY <1>1, <1>3, <1>4 DEF Admits, Run!Same
<1>8. "export" \in restored \/ \A bk \in Outputs : digests[bk]["export"] = TrainedBytes
  <2>1. PICK q \in Nat : SavesAt(Run!Program, q) /\ WrittenInv(q)
    BY DEF WeightsInv
  <2>2. PICK j \in 1..Len(Run!Program) :
          /\ LastLook(Run!Program, j, Len(Run!Program), "export")
          /\ {"trained"} \subseteq Run!Program[j].match \cup Run!Program[j].note
    BY <1>1 DEF Admits, Compared
  <2>3. j > q
    <3>1. j # q
      BY <2>1, <2>2 DEF SavesAt, LastLook
    <3>2. ~(j < q)
      <4>1. j < q => q \in (j + 1)..Len(Run!Program)
        BY <2>1, <1>2 DEF SavesAt
      <4> QED BY <4>1, <2>1, <2>2 DEF LastLook, SavesAt, Touches
    <3> QED BY <3>1, <3>2
  <2>4. "trained" \in Run!Program[j].match
    <3>1. j \in (q + 1)..Len(Run!Program)
      BY <2>3, <1>2
    <3> QED BY <2>1, <2>2, <3>1 DEF SavesAt, Saved, Done
  <2>5. "export" \in restored \/ \A bk \in Outputs : Honest(bk)
    <3>1. j \in (q + 1)..(at - 1)
      BY <1>2, <2>3
    <3> QED BY <1>2, <2>1, <2>2, <2>4, <3>1 DEF WrittenInv
  <2>6. \A bk \in Outputs : digests[bk]["export"] # None
    <3>1. ASSUME NEW bk \in Outputs PROVE Noted(Run!Program, "export", bk)
      BY <1>1 DEF Admits, Outputs
    <3>2. ASSUME NEW bk \in Outputs PROVE digests[bk]["export"] # None
      <4>1. PICK k \in 1..Len(Run!Program) :
              /\ Run!Program[k].act = "look" /\ Run!Program[k].file = "export"
              /\ bk \in Run!Program[k].note
        BY <3>1 DEF Noted
      <4> QED BY <4>1, <1>2 DEF WeightsInv, BooksInv
    <3> QED BY <3>2
  <2> QED BY <2>5, <2>6 DEF Honest
<1>9. at > 1 => digests["trained"]["export"] = TrainedBytes
  <2>1. PICK q \in Nat : SavesAt(Run!Program, q) /\ WrittenInv(q)
    BY DEF WeightsInv
  <2>2. at > q
    BY <1>2, <2>1 DEF SavesAt, Run!TypeOK
  <2> QED BY <2>1, <2>2 DEF WrittenInv
<1>10. at > 1
  BY <1>1, <1>2 DEF Admits, SavesAt, Run!TypeOK
<1>11. "export" \in restored \/ (Run!Same("proposed", "trained", "export")
                                   /\ Run!Same("recorded", "proposed", "export"))
  BY <1>8, <1>9, <1>10 DEF Outputs, Run!Same
<1> QED BY <1>5, <1>6, <1>7, <1>11

-----------------------------------------------------------------------------
(* The composition *)

InputsInv == IInv /\ Run!TypeOK /\ SealedInv /\ WeightsInv

everything == <<component, vars, runVars, packageVars, modelVars, probeVars>>

\* At most one part moves.
LEMMA OneMoves ==
  ASSUME [RunNext]_everything
  PROVE  /\ component' = component /\ [Next]_vars
         /\ Run!Next \/ UNCHANGED runVars
<1>1. CASE EnvironmentStep
  BY <1>1 DEF EnvironmentStep
<1>2. CASE RunStep
  BY <1>2 DEF RunStep
<1>3. CASE PackagesStep
  BY <1>3 DEF PackagesStep
<1>4. CASE ModelStep
  BY <1>4 DEF ModelStep
<1>5. CASE ProbesStep
  BY <1>5 DEF ProbesStep
<1>6. CASE Over
  BY <1>6 DEF Over
<1>7. CASE UNCHANGED everything
  BY <1>7 DEF everything
<1> QED BY <1>1, <1>2, <1>3, <1>4, <1>5, <1>6, <1>7 DEF RunNext

\* The sealed run rests with its variables.
LEMMA RunRests ==
  ASSUME Run!TypeOK, SealedInv, WeightsInv, UNCHANGED runVars
  PROVE  Run!TypeOK' /\ SealedInv' /\ WeightsInv'
<1>1. Run!Program' = Run!Program
  BY DEF runVars, Run!Program
<1>2. Run!TypeOK'
  BY <1>1 DEF runVars, Run!TypeOK
<1>3. SealedInv'
  BY <1>1 DEF runVars, SealedInv, TrainingInv, Pending
<1>4. WeightsInv'
  BY <1>1, WeightsRest DEF runVars, WeightsInv
<1> QED BY <1>2, <1>3, <1>4

\* Every part begins as it does alone.
LEMMA PartsBegin ==
  (\E part \in {"environment", "run", "packages", "model", "probes"} : InitOf(part)) => InputsInv
BY InitInv, RunTypeInitially, SealedInitially, WeightsInitially DEF InitOf, InputsInv

\* Whichever part moves, the invariants are kept.
LEMMA PartsMove == InputsInv /\ [RunNext]_everything => InputsInv'
BY OneMoves, NextStep, RunTypeKept, SealedKept, WeightsKept, RunRests DEF InputsInv

\* The invariants hold in every behaviour of the composition.
LEMMA InputsInvariant == RunSpec => []InputsInv
BY PartsBegin, PartsMove, PTL DEF RunSpec, everything

\* A run that trains holds exactly the bytes its plan sealed, whatever the lane, the contents
\* and the changes of somebody else (verify_sealed_dataset_bytes and
\* verify_local_inputs_after_load).
THEOREM TrainsSealed == RunSpec => []TrainsOnSeal
<1>1. InputsInv => TrainsOnSeal
  BY TrainedOnSeal DEF InputsInv, TrainsOnSeal
<1> QED BY <1>1, InputsInvariant, PTL

\* A success names the weights that were trained, in its evidence and in the artifact's manifest
\* (validate_training_success_evidence, _reload_verify_adapter and _admit_terminal_success).
THEOREM AdmittedTrained == RunSpec => []AdmittedIsTrained
<1>1. InputsInv => AdmittedIsTrained
  BY WeightsAdmitted DEF InputsInv, AdmittedIsTrained
<1> QED BY <1>1, InputsInvariant, PTL
=============================================================================
