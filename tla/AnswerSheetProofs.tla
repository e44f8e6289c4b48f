-------------------------- MODULE AnswerSheetProofs --------------------------
(***************************************************************************)
(* Theorems about Grading and AnswerSheet, for every question bank, every  *)
(* set of selections and lists of any length.                              *)
(***************************************************************************)
EXTENDS AnswerSheet, FiniteSetTheorems, FunctionTheorems, TLAPS

-----------------------------------------------------------------------------
(* Two lists in which every option occurs equally often are the same up to  *)
(* the order of their entries.                                             *)

Where(o, s) == {i \in DOMAIN s : s[i] = o}

LEMMA WhereIsFinite ==
  ASSUME NEW s \in Seq(STRING), NEW o
  PROVE  IsFiniteSet(Where(o, s)) /\ IsFiniteSet(DOMAIN s)
<1>1. DOMAIN s = 1 .. Len(s) /\ Len(s) \in Int /\ 1 \in Int
  OBVIOUS
<1>2. IsFiniteSet(DOMAIN s)
  BY <1>1, FS_Interval
<1>3. Where(o, s) \subseteq DOMAIN s
  BY DEF Where
<1>4. QED
  BY <1>2, <1>3, FS_Subset

LEMMA SameOptions ==
  ASSUME NEW s \in Seq(STRING), NEW c \in Seq(STRING), Len(s) = Len(c),
         \A i \in DOMAIN s : Occurrences(s[i], s) = Occurrences(s[i], c)
  PROVE  \E p \in [DOMAIN c -> DOMAIN s] :
           /\ \A i, j \in DOMAIN c : p[i] = p[j] => i = j
           /\ \A i \in DOMAIN c : s[p[i]] = c[i]
<1> DEFINE b(o) == CHOOSE f : f \in Bijection(Where(o, s), Where(o, c))
           g == [i \in DOMAIN s |-> b(s[i])[i]]
<1>1. ASSUME NEW i \in DOMAIN s
      PROVE  b(s[i]) \in Bijection(Where(s[i], s), Where(s[i], c))
  <2>1. Cardinality(Where(s[i], s)) = Cardinality(Where(s[i], c))
    BY DEF Occurrences, Where
  <2>2. ExistsBijection(Where(s[i], s), Where(s[i], c))
    BY <2>1, WhereIsFinite, FS_SameCardinalityBij
  <2>3. \E f : f \in Bijection(Where(s[i], s), Where(s[i], c))
    BY <2>2 DEF ExistsBijection
  <2>4. QED
    BY <2>3
<1> HIDE DEF b
<1>2. ASSUME NEW i \in DOMAIN s
      PROVE  b(s[i])[i] \in DOMAIN c /\ c[b(s[i])[i]] = s[i]
  <2>1. b(s[i]) \in [Where(s[i], s) -> Where(s[i], c)]
    BY <1>1, Fun_BijectionProperties
  <2>2. i \in Where(s[i], s)
    BY DEF Where
  <2>3. b(s[i])[i] \in Where(s[i], c)
    BY <2>1, <2>2
  <2>4. QED
    BY <2>3 DEF Where
<1>3. ASSUME NEW i \in DOMAIN s, NEW j \in DOMAIN s, b(s[i])[i] = b(s[j])[j]
      PROVE  i = j
  <2>1. s[i] = s[j]
    BY <1>2, <1>3
  <2>2. PICK o, f : o = s[i] /\ f = b(o)
    OBVIOUS
  <2>3. f \in Bijection(Where(o, s), Where(o, c)) /\ f[i] = f[j]
    BY <1>1, <1>3, <2>1, <2>2
  <2>4. i \in Where(o, s) /\ j \in Where(o, s)
    BY <2>1, <2>2 DEF Where
  <2>5. f \in Injection(Where(o, s), Where(o, c))
    BY <2>3, Fun_BijectionProperties
  <2>6. QED
    BY <2>3, <2>4, <2>5, Fun_InjectionProperties
<1>4. g \in [DOMAIN s -> DOMAIN c] /\ \A i \in DOMAIN s : g[i] = b(s[i])[i]
  BY <1>2
<1> HIDE DEF g
<1>5. g \in Injection(DOMAIN s, DOMAIN c)
  BY <1>3, <1>4, Fun_IsInj
<1>6. IsFiniteSet(DOMAIN c) /\ DOMAIN s = DOMAIN c
  <2>1. DOMAIN s = 1 .. Len(s) /\ DOMAIN c = 1 .. Len(c)
    OBVIOUS
  <2>2. QED
    BY <2>1, WhereIsFinite
<1>7. g \in Surjection(DOMAIN s, DOMAIN c)
  BY <1>5, <1>6, FS_Injection
<1>8. g \in Bijection(DOMAIN s, DOMAIN c)
  BY <1>5, <1>7 DEF Bijection
<1> DEFINE p == Inverse(g, DOMAIN s, DOMAIN c)
<1>9. p \in Bijection(DOMAIN c, DOMAIN s) /\ \A i \in DOMAIN s : p[g[i]] = i
  BY <1>8, Fun_BijInverse
<1> HIDE DEF p
<1>10. p \in [DOMAIN c -> DOMAIN s] /\ p \in Injection(DOMAIN c, DOMAIN s)
  BY <1>9, Fun_BijectionProperties
<1>11. \A i, j \in DOMAIN c : p[i] = p[j] => i = j
  BY <1>10, Fun_InjectionProperties
<1>12. ASSUME NEW t \in DOMAIN c PROVE s[p[t]] = c[t]
  <2>1. \A u \in DOMAIN c : \E i \in DOMAIN s : g[i] = u
    BY <1>7 DEF Surjection
  <2>2. PICK i \in DOMAIN s : g[i] = t
    BY <2>1
  <2>3. QED
    BY <1>2, <1>4, <1>9, <2>2
<1>13. QED
  BY <1>10, <1>11, <1>12

LEMMA SameOccurrences ==
  ASSUME NEW s \in Seq(STRING), NEW c \in Seq(STRING), Len(s) = Len(c),
         NEW p \in [DOMAIN c -> DOMAIN s],
         \A i, j \in DOMAIN c : p[i] = p[j] => i = j,
         \A i \in DOMAIN c : s[p[i]] = c[i], NEW o
  PROVE  Occurrences(o, s) = Occurrences(o, c)
<1>1. IsFiniteSet(DOMAIN s) /\ DOMAIN s = DOMAIN c
  <2>1. DOMAIN s = 1 .. Len(s) /\ DOMAIN c = 1 .. Len(c)
    OBVIOUS
  <2>2. QED
    BY <2>1, WhereIsFinite
<1>2. p \in Injection(DOMAIN c, DOMAIN s)
  BY Fun_IsInj
<1>3. p \in Surjection(DOMAIN c, DOMAIN s)
  BY <1>1, <1>2, FS_Injection
<1> DEFINE f == [i \in Where(o, c) |-> p[i]]
<1>4. f \in [Where(o, c) -> Where(o, s)] /\ \A i \in Where(o, c) : f[i] = p[i]
  BY DEF Where
<1> HIDE DEF f
<1>5. f \in Injection(Where(o, c), Where(o, s))
  <2>1. \A i, j \in Where(o, c) : f[i] = f[j] => i = j
    BY <1>4 DEF Where
  <2>2. QED
    BY <1>4, <2>1, Fun_IsInj
<1>6. f \in Surjection(Where(o, c), Where(o, s))
  <2>1. ASSUME NEW j \in Where(o, s) PROVE \E i \in Where(o, c) : f[i] = j
    <3>1. j \in DOMAIN s /\ s[j] = o
      BY DEF Where
    <3>2. \A u \in DOMAIN s : \E i \in DOMAIN c : p[i] = u
      BY <1>3 DEF Surjection
    <3>3. PICK i \in DOMAIN c : p[i] = j
      BY <3>1, <3>2
    <3>4. i \in Where(o, c)
      BY <3>1, <3>3 DEF Where
    <3>5. QED
      BY <1>4, <3>3, <3>4
  <2>2. QED
    BY <1>4, <2>1, Fun_IsSurj
<1>7. f \in Bijection(Where(o, c), Where(o, s))
  BY <1>5, <1>6 DEF Bijection
<1>8. ExistsBijection(Where(o, c), Where(o, s))
  BY <1>7 DEF ExistsBijection
<1>9. Cardinality(Where(o, s)) = Cardinality(Where(o, c))
  BY <1>8, WhereIsFinite, FS_Bijection
<1>10. QED
  BY <1>9 DEF Occurrences, Where

-----------------------------------------------------------------------------
(* The three question types against the documented rule.                   *)

LEMMA TypesDiffer ==
  Single # Multi /\ Single # TrueOrFalse /\ Multi # TrueOrFalse
BY Zenon DEF Single, Multi, TrueOrFalse

LEMMA BankTypes ==
  ASSUME NEW id \in QuestionIds
  PROVE  /\ Bank[id].correct \in Seq(STRING)
         /\ \/ Bank[id].type = Single /\ Len(Bank[id].correct) = 1
            \/ Bank[id].type = Multi
            \/ Bank[id].type = TrueOrFalse /\ Len(Bank[id].correct) = 1
BY BankAssumption, SheetsAssumption DEF NewQuestionAccepts

LEMMA MatchesKey ==
  ASSUME NEW id \in QuestionIds, NEW sel \in Selections
  PROVE  IsAnswerCorrect(Bank[id], sel) <=> SelectsKey(Bank[id], sel)
<1>1. PICK q, c : q = Bank[id] /\ c = q.correct
  OBVIOUS
<1>2. sel \in Seq(STRING) /\ c \in Seq(STRING)
  BY <1>1, BankTypes, SheetsAssumption
<1>3. DOMAIN sel = 1 .. Len(sel) /\ DOMAIN c = 1 .. Len(c)
  BY <1>2
<1>4. CASE q.type = Single
  <2>1. Len(c) = 1
    BY <1>1, <1>4, BankTypes, TypesDiffer
  <2>2. IsAnswerCorrect(q, sel) <=> Len(sel) = 1 /\ sel[1] = c[1]
    BY <1>1, <1>4, TypesDiffer DEF IsAnswerCorrect, SingleCorrect
  <2>3. ASSUME Len(sel) = 1, sel[1] = c[1] PROVE SelectsKey(q, sel)
    <3>1. [i \in DOMAIN c |-> 1] \in [DOMAIN c -> DOMAIN sel]
      BY <1>3, <2>1, <2>3
    <3>2. \A i \in DOMAIN c : i = 1
      BY <1>3, <2>1
    <3>3. QED
      BY <1>1, <2>1, <2>3, <3>1, <3>2 DEF SelectsKey
  <2>4. ASSUME SelectsKey(q, sel) PROVE Len(sel) = 1 /\ sel[1] = c[1]
    <3>1. PICK p \in [DOMAIN c -> DOMAIN sel] :
            Len(sel) = Len(c) /\ \A i \in DOMAIN c : sel[p[i]] = c[i]
      BY <1>1, <1>4, <2>4, TypesDiffer DEF SelectsKey
    <3>2. 1 \in DOMAIN c /\ \A j \in DOMAIN sel : j = 1
      BY <1>3, <2>1, <3>1
    <3>3. QED
      BY <2>1, <3>1, <3>2
  <2>5. QED
    BY <1>1, <2>2, <2>3, <2>4
<1>5. CASE q.type = Multi
  <2>1. IsAnswerCorrect(q, sel) <=>
          /\ Len(sel) = Len(c)
          /\ \A i \in DOMAIN sel : Occurrences(sel[i], sel) = Occurrences(sel[i], c)
    BY <1>1, <1>5, TypesDiffer DEF IsAnswerCorrect, MultiCorrect
  <2>2. SelectsKey(q, sel) <=>
          \E p \in [DOMAIN c -> DOMAIN sel] :
            /\ Len(sel) = Len(c)
            /\ \A i, j \in DOMAIN c : p[i] = p[j] => i = j
            /\ \A i \in DOMAIN c : sel[p[i]] = c[i]
    BY <1>1, <1>5, TypesDiffer DEF SelectsKey
  <2>3. ASSUME IsAnswerCorrect(q, sel) PROVE SelectsKey(q, sel)
    BY <1>2, <2>1, <2>2, <2>3, SameOptions
  <2>4. ASSUME SelectsKey(q, sel) PROVE IsAnswerCorrect(q, sel)
    <3>1. PICK p \in [DOMAIN c -> DOMAIN sel] :
            /\ Len(sel) = Len(c)
            /\ \A i, j \in DOMAIN c : p[i] = p[j] => i = j
            /\ \A i \in DOMAIN c : sel[p[i]] = c[i]
      BY <2>2, <2>4
    <3>2. \A o : Occurrences(o, sel) = Occurrences(o, c)
      BY <1>2, <3>1, SameOccurrences
    <3>3. QED
      BY <2>1, <3>1, <3>2
  <2>5. QED
    BY <1>1, <2>3, <2>4
<1>6. CASE q.type = TrueOrFalse
  <2> DEFINE Same(a, b) == a = b \/ (a \in TrueSpellings) = (b \in TrueSpellings)
  <2>1. Len(c) = 1
    BY <1>1, <1>6, BankTypes, TypesDiffer
  <2>2. IsAnswerCorrect(q, sel) <=>
          Len(sel) = 1 /\ (c[1] \in TrueSpellings) = (sel[1] \in TrueSpellings)
    BY <1>1, <1>6, TypesDiffer DEF IsAnswerCorrect, TrueOrFalseCorrect
  <2>3. ASSUME Len(sel) = 1, (c[1] \in TrueSpellings) = (sel[1] \in TrueSpellings)
        PROVE  SelectsKey(q, sel)
    <3>1. [i \in DOMAIN c |-> 1] \in [DOMAIN c -> DOMAIN sel]
      BY <1>3, <2>1, <2>3
    <3>2. \A i \in DOMAIN c : i = 1
      BY <1>3, <2>1
    <3>3. QED
      BY <1>1, <1>6, <2>1, <2>3, <3>1, <3>2 DEF SelectsKey
  <2>4. ASSUME SelectsKey(q, sel)
        PROVE  Len(sel) = 1 /\ (c[1] \in TrueSpellings) = (sel[1] \in TrueSpellings)
    <3>1. PICK p \in [DOMAIN c -> DOMAIN sel] :
            Len(sel) = Len(c) /\ \A i \in DOMAIN c :
              \/ sel[p[i]] = c[i]
              \/ (sel[p[i]] \in TrueSpellings) = (c[i] \in TrueSpellings)
      BY <1>1, <2>4 DEF SelectsKey
    <3>2. 1 \in DOMAIN c /\ \A j \in DOMAIN sel : j = 1
      BY <1>3, <2>1, <3>1
    <3>3. p[1] = 1
      BY <3>2
    <3>4. QED
      BY <2>1, <3>1, <3>2, <3>3
  <2>5. QED
    BY <1>1, <2>2, <2>3, <2>4
<1>7. QED
  BY <1>1, <1>4, <1>5, <1>6, BankTypes

-----------------------------------------------------------------------------
(* The invariant: what is graded holds no id of another session.           *)

Graded ==
  /\ TypeOK
  /\ reply = "graded" => ~HasUnknownId(questions, answers)

LEMMA GradedInvariant == Spec => []Graded
<1>1. Init => Graded
  <2> SUFFICES ASSUME Init PROVE Graded
    OBVIOUS
  <2>1. MaxAnswers \in Nat /\ answers \in Seq(Entries) /\ Len(answers) = 0
    BY SheetsAssumption DEF Init
  <2>2. QED
    BY <2>1 DEF Init, Graded, TypeOK
<1>2. Graded /\ [Next]_vars => Graded'
  <2> SUFFICES ASSUME Graded, [Next]_vars PROVE Graded'
    OBVIOUS
  <2>1. ASSUME NEW id \in QuestionIds \cup {ForeignId, EmptyId},
               NEW sel \in Selections, DecodeAnswer(id, sel)
        PROVE  Graded'
    <3>1. MaxAnswers \in Nat /\ answers \in Seq(Entries) /\ Len(answers) < MaxAnswers
      BY <2>1, SheetsAssumption DEF Graded, TypeOK, DecodeAnswer
    <3>2. [id |-> id, sel |-> sel] \in Entries
      BY <2>1 DEF DecodeAnswer, Entries
    <3>3. answers' \in Seq(Entries) /\ Len(answers') <= MaxAnswers
      BY <2>1, <3>1, <3>2 DEF DecodeAnswer
    <3>4. QED
      BY <2>1, <3>3 DEF Graded, TypeOK, DecodeAnswer
  <2>2. CASE RejectEntry
    BY <2>2 DEF Graded, TypeOK, RejectEntry
  <2>3. CASE Grade
    BY <2>3 DEF Graded, TypeOK, Grade, HasUnknownId
  <2>4. CASE UNCHANGED vars
    BY <2>4 DEF vars, Graded, TypeOK, HasUnknownId
  <2>5. QED
    BY <2>1, <2>2, <2>3, <2>4 DEF Next
<1>3. QED
  BY <1>1, <1>2, PTL DEF Spec

\* Lists decode to well-formed entries, whatever bank, selections and bound:
\* the decoding loop of CompleteSession (http/public/server.go).
THEOREM TypeCorrect == Spec => []TypeOK
<1>1. Graded => TypeOK
  BY DEF Graded
<1>2. QED
  BY <1>1, GradedInvariant, PTL

-----------------------------------------------------------------------------
(* The right entries of a graded list stand for the questions answered      *)
(* right: every such question has one, and only one if no id is repeated.   *)

LEMMA EntriesMatchQuestions ==
  ASSUME TypeOK, ~HasUnknownId(questions, answers)
  PROVE  /\ Cardinality(AnsweredRight) \in Nat /\ Cardinality(CorrectEntries(answers)) \in Nat
         /\ Cardinality(AnsweredRight) <= Cardinality(CorrectEntries(answers))
         /\ Cardinality(CorrectEntries(answers)) <= Len(answers)
         /\ DistinctIds => Cardinality(CorrectEntries(answers)) = Cardinality(AnsweredRight)
<1>1. /\ \A i \in DOMAIN answers : answers[i].id \in questions
      /\ answers \in Seq(Entries)
  BY DEF HasUnknownId, TypeOK
<1>2. CorrectEntries(answers) \subseteq DOMAIN answers
  BY DEF CorrectEntries
<1>3. /\ IsFiniteSet(CorrectEntries(answers))
      /\ Cardinality(CorrectEntries(answers)) <= Len(answers)
  <2>1. PICK n \in Nat : n = Len(answers) /\ DOMAIN answers = 1 .. n
    BY <1>1
  <2>2. IsFiniteSet(1 .. n) /\ Cardinality(1 .. n) = n
    <3>1. Cardinality(1 .. n) = (IF 1 > n THEN 0 ELSE n - 1 + 1) /\ IsFiniteSet(1 .. n)
      BY FS_Interval
    <3> QED
      BY <3>1
  <2>3. /\ IsFiniteSet(CorrectEntries(answers))
        /\ Cardinality(CorrectEntries(answers)) <= Cardinality(1 .. n)
    BY <1>2, <2>1, <2>2, FS_Subset
  <2> QED
    BY <2>1, <2>2, <2>3
<1>4. ASSUME NEW i \in DOMAIN answers
      PROVE  i \in CorrectEntries(answers) <=>
               SelectsKey(Bank[answers[i].id], answers[i].sel)
  <2>1. answers[i].id \in QuestionIds
    BY <1>1, SheetsAssumption DEF TypeOK
  <2>2. answers[i] \in Entries
    BY <1>1
  <2>3. answers[i].sel \in Selections
    BY <2>2 DEF Entries
  <2>4. QED
    BY <2>1, <2>3, MatchesKey DEF CorrectEntries
<1> DEFINE f == [i \in CorrectEntries(answers) |-> answers[i].id]
<1>5. f \in [CorrectEntries(answers) -> AnsweredRight]
  BY <1>1, <1>2, <1>4 DEF AnsweredRight
<1>6. DistinctIds => \A i, j \in CorrectEntries(answers) : f[i] = f[j] => i = j
  BY <1>2 DEF DistinctIds
<1>7. ASSUME NEW q \in AnsweredRight
      PROVE  \E i \in CorrectEntries(answers) : f[i] = q
  <2>1. PICK i \in DOMAIN answers :
          answers[i].id = q /\ SelectsKey(Bank[q], answers[i].sel)
    BY DEF AnsweredRight
  <2>2. i \in CorrectEntries(answers)
    BY <1>4, <2>1
  <2>3. QED
    BY <2>1, <2>2
<1> HIDE DEF f
<1>8. f \in Surjection(CorrectEntries(answers), AnsweredRight)
  BY <1>5, <1>7 DEF Surjection
<1>9. DistinctIds => f \in Injection(CorrectEntries(answers), AnsweredRight)
  BY <1>5, <1>6 DEF Injection, IsInjective
<1>10. /\ IsFiniteSet(AnsweredRight)
       /\ Cardinality(AnsweredRight) <= Cardinality(CorrectEntries(answers))
       /\ DistinctIds => Cardinality(AnsweredRight) = Cardinality(CorrectEntries(answers))
  BY <1>3, <1>8, <1>9, FS_Surjection
<1>11. QED
  BY <1>3, <1>10, FS_CardinalityType

LEMMA BorderInTenths ==
  ASSUME NEW count \in Nat, NEW total \in Nat
  PROVE  ReachesBorder(count, total) <=> count + total > 0 /\ 10 * count >= 6 * total
BY DEF ReachesBorder, DefaultBorderResult

\* With at most one entry per question the grade is the share of the session's
\* questions answered right and six tenths pass; with more it is never below that
\* share.  For every bank, every session and lists of any length:
\* processingResult and the three IsAnswerCorrect methods against docs/API.md.
THEOREM GradeIsShare == Spec => []GradeIsShareOfQuestions
<1>1. Graded => GradeIsShareOfQuestions
  <2> SUFFICES ASSUME Graded, reply = "graded"
               PROVE  GradeIsShareOfQuestions
    BY DEF GradeIsShareOfQuestions
  <2> DEFINE right == Cardinality(AnsweredRight)
             count == Cardinality(CorrectEntries(answers))
             total == Cardinality(questions)
  <2>1. /\ right \in Nat /\ count \in Nat /\ right <= count /\ count <= Len(answers)
        /\ DistinctIds => count = right
    BY EntriesMatchQuestions DEF Graded
  <2>2. /\ Result.correct = count /\ Result.total = total
        /\ Result.is_success = ReachesBorder(count, total)
    BY DEF Result, ProcessingResult, CountOfCorrectUserAnswers
  <2>3. questions \subseteq QuestionIds /\ IsFiniteSet(QuestionIds)
    BY SheetsAssumption, BankAssumption DEF Graded, TypeOK
  <2>4. total \in Nat /\ (questions = {} <=> total = 0)
    <3>1. IsFiniteSet(questions)
      BY <2>3, FS_Subset
    <3>2. QED
      BY <3>1, FS_CardinalityType, FS_EmptySet
  <2>5. right <= total
    <3>1. AnsweredRight \subseteq questions /\ IsFiniteSet(questions)
      BY <2>3, FS_Subset DEF AnsweredRight
    <3>2. QED
      BY <3>1, FS_Subset
  <2> HIDE DEF right, count, total
  <2>6. Result.is_success <=> count + total > 0 /\ 10 * count >= 6 * total
    BY <2>1, <2>2, <2>4, BorderInTenths
  <2>7. ASSUME questions # {}, 10 * right >= 6 * total PROVE Result.is_success
    BY <2>1, <2>4, <2>6, <2>7
  <2>8. ASSUME DistinctIds, Result.is_success
        PROVE  questions # {} /\ 10 * right >= 6 * total
    BY <2>1, <2>4, <2>5, <2>6, <2>8
  <2>9. QED
    BY <2>1, <2>2, <2>7, <2>8 DEF GradeIsShareOfQuestions, right, total
<1>2. QED
  BY <1>1, GradedInvariant, PTL
=============================================================================
