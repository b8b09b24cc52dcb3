----------------------------- MODULE FlowHistory -----------------------------
(***************************************************************************)
(* Facts about sequences, for the refinements of AssetFlow: a function on  *)
(* 1..n is a sequence, one more value appends it, and what a concatenation *)
(* without repetition keeps and adds.  Facts about histories, for the      *)
(* audits: what came out of an object is the least closed set, and stays   *)
(* what it was when nothing live of it is consumed.                        *)
(***************************************************************************)
EXTENDS Lineage, SequencesExt, SequenceTheorems, FiniteSetTheorems,
        WellFoundedInduction, TLAPS

\* A function on 1..n is a sequence of its values.
LEMMA FunctionIsSequence ==
  ASSUME NEW n \in Nat, NEW f, f = [i \in 1..n |-> f[i]],
         NEW T, \A i \in 1..n : f[i] \in T
  PROVE  f \in Seq(T) /\ Len(f) = n
<1>1. f \in [1..n -> T]
  OBVIOUS
<1> QED
  BY <1>1

\* A function that agrees with f on 1..n and has e at n + 1 is Append(f, e).
LEMMA ExtendedIsAppended ==
  ASSUME NEW n \in Nat, NEW f, f = [i \in 1..n |-> f[i]],
         NEW g, g = [i \in 1..(n + 1) |-> g[i]],
         NEW e, g[n + 1] = e, \A i \in 1..n : g[i] = f[i]
  PROVE  /\ g = Append(f, e)
         /\ g # <<>>
         /\ Len(g) = n + 1
<1> DEFINE T == {f[i] : i \in 1..n} \cup {e}
<1>1. f \in Seq(T) /\ Len(f) = n
  <2>1. \A i \in 1..n : f[i] \in T
    OBVIOUS
  <2> HIDE DEF T
  <2> QED
    BY <2>1, FunctionIsSequence
<1>2. e \in T
  OBVIOUS
<1>3. \A i \in 1..(n + 1) : i \in 1..n \/ i = n + 1
  OBVIOUS
<1>4. \A i \in 1..(n + 1) : g[i] \in T
  BY <1>3
<1>5. n + 1 \in Nat
  OBVIOUS
<1> HIDE DEF T
<1>6. g \in Seq(T) /\ Len(g) = n + 1
  BY <1>4, <1>5, FunctionIsSequence
<1>7. /\ Append(f, e) \in Seq(T) /\ Len(Append(f, e)) = n + 1
      /\ \A i \in 1..n : Append(f, e)[i] = f[i]
      /\ Append(f, e)[n + 1] = e
  BY <1>1, <1>2, AppendProperties
<1>8. \A i \in 1..(n + 1) : g[i] = Append(f, e)[i]
  BY <1>3, <1>7
<1>9. g = Append(f, e)
  BY <1>6, <1>7, <1>8, SeqEqual
<1> QED
  BY <1>6, <1>9

LEMMA RangeOfNone == Range(<<>>) = {}
  BY DEF Range

LEMMA RangeOfOne == \A x : Range(<<x>>) = {x}
  BY DEF Range

LEMMA RangeOfTwo == \A x, y : Range(<<x, y>>) = {x, y}
<1> SUFFICES ASSUME NEW x, NEW y PROVE Range(<<x, y>>) = {x, y}
  OBVIOUS
<1>1. DOMAIN <<x, y>> = {1, 2} /\ <<x, y>>[1] = x /\ <<x, y>>[2] = y
  OBVIOUS
<1> QED
  BY <1>1 DEF Range

LEMMA AppendToOne == \A x, y : Append(<<x>>, y) = <<x, y>>
<1> SUFFICES ASSUME NEW x, NEW y PROVE Append(<<x>>, y) = <<x, y>>
  OBVIOUS
<1>1. /\ <<x>> \in Seq({x, y}) /\ Len(<<x>>) = 1 /\ <<x>>[1] = x
      /\ <<x, y>> \in Seq({x, y}) /\ Len(<<x, y>>) = 2
      /\ <<x, y>>[1] = x /\ <<x, y>>[2] = y
  OBVIOUS
<1>2. /\ Append(<<x>>, y) \in Seq({x, y}) /\ Len(Append(<<x>>, y)) = 2
      /\ Append(<<x>>, y)[1] = x /\ Append(<<x>>, y)[2] = y
  BY <1>1, AppendProperties
<1>3. \A i \in 1..2 : i = 1 \/ i = 2
  OBVIOUS
<1> QED
  BY <1>1, <1>2, <1>3, SeqEqual

\* What is appended without repetition is new, and the rest stays in its place.
LEMMA InjectiveConcat ==
  ASSUME NEW S, NEW s \in Seq(S), NEW t \in Seq(S), IsInjective(s \o t)
  PROVE  /\ s \o t \in Seq(S)
         /\ DOMAIN s \subseteq DOMAIN (s \o t)
         /\ \A i \in DOMAIN s : (s \o t)[i] = s[i]
         /\ Range(s \o t) = Range(s) \cup Range(t)
         /\ Range(s) \cap Range(t) = {}
<1>1. /\ s \o t \in Seq(S)
      /\ Len(s \o t) = Len(s) + Len(t)
      /\ \A i \in 1..(Len(s) + Len(t)) :
           (s \o t)[i] = IF i <= Len(s) THEN s[i] ELSE t[i - Len(s)]
  BY ConcatProperties
<1>2. /\ Len(s) \in Nat /\ Len(t) \in Nat
      /\ DOMAIN s = 1..Len(s) /\ DOMAIN t = 1..Len(t)
      /\ DOMAIN (s \o t) = 1..(Len(s) + Len(t))
  BY <1>1
<1>3. \A i \in DOMAIN s : i \in DOMAIN (s \o t) /\ (s \o t)[i] = s[i]
  BY <1>1, <1>2
<1>4. \A j \in DOMAIN t : /\ Len(s) + j \in DOMAIN (s \o t)
                          /\ (s \o t)[Len(s) + j] = t[j]
  <2> SUFFICES ASSUME NEW j \in DOMAIN t
               PROVE  /\ Len(s) + j \in DOMAIN (s \o t)
                      /\ (s \o t)[Len(s) + j] = t[j]
    OBVIOUS
  <2>1. Len(s) + j \in 1..(Len(s) + Len(t)) /\ ~(Len(s) + j <= Len(s))
        /\ (Len(s) + j) - Len(s) = j
    BY <1>2
  <2> QED
    BY <1>1, <1>2, <2>1
<1>5. ASSUME NEW i \in DOMAIN s, NEW j \in DOMAIN t
      PROVE  s[i] # t[j]
  <2>1. i # Len(s) + j
    BY <1>2
  <2> QED
    BY <1>3, <1>4, <2>1 DEF IsInjective
<1>6. Range(s) \cap Range(t) = {}
  BY <1>5 DEF Range
<1>7. Range(s \o t) = Range(s) \cup Range(t)
  BY RangeConcatenation
<1> QED
  BY <1>1, <1>3, <1>6, <1>7

-----------------------------------------------------------------------------
\* What came out of an object contains it, was created, and is closed.
LEMMA DescendantsClosed ==
  ASSUME NEW history, NEW object
  PROVE  /\ object \in Descendants(history, object)
         /\ Descendants(history, object) \subseteq Created(history) \cup {object}
         /\ Closed(history, Descendants(history, object))
<1> DEFINE objects == Created(history) \cup {object}
           D       == Descendants(history, object)
<1>1. D = {x \in objects : \A set \in SUBSET objects :
                             object \in set /\ Closed(history, set) => x \in set}
  BY DEF Descendants
<1>2. object \in D /\ D \subseteq objects
  BY <1>1
<1>3. ASSUME NEW i \in DOMAIN history, history[i].inputs \cap D # {},
             NEW y \in history[i].outputs
      PROVE  y \in D
  <2>1. y \in objects
    BY DEF Created
  <2>2. ASSUME NEW set \in SUBSET objects, object \in set, Closed(history, set)
        PROVE  y \in set
    <3>1. D \subseteq set
      BY <1>1, <2>2
    <3> QED
      BY <1>3, <2>2, <3>1 DEF Closed
  <2> QED
    BY <1>1, <2>1, <2>2
<1>4. Closed(history, D)
  BY <1>3 DEF Closed
<1> QED
  BY <1>2, <1>4

\* It is the least closed set that contains the object.
LEMMA DescendantsLeast ==
  ASSUME NEW history, NEW object, NEW set, object \in set, Closed(history, set)
  PROVE  Descendants(history, object) \subseteq set
<1> DEFINE objects == Created(history) \cup {object}
           part    == set \cap objects
<1>1. part \in SUBSET objects /\ object \in part
  OBVIOUS
<1>2. \A i \in DOMAIN history : history[i].outputs \subseteq objects
  BY DEF Created
<1>3. Closed(history, part)
  <2> SUFFICES ASSUME NEW i \in DOMAIN history, history[i].inputs \cap part # {}
               PROVE  history[i].outputs \subseteq part
    BY DEF Closed
  <2>1. history[i].inputs \cap set # {}
    OBVIOUS
  <2> QED
    BY <1>2, <2>1 DEF Closed
<1> QED
  BY <1>1, <1>3 DEF Descendants

\* What came out of a descendant came out of the object.
LEMMA DescendantsTransitive ==
  ASSUME NEW history, NEW object, NEW x \in Descendants(history, object)
  PROVE  Descendants(history, x) \subseteq Descendants(history, object)
BY DescendantsClosed, DescendantsLeast

\* What is an input of the record of an object's producer is an ancestor.
LEMMA ParentsAreAncestors ==
  ASSUME NEW history, NEW id \in DOMAIN history, NEW x \in history[id].outputs,
         NEW object \in Descendants(history, x), NEW p \in history[id].inputs
  PROVE  object \in Descendants(history, p)
<1>1. p \in Descendants(history, p) /\ Closed(history, Descendants(history, p))
  BY DescendantsClosed
<1>2. x \in Descendants(history, p)
  BY <1>1 DEF Closed
<1> QED
  BY <1>2, DescendantsTransitive

\* A set of objects with their parents holds every ancestor of its members.
LEMMA AncestorsReached ==
  ASSUME NEW history, NEW object, NEW set, object \in set,
         \A i \in DOMAIN history :
           history[i].outputs \cap set # {} => history[i].inputs \subseteq set,
         NEW x, object \in Descendants(history, x)
  PROVE  x \in set
<1> SUFFICES ASSUME x \notin set PROVE FALSE
  OBVIOUS
<1> DEFINE others == (Created(history) \cup {x}) \ set
<1>1. \A i \in DOMAIN history : history[i].outputs \subseteq Created(history)
  BY DEF Created
<1>2. Closed(history, others)
  BY <1>1 DEF Closed
<1>3. Descendants(history, x) \subseteq others
  BY <1>2, DescendantsLeast
<1> QED
  BY <1>3

\* A longer history.
Continues(long, short) ==
  /\ DOMAIN short \subseteq DOMAIN long
  /\ \A i \in DOMAIN short : long[i] = short[i]

LEMMA ContinuesCreates ==
  ASSUME NEW long, NEW short, Continues(long, short)
  PROVE  Created(short) \subseteq Created(long) /\ Consumed(short) \subseteq Consumed(long)
BY DEF Continues, Created, Consumed

LEMMA ContinuesTransitive ==
  ASSUME NEW long, NEW middle, NEW short, Continues(long, middle), Continues(middle, short)
  PROVE  Continues(long, short)
BY DEF Continues

\* An event that consumes what is live and creates what is new extends a
\* history as a ledger records it.
LEMMA CausalAppend ==
  ASSUME NEW S, NEW history \in Seq(S), Causal(history), NEW event \in S,
         event.inputs \subseteq LiveIn(history),
         event.outputs \cap Created(history) = {}
  PROVE  /\ Append(history, event) \in Seq(S)
         /\ Causal(Append(history, event))
         /\ Continues(Append(history, event), history)
         /\ Consumed(Append(history, event)) = Consumed(history) \cup event.inputs
         /\ Created(Append(history, event)) = Created(history) \cup event.outputs
<1> DEFINE n    == Len(history)
           long == Append(history, event)
<1>1. /\ long \in Seq(S) /\ n \in Nat /\ DOMAIN history = 1..n
      /\ DOMAIN long = 1..(n + 1)
      /\ \A i \in 1..n : long[i] = history[i]
      /\ long[n + 1] = event
  BY AppendProperties
<1>2. \A i \in DOMAIN long : i \in 1..n \/ i = n + 1
  BY <1>1
<1>3. Continues(long, history)
  BY <1>1 DEF Continues
<1>4. \A i \in 1..n : /\ history[i].inputs \cap event.inputs = {}
                     /\ history[i].outputs \cap event.outputs = {}
  BY <1>1 DEF LiveIn, Consumed, Created
<1> HIDE DEF n, long
<1>5. ASSUME NEW i \in DOMAIN long, NEW x \in long[i].inputs
      PROVE  \E j \in 1..(i - 1) : x \in long[j].outputs
  <2>1. CASE i \in 1..n
    <3>1. PICK j \in 1..(i - 1) : x \in history[j].outputs
      BY <1>1, <1>5, <2>1 DEF Causal
    <3>2. j \in 1..n
      BY <1>1, <2>1
    <3> QED
      BY <1>1, <3>1, <3>2
  <2>2. CASE i = n + 1
    <3>1. x \in Created(history)
      BY <1>1, <1>5, <2>2 DEF LiveIn
    <3>2. PICK j \in 1..n : x \in history[j].outputs
      BY <1>1, <3>1 DEF Created
    <3>3. j \in 1..(i - 1)
      BY <1>1, <2>2, <3>2
    <3> QED
      BY <1>1, <3>2, <3>3
  <2> QED
    BY <1>2, <2>1, <2>2
<1>6. ASSUME NEW i \in DOMAIN long, NEW j \in DOMAIN long, i # j
      PROVE  /\ long[i].inputs \cap long[j].inputs = {}
             /\ long[i].outputs \cap long[j].outputs = {}
  <2>1. CASE i \in 1..n /\ j \in 1..n
    BY <1>1, <1>6, <2>1 DEF Causal
  <2>2. CASE i \in 1..n /\ j = n + 1
    BY <1>1, <1>4, <2>2
  <2>3. CASE i = n + 1 /\ j \in 1..n
    BY <1>1, <1>4, <2>3
  <2> QED
    BY <1>2, <1>6, <2>1, <2>2, <2>3
<1>7. Causal(long)
  BY <1>5, <1>6 DEF Causal
<1>8. /\ Consumed(long) = Consumed(history) \cup event.inputs
      /\ Created(long) = Created(history) \cup event.outputs
  <2>1. n + 1 \in DOMAIN long /\ 1..n \subseteq DOMAIN long
    BY <1>1
  <2> QED
    BY <1>1, <1>2, <2>1 DEF Consumed, Created
<1> QED
  BY <1>1, <1>3, <1>7, <1>8 DEF long

\* While nothing live that came out of an object is consumed, nothing else
\* comes out of it.
LEMMA Sealed ==
  ASSUME NEW long, NEW short, Continues(long, short), Causal(long),
         NEW object \in Created(short),
         \A x \in Descendants(short, object) \cap LiveIn(short) : x \notin Consumed(long)
  PROVE  Descendants(long, object) \subseteq Descendants(short, object)
<1> DEFINE D == Descendants(short, object)
<1>1. object \in D /\ D \subseteq Created(short) /\ Closed(short, D)
  BY DescendantsClosed
<1>2. ASSUME NEW i \in DOMAIN long, NEW x \in D, x \in long[i].inputs
      PROVE  i \in DOMAIN short
  <2>1. x \in Consumed(long)
    BY <1>2 DEF Consumed
  <2>2. x \in Consumed(short)
    BY <1>1, <2>1 DEF LiveIn
  <2>3. PICK j \in DOMAIN short : x \in short[j].inputs
    BY <2>2 DEF Consumed
  <2>4. j \in DOMAIN long /\ x \in long[j].inputs
    BY <2>3 DEF Continues
  <2> QED
    BY <1>2, <2>4 DEF Causal
<1>3. Closed(long, D)
  <2> SUFFICES ASSUME NEW i \in DOMAIN long, NEW x \in D, x \in long[i].inputs
               PROVE  long[i].outputs \subseteq D
    BY DEF Closed
  <2>1. i \in DOMAIN short /\ long[i] = short[i]
    BY <1>2 DEF Continues
  <2> QED
    BY <1>1, <2>1 DEF Closed
<1> QED
  BY <1>1, <1>3, DescendantsLeast

-----------------------------------------------------------------------------
\* A position that was found is one of them.
LEMMA PositionFound ==
  ASSUME NEW n \in Nat, NEW found \in SUBSET (1..n)
  PROVE  /\ Position(found) \in 0..n
         /\ Position(found) = 0 <=> found = {}
         /\ found # {} => Position(found) \in found
<1>1. CASE found = {}
  BY <1>1 DEF Position
<1>2. CASE found # {}
  <2>1. Position(found) \in found
    BY <1>2 DEF Position
  <2>2. Position(found) \in 1..n
    BY <2>1
  <2>3. Position(found) \in 0..n /\ Position(found) # 0
    BY <2>2
  <2> QED
    BY <1>2, <2>1, <2>3
<1> QED
  BY <1>1, <1>2

\* Where a history creates and consumes an object: in one event or in none.
LEMMA EventsFound ==
  ASSUME NEW S, NEW history \in Seq(S), Causal(history), NEW ref
  PROVE  LET made == {i \in DOMAIN history : ref \in history[i].outputs}
             used == {i \in DOMAIN history : ref \in history[i].inputs}
         IN  /\ DOMAIN history = 1..Len(history) /\ Len(history) \in Nat
             /\ \A i \in DOMAIN history : history[i] \in S
             /\ Position(made) \in Nat /\ Position(used) \in Nat
             /\ Position(made) = 0 <=> ref \notin Created(history)
             /\ Position(used) = 0 <=> ref \notin Consumed(history)
             /\ Position(made) # 0 => /\ Position(made) \in DOMAIN history
                                      /\ ref \in history[Position(made)].outputs
             /\ Position(used) # 0 => /\ Position(used) \in DOMAIN history
                                      /\ ref \in history[Position(used)].inputs
             /\ \A i \in DOMAIN history : ref \in history[i].outputs => Position(made) = i
             /\ \A i \in DOMAIN history : ref \in history[i].inputs => Position(used) = i
<1> DEFINE made == {i \in DOMAIN history : ref \in history[i].outputs}
           used == {i \in DOMAIN history : ref \in history[i].inputs}
<1>1. /\ DOMAIN history = 1..Len(history) /\ Len(history) \in Nat
      /\ \A i \in DOMAIN history : history[i] \in S
  BY ElementOfSeq
<1>2. made \in SUBSET (1..Len(history)) /\ used \in SUBSET (1..Len(history))
  BY <1>1
<1>3. /\ made = {} <=> ref \notin Created(history)
      /\ used = {} <=> ref \notin Consumed(history)
  BY DEF Created, Consumed
<1>4. /\ \A i, j \in made : i = j
      /\ \A i, j \in used : i = j
  BY DEF Causal
<1>5. /\ Position(made) \in Nat /\ (Position(made) = 0 <=> made = {})
      /\ made # {} => Position(made) \in made
      /\ Position(used) \in Nat /\ (Position(used) = 0 <=> used = {})
      /\ used # {} => Position(used) \in used
  BY <1>1, <1>2, PositionFound
<1>6. /\ \A i \in made : Position(made) = i
      /\ \A i \in used : Position(used) = i
  BY <1>4, <1>5
<1> QED
  BY <1>1, <1>3, <1>5, <1>6

\* The sequence of a finite set has its elements, each once.
LEMMA SequenceOfSet ==
  ASSUME NEW S, IsFiniteSet(S)
  PROVE  /\ SetToSeq(S) \in Seq(S)
         /\ ToSet(SetToSeq(S)) = S
         /\ IsInjective(SetToSeq(S))
<1> DEFINE n == Cardinality(S)
           s == SetToSeq(S)
<1>1. n \in Nat
  BY FS_CardinalityType
<1>2. PICK f : f \in Bijection(1..n, S)
  BY FS_CardinalityType DEF ExistsBijection
<1>3. f \in [1..n -> S] /\ IsInjective(f)
  BY <1>2 DEF Bijection, Injection, IsInjective
<1>4. s \in [1..n -> S] /\ IsInjective(s)
  BY <1>3 DEF SetToSeq
<1>5. s \in Seq(S)
  BY <1>1, <1>4
<1>6. s \in Injection(1..n, S)
  BY <1>4 DEF Injection
<1>7. Cardinality(1..n) = n
  BY <1>1, FS_Interval
<1>8. s \in Surjection(1..n, S)
  BY <1>6, <1>7, FS_Injection
<1>9. ToSet(s) = S
  BY <1>4, <1>8 DEF ToSet, Surjection
<1> QED
  BY <1>4, <1>5, <1>9

\* The elements of a queue after its head was served and more was appended.
LEMMA QueueStep ==
  ASSUME NEW S, NEW s \in Seq(S), s # <<>>, NEW t \in Seq(S)
  PROVE  /\ Head(s) \in S
         /\ ToSet(s) = {Head(s)} \cup ToSet(Tail(s))
         /\ Tail(s) \in Seq(S)
         /\ Tail(s) \o t \in Seq(S)
         /\ ToSet(Tail(s) \o t) = ToSet(Tail(s)) \cup ToSet(t)
<1>1. /\ Head(s) \in S /\ Tail(s) \in Seq(S) /\ Len(Tail(s)) = Len(s) - 1
      /\ \A i \in 1..Len(Tail(s)) : Tail(s)[i] = s[i + 1]
      /\ Head(s) = s[1]
  BY HeadTailProperties
<1>2. /\ DOMAIN s = 1..Len(s) /\ Len(s) \in Nat \ {0}
      /\ DOMAIN Tail(s) = 1..Len(s) - 1
  BY <1>1, EmptySeq, LenProperties
<1>3. \A x \in ToSet(s) : x = Head(s) \/ x \in ToSet(Tail(s))
  <2> SUFFICES ASSUME NEW i \in 1..Len(s), i # 1
               PROVE  s[i] \in ToSet(Tail(s))
    BY <1>1, <1>2 DEF ToSet
  <2>1. i - 1 \in DOMAIN Tail(s) /\ (i - 1) + 1 = i
    BY <1>2
  <2>2. Tail(s)[i - 1] = s[i]
    BY <1>1, <1>2, <2>1
  <2> QED
    BY <2>1, <2>2 DEF ToSet
<1>4. Head(s) \in ToSet(s)
  BY <1>1, <1>2 DEF ToSet
<1>5. ToSet(Tail(s)) \subseteq ToSet(s)
  <2> SUFFICES ASSUME NEW i \in 1..Len(s) - 1
               PROVE  Tail(s)[i] \in ToSet(s)
    BY <1>2 DEF ToSet
  <2>1. i + 1 \in DOMAIN s /\ Tail(s)[i] = s[i + 1]
    BY <1>1, <1>2
  <2> QED
    BY <2>1 DEF ToSet
<1>6. /\ Tail(s) \o t \in Seq(S)
      /\ Range(Tail(s) \o t) = Range(Tail(s)) \cup Range(t)
  BY <1>1, ConcatProperties, RangeConcatenation
<1>7. ToSet(Tail(s) \o t) = ToSet(Tail(s)) \cup ToSet(t)
  BY <1>6 DEF ToSet, Range
<1> QED
  BY <1>1, <1>3, <1>4, <1>5, <1>6, <1>7

\* What a sequence without repetition holds after an append, and how much.
LEMMA SetAfterAppend ==
  ASSUME NEW S, NEW s \in Seq(S), NEW e \in S
  PROVE  /\ Append(s, e) \in Seq(S)
         /\ ToSet(Append(s, e)) = ToSet(s) \cup {e}
         /\ IsInjective(s) /\ e \notin ToSet(s) => IsInjective(Append(s, e))
<1>1. /\ Append(s, e) \in Seq(S) /\ Len(Append(s, e)) = Len(s) + 1
      /\ \A i \in 1..Len(s) : Append(s, e)[i] = s[i]
      /\ Append(s, e)[Len(s) + 1] = e
  BY AppendProperties
<1>2. /\ DOMAIN s = 1..Len(s) /\ Len(s) \in Nat
      /\ DOMAIN Append(s, e) = 1..(Len(s) + 1)
  BY <1>1
<1>3. \A i \in 1..(Len(s) + 1) : i \in 1..Len(s) \/ i = Len(s) + 1
  BY <1>2
<1>4. 1..Len(s) \subseteq 1..(Len(s) + 1) /\ Len(s) + 1 \in 1..(Len(s) + 1)
  BY <1>2
<1>5. ToSet(Append(s, e)) = ToSet(s) \cup {e}
  BY <1>1, <1>2, <1>3, <1>4 DEF ToSet
<1>6. ASSUME IsInjective(s), e \notin ToSet(s)
      PROVE  IsInjective(Append(s, e))
  BY <1>1, <1>2, <1>3, <1>6 DEF ToSet, IsInjective
<1> QED
  BY <1>1, <1>5, <1>6

LEMMA InjectiveCount ==
  ASSUME NEW S, NEW s \in Seq(S), IsInjective(s)
  PROVE  IsFiniteSet(ToSet(s)) /\ Cardinality(ToSet(s)) = Len(s)
<1>1. Len(s) \in Nat /\ DOMAIN s = 1..Len(s) /\ s \in [1..Len(s) -> ToSet(s)]
  BY DEF ToSet
<1>2. s \in Bijection(1..Len(s), ToSet(s))
  BY <1>1 DEF Bijection, Injection, Surjection, ToSet
<1>3. ExistsBijection(1..Len(s), ToSet(s))
  BY <1>2 DEF ExistsBijection
<1> QED
  BY <1>1, <1>3, FS_CountingElements, FS_NatBijection
-----------------------------------------------------------------------------
(* Sums over finite sets. *)

\* Induction over the subsets of a finite set.
LEMMA SubsetInduction ==
  ASSUME NEW S, IsFiniteSet(S), NEW P, {} \in P,
         \A T \in SUBSET S : T # {} /\ (\A x \in T : T \ {x} \in P) => T \in P
  PROVE  S \in P
<1> DEFINE bad == {T \in FiniteSubsetsOf(S) : T \notin P}
<1>1. FiniteSubsetsOf(S) = SUBSET S
  BY FS_Subset DEF FiniteSubsetsOf
<1> SUFFICES ASSUME bad # {} PROVE FALSE
  BY <1>1
<1>2. PICK T \in bad : \A U \in bad : ~ (<<U, T>> \in StrictSubsetOrdering(S))
  <2> HIDE DEF bad
  <2>1. bad \subseteq FiniteSubsetsOf(S)
    BY DEF bad
  <2> QED
    BY <2>1, FS_StrictSubsetOrderingWellFounded, WFMin
<1>3. T \in SUBSET S /\ T # {}
  BY <1>1, <1>2
<1>4. ASSUME NEW x \in T PROVE T \ {x} \in P
  <2>1. T \ {x} \in FiniteSubsetsOf(S) /\ <<T \ {x}, T>> \in StrictSubsetOrdering(S)
    BY <1>1, <1>2 DEF StrictSubsetOrdering
  <2> QED
    BY <1>2, <2>1
<1> QED
  BY <1>2, <1>3, <1>4

\* The recursion that a sum over a set is defined by.
Iterates(g, fun, S) ==
  g = [s \in SUBSET S |-> IF s = {} THEN 0
                          ELSE LET x == CHOOSE x \in s : TRUE IN fun[x] + g[s \ {x}]]

LEMMA SumIterates ==
  ASSUME NEW fun, NEW S
  PROVE  SumFunctionOnSet(fun, S) = (CHOOSE g : Iterates(g, fun, S))[S]
  BY DEF SumFunctionOnSet, FoldFunctionOnSet, MapThenFoldSet, Iterates

\* A sum over subsets in any order.
Sums(g, fun, S) ==
  /\ g \in [SUBSET S -> Int]
  /\ g[{}] = 0
  /\ \A s \in SUBSET S : \A x \in s : g[s] = fun[x] + g[s \ {x}]

LEMMA SumsExist ==
  ASSUME NEW S, IsFiniteSet(S), NEW fun, \A x \in S : fun[x] \in Int
  PROVE  \E g : Sums(g, fun, S)
<1> DEFINE P == {T \in SUBSET S : \E g : Sums(g, fun, T)}
<1>1. {} \in P
  <2>1. Sums([s \in {{}} |-> 0], fun, {})
    BY DEF Sums
  <2> QED
    BY <2>1
<1>2. ASSUME NEW T \in SUBSET S, T # {}, \A y \in T : T \ {y} \in P
      PROVE  T \in P
  <2> PICK y : y \in T
    BY <1>2
  <2>1. PICK g : Sums(g, fun, T \ {y})
    BY <1>2
  <2> DEFINE h == [s \in SUBSET T |-> IF y \in s THEN fun[y] + g[s \ {y}] ELSE g[s]]
  <2>2. h \in [SUBSET T -> Int]
    <3> SUFFICES ASSUME NEW s \in SUBSET T
                 PROVE  (IF y \in s THEN fun[y] + g[s \ {y}] ELSE g[s]) \in Int
      OBVIOUS
    <3>1. s \ {y} \in SUBSET (T \ {y}) /\ (y \notin s => s \in SUBSET (T \ {y}))
      OBVIOUS
    <3> QED
      BY <2>1, <3>1 DEF Sums
  <2>3. h[{}] = 0
    BY <2>1 DEF Sums
  <2>4. ASSUME NEW s \in SUBSET T, NEW x \in s
        PROVE  h[s] = fun[x] + h[s \ {x}]
    <3>1. s \ {y} \in SUBSET (T \ {y}) /\ s \ {x} \in SUBSET T /\ fun[x] \in Int /\ fun[y] \in Int
      OBVIOUS
    <3>2. CASE x = y
      BY <3>1, <3>2
    <3>3. CASE x # y /\ y \in s
      <4>1. (s \ {y}) \ {x} = (s \ {x}) \ {y} /\ (s \ {x}) \ {y} \in SUBSET (T \ {y})
        OBVIOUS
      <4>5. g[s \ {y}] = fun[x] + g[(s \ {y}) \ {x}]
        BY <2>1, <3>1, <3>3 DEF Sums
      <4>2. g[s \ {y}] = fun[x] + g[(s \ {x}) \ {y}] /\ g[(s \ {x}) \ {y}] \in Int
        <5> DEFINE u == (s \ {y}) \ {x}
                   v == (s \ {x}) \ {y}
        <5>1. u = v /\ g[s \ {y}] = fun[x] + g[u]
          BY <4>1, <4>5
        <5>2. g[v] \in Int
          BY <2>1, <4>1 DEF Sums
        <5> QED
          <6> HIDE DEF u
          <6> QED BY <5>1, <5>2
      <4>3. h[s] = fun[y] + g[s \ {y}]
        BY <3>1, <3>3
      <4>4. h[s \ {x}] = fun[y] + g[(s \ {x}) \ {y}]
        BY <3>1, <3>3
      <4> HIDE DEF h
      <4> QED
        BY <3>1, <4>2, <4>3, <4>4
    <3>4. CASE y \notin s
      <4>1. s \in SUBSET (T \ {y})
        BY <3>4
      <4> QED
        BY <2>1, <3>1, <3>4, <4>1 DEF Sums
    <3> QED
      BY <3>2, <3>3, <3>4
  <2> HIDE DEF h
  <2> QED
    BY <2>2, <2>3, <2>4 DEF Sums
<1> HIDE DEF P
<1>3. S \in P
  BY <1>1, <1>2, SubsetInduction
<1> QED
  BY <1>3 DEF P

\* The recursion has the value of a sum in any order, on every subset.
LEMMA SumIsSums ==
  ASSUME NEW S, IsFiniteSet(S), NEW fun, NEW g, Sums(g, fun, S), NEW T \in SUBSET S
  PROVE  SumFunctionOnSet(fun, T) = g[T]
<1> DEFINE k == [s \in SUBSET T |-> g[s]]
<1>1. ASSUME NEW s \in SUBSET T, s # {}
      PROVE  LET x == CHOOSE x \in s : TRUE IN x \in s /\ g[s] = fun[x] + g[s \ {x}]
  BY <1>1 DEF Sums
<1>2. Iterates(k, fun, T)
  BY <1>1 DEF Iterates, Sums
<1> DEFINE h == CHOOSE h : Iterates(h, fun, T)
<1>3. Iterates(h, fun, T)
  <2> HIDE DEF k
  <2> QED
    BY <1>2
<1> HIDE DEF h
<1> DEFINE P == {U \in SUBSET T : h[U] = g[U]}
<1>4. {} \in P
  BY <1>3 DEF Iterates, Sums
<1>5. IsFiniteSet(T)
  BY FS_Subset
<1>6. ASSUME NEW U \in SUBSET T, U # {}, \A x \in U : U \ {x} \in P
      PROVE  U \in P
  <2> DEFINE c == CHOOSE x \in U : TRUE
  <2>1. c \in U
    BY <1>6
  <2>2. h[U] = fun[c] + h[U \ {c}]
    BY <1>3, <1>6 DEF Iterates
  <2>3. g[U] = fun[c] + g[U \ {c}]
    BY <2>1 DEF Sums
  <2> QED
    BY <1>6, <2>1, <2>2, <2>3
<1>7. T \in P
  <2> HIDE DEF P
  <2> QED
    BY <1>4, <1>5, <1>6, SubsetInduction
<1> QED
  BY <1>7, SumIterates DEF h

LEMMA SumOfNone == \A fun : SumFunctionOnSet(fun, {}) = 0
<1> SUFFICES ASSUME NEW fun PROVE SumFunctionOnSet(fun, {}) = 0
  OBVIOUS
<1>1. IsFiniteSet({}) /\ {} \in SUBSET {}
  BY FS_EmptySet
<1>2. PICK g : Sums(g, fun, {})
  BY <1>1, SumsExist
<1>3. SumFunctionOnSet(fun, {}) = g[{}]
  BY <1>1, <1>2, SumIsSums
<1> QED
  BY <1>2, <1>3 DEF Sums

\* A sum is that of any element and the rest.
LEMMA SumRemove ==
  ASSUME NEW S, IsFiniteSet(S), NEW fun, \A x \in S : fun[x] \in Int
  PROVE  /\ SumFunctionOnSet(fun, S) \in Int
         /\ \A x \in S : SumFunctionOnSet(fun, S)
                           = fun[x] + SumFunctionOnSet(fun, S \ {x})
<1>1. PICK g : Sums(g, fun, S)
  BY SumsExist
<1>2. S \in SUBSET S /\ \A x \in S : S \ {x} \in SUBSET S
  OBVIOUS
<1>3. SumFunctionOnSet(fun, S) = g[S]
      /\ \A x \in S : SumFunctionOnSet(fun, S \ {x}) = g[S \ {x}]
  BY <1>1, <1>2, SumIsSums
<1> QED
  BY <1>1, <1>2, <1>3 DEF Sums

LEMMA SumAdd ==
  ASSUME NEW S, IsFiniteSet(S), NEW x, x \notin S,
         NEW fun, \A y \in S \cup {x} : fun[y] \in Int
  PROVE  /\ SumFunctionOnSet(fun, S) \in Int
         /\ SumFunctionOnSet(fun, S \cup {x}) = fun[x] + SumFunctionOnSet(fun, S)
<1>1. IsFiniteSet(S \cup {x}) /\ (S \cup {x}) \ {x} = S /\ x \in S \cup {x}
  BY FS_AddElement
<1>2. SumFunctionOnSet(fun, S \cup {x})
        = fun[x] + SumFunctionOnSet(fun, (S \cup {x}) \ {x})
  BY <1>1, SumRemove
<1>3. SumFunctionOnSet(fun, S) \in Int
  BY SumRemove
<1> QED
  BY <1>1, <1>2, <1>3

LEMMA SumOfOne ==
  ASSUME NEW x, NEW fun, fun[x] \in Int
  PROVE  SumFunctionOnSet(fun, {x}) = fun[x]
<1>1. IsFiniteSet({}) /\ {} \cup {x} = {x}
  BY FS_EmptySet
<1> QED
  BY <1>1, SumOfNone, SumAdd

LEMMA SumOfTwo ==
  ASSUME NEW x, NEW y, x # y, NEW fun, fun[x] \in Int, fun[y] \in Int
  PROVE  SumFunctionOnSet(fun, {x, y}) = fun[x] + fun[y]
<1>1. IsFiniteSet({x}) /\ {x} \cup {y} = {x, y}
  BY FS_Singleton
<1>2. SumFunctionOnSet(fun, {x, y}) = fun[y] + SumFunctionOnSet(fun, {x})
  BY <1>1, SumAdd
<1>3. SumFunctionOnSet(fun, {x}) = fun[x]
  BY SumOfOne
<1> QED
  BY <1>2, <1>3

LEMMA SumUnion ==
  ASSUME NEW S, NEW T, IsFiniteSet(S), IsFiniteSet(T), S \cap T = {},
         NEW fun, \A x \in S \cup T : fun[x] \in Int
  PROVE  /\ SumFunctionOnSet(fun, S) \in Int
         /\ SumFunctionOnSet(fun, T) \in Int
         /\ SumFunctionOnSet(fun, S \cup T)
              = SumFunctionOnSet(fun, S) + SumFunctionOnSet(fun, T)
<1> DEFINE sum(s) == SumFunctionOnSet(fun, s)
           P == {U \in SUBSET T : sum(S \cup U) = sum(S) + sum(U)}
<1>1. sum(S) \in Int /\ sum(T) \in Int
  BY SumRemove
<1>2. {} \in P
  <2>1. S \cup {} = S
    OBVIOUS
  <2> QED
    BY <1>1, <2>1, SumOfNone
<1>3. ASSUME NEW U \in SUBSET T, U # {}, \A x \in U : U \ {x} \in P
      PROVE  U \in P
  <2> PICK x : x \in U
    BY <1>3
  <2>1. IsFiniteSet(U) /\ IsFiniteSet(S \cup U) /\ IsFiniteSet(U \ {x})
    BY FS_Subset, FS_Union, FS_RemoveElement
  <2>2. (S \cup U) \ {x} = S \cup (U \ {x}) /\ x \in S \cup U
    OBVIOUS
  <2>3. sum(S \cup U) = fun[x] + sum((S \cup U) \ {x})
    BY <2>1, <2>2, SumRemove
  <2>4. sum(U) = fun[x] + sum(U \ {x})
    BY <2>1, SumRemove
  <2>5. sum(U \ {x}) \in Int /\ fun[x] \in Int
    BY <2>1, SumRemove
  <2>6. sum((S \cup U) \ {x}) = sum(S) + sum(U \ {x})
    BY <1>3, <2>2
  <2> HIDE DEF sum
  <2>7. sum(S \cup U) = sum(S) + sum(U)
    BY <1>1, <2>3, <2>4, <2>5, <2>6
  <2> QED
    BY <2>7
<1>4. T \in P
  <2> HIDE DEF P
  <2> QED
    BY <1>2, <1>3, SubsetInduction
<1> QED
  BY <1>1, <1>4

\* Functions that agree on a set have the same sum.
LEMMA SumSame ==
  ASSUME NEW S, IsFiniteSet(S), NEW fun, NEW gun,
         \A x \in S : fun[x] \in Int /\ fun[x] = gun[x]
  PROVE  SumFunctionOnSet(fun, S) = SumFunctionOnSet(gun, S)
<1> DEFINE P == {U \in SUBSET S : SumFunctionOnSet(fun, U) = SumFunctionOnSet(gun, U)}
<1>1. {} \in P
  BY SumOfNone
<1>2. ASSUME NEW U \in SUBSET S, U # {}, \A x \in U : U \ {x} \in P
      PROVE  U \in P
  <2> PICK x : x \in U
    BY <1>2
  <2>1. IsFiniteSet(U) /\ \A y \in U : fun[y] \in Int /\ gun[y] \in Int
    BY FS_Subset
  <2>2. SumFunctionOnSet(fun, U) = fun[x] + SumFunctionOnSet(fun, U \ {x})
        /\ SumFunctionOnSet(gun, U) = gun[x] + SumFunctionOnSet(gun, U \ {x})
    BY <2>1, SumRemove
  <2> QED
    BY <1>2, <2>2
<1>3. S \in P
  <2> HIDE DEF P
  <2> QED
    BY <1>1, <1>2, SubsetInduction
<1> QED
  BY <1>3

\* The sum over the values of a sequence without repetition.
LEMMA SumOfRange ==
  ASSUME NEW seq, IsFiniteSet(DOMAIN seq), NEW fun,
         \A i, j \in DOMAIN seq : seq[i] = seq[j] => i = j,
         \A i \in DOMAIN seq : fun[seq[i]] \in Int
  PROVE  SumFunctionOnSet(fun, {seq[i] : i \in DOMAIN seq})
           = SumFunctionOnSet([i \in DOMAIN seq |-> fun[seq[i]]], DOMAIN seq)
<1> DEFINE image(U) == {seq[i] : i \in U}
           gun  == [i \in DOMAIN seq |-> fun[seq[i]]]
           sum(U) == SumFunctionOnSet(fun, image(U))
           P == {U \in SUBSET DOMAIN seq : IsFiniteSet(image(U)) /\ sum(U) = SumFunctionOnSet(gun, U)}
<1>1. {} \in P
  <2>1. image({}) = {}
    OBVIOUS
  <2> QED
    BY <2>1, SumOfNone, FS_EmptySet
<1>2. ASSUME NEW U \in SUBSET DOMAIN seq, U # {}, \A i \in U : U \ {i} \in P
      PROVE  U \in P
  <2> PICK i : i \in U
    BY <1>2
  <2>1. image(U) = image(U \ {i}) \cup {seq[i]} /\ seq[i] \notin image(U \ {i})
    OBVIOUS
  <2>2. IsFiniteSet(image(U \ {i})) /\ IsFiniteSet(image(U))
    <3>1. IsFiniteSet(image(U \ {i}))
      BY <1>2
    <3> HIDE DEF image, sum, P
    <3>2. IsFiniteSet(image(U \ {i}) \cup {seq[i]})
      BY <3>1, FS_AddElement
    <3> QED
      BY <2>1, <3>1, <3>2
  <2>3. \A y \in image(U \ {i}) \cup {seq[i]} : fun[y] \in Int
    OBVIOUS
  <2>4. sum(U) = fun[seq[i]] + sum(U \ {i})
    <3> HIDE DEF image
    <3> QED
      BY <2>1, <2>2, <2>3, SumAdd
  <2>5. IsFiniteSet(U) /\ \A j \in U : gun[j] \in Int
    BY FS_Subset
  <2>6. SumFunctionOnSet(gun, U) = gun[i] + SumFunctionOnSet(gun, U \ {i})
    <3> HIDE DEF gun
    <3> QED
      BY <2>5, SumRemove
  <2>7. gun[i] = fun[seq[i]]
    OBVIOUS
  <2> HIDE DEF sum, gun, image
  <2> QED
    BY <1>2, <2>2, <2>4, <2>6, <2>7
<1>3. DOMAIN seq \in P
  <2> HIDE DEF P
  <2> QED
    BY <1>1, <1>2, SubsetInduction
<1> QED
  BY <1>3
=============================================================================
